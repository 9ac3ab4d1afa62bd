------------------------------- MODULE CtxPool -----------------------------
(***************************************************************************)
(* CtxManager: the compression contexts that the threads share. GetCtx     *)
(* walks two deques in step, the contexts and their mutexes, under a mutex *)
(* of the pool; the caller unlocks the mutex it was given by itself.       *)
(***************************************************************************)
EXTENDS Naturals, Sequences, FiniteSets

CONSTANTS CtxThreads, NoThread

ASSUME CtxAssumption == NoThread \notin CtxThreads /\ IsFiniteSet(CtxThreads)

VARIABLES holder,    \* the thread that has locked each of Mutexes, or NoThread
          ctxs,      \* the number of contexts
          finder,    \* the thread inside GetCtx
          using      \* the context that each thread is at, 0 for none

ctxVars == <<holder, ctxs, finder, using>>

CtxTypeOK ==
    /\ holder \in Seq(CtxThreads \cup {NoThread})
    /\ ctxs \in Nat
    /\ finder \in CtxThreads \cup {NoThread}
    /\ using \in [CtxThreads -> Nat]

CtxInit ==
    /\ holder = <<>> /\ ctxs = 0
    /\ finder = NoThread
    /\ using = [t \in CtxThreads |-> 0]

\* GetCtx begins: the mutex of the pool.
LockPool(t) ==
    /\ finder = NoThread /\ using[t] = 0
    /\ finder' = t /\ using' = [using EXCEPT ![t] = 1]
    /\ UNCHANGED <<holder, ctxs>>

\* Mutant: the lock of try_to_lock is not asked whether it owns.
FreeUnasked(i) == TRUE

Free(i) == holder[i] = NoThread

TryLock(t) ==
    /\ finder = t /\ using[t] <= ctxs
    /\ IF Free(using[t])
       THEN holder' = [holder EXCEPT ![using[t]] = t] /\ finder' = NoThread /\ UNCHANGED using
       ELSE using' = [using EXCEPT ![t] = @ + 1] /\ UNCHANGED <<holder, finder>>
    /\ UNCHANGED ctxs

Create(t) ==
    /\ finder = t /\ using[t] > ctxs
    /\ holder' = Append(holder, t) /\ ctxs' = ctxs + 1
    /\ finder' = NoThread
    /\ UNCHANGED using

\* The lock goes out of the caller's scope.
Release(t) ==
    /\ finder # t /\ using[t] # 0
    /\ holder' = [holder EXCEPT ![using[t]] = NoThread]
    /\ using' = [using EXCEPT ![t] = 0]
    /\ UNCHANGED <<ctxs, finder>>

CtxNext == \E t \in CtxThreads : LockPool(t) \/ TryLock(t) \/ Create(t) \/ Release(t)

CtxSpec == CtxInit /\ [][CtxNext]_ctxVars

-----------------------------------------------------------------------------
Users == {t \in CtxThreads : using[t] # 0 /\ finder # t}

\* No two threads compress with one context, a context is never met before it is
\* there, and there are never more of them than threads that were at work at
\* one time (compression.h:28-41).
CtxExclusive ==
    /\ \A t, u \in Users : using[t] = using[u] => t = u
    /\ \A t \in Users : using[t] <= ctxs
    /\ ctxs <= Cardinality(CtxThreads)
=============================================================================
