---------------------------- MODULE ChunkStore -----------------------------
(***************************************************************************)
(* What the file system relies on when it calls Storage::GetChunk          *)
(* (MountedBuild::FileRead, PreloadFile): an asynchronous read of immutable *)
(* content.  A call ends with the chunk that was asked for, or with Null   *)
(* if the caller's flag was set; the process may break and start again.    *)
(* A chunk that the network can damage may come Damaged, and nobody can    *)
(* tell.  Nothing here knows of a pool or a cache file.                    *)
(***************************************************************************)
CONSTANTS
    Threads, Chunks, Null,
    Damaged,     \* bytes that are not those of the chunk asked for
    Corruptible  \* chunks that may be delivered damaged

VARIABLES
    busy,       \* threads inside a call
    want,       \* the chunk each thread asked for last
    got,        \* what its last call returned
    cancelled,  \* threads whose flag was set during the call
    up          \* the process has not broken

vars == <<busy, want, got, cancelled, up>>

Init ==
    /\ busy = {} /\ cancelled = {} /\ up = TRUE
    /\ want = [t \in Threads |-> Null]
    /\ got = [t \in Threads |-> Null]

Ask(t, c) ==
    /\ up /\ t \notin busy
    /\ busy' = busy \union {t}
    /\ want' = [want EXCEPT ![t] = c]
    /\ got' = [got EXCEPT ![t] = Null]
    /\ cancelled' = cancelled \ {t}
    /\ UNCHANGED up

Cancel(t) ==
    /\ up /\ t \in busy
    /\ cancelled' = cancelled \union {t}
    /\ UNCHANGED <<busy, want, got, up>>

\* The answer is the chunk's own bytes as they were delivered; only a cancelled
\* call may have none.
Reply(t) ==
    /\ up /\ t \in busy
    /\ busy' = busy \ {t}
    /\ \E d \in {want[t], Damaged, Null} :
          /\ d = Damaged => want[t] \in Corruptible
          /\ d = Null => t \in cancelled
          /\ got' = [got EXCEPT ![t] = d]
    /\ UNCHANGED <<want, cancelled, up>>

Break == up' = FALSE /\ UNCHANGED <<busy, want, got, cancelled>>

Restart ==
    /\ busy' = {} /\ cancelled' = {} /\ up' = TRUE
    /\ want' = [t \in Threads |-> Null]
    /\ got' = [t \in Threads |-> Null]

Next ==
    \/ \E t \in Threads : (\E c \in Chunks : Ask(t, c)) \/ Cancel(t) \/ Reply(t)
    \/ Break
    \/ Restart

Spec == Init /\ [][Next]_vars
=============================================================================
