---------------------------- MODULE MCMainWindow ---------------------------
(***************************************************************************)
(* The main window, and the verification that it starts and cancels. What  *)
(* the verification does to the window, and the window to it, is a choice  *)
(* in each of the two modules: a task that ends at any time, a Cancel that *)
(* comes at any time. The run takes them one at a time: "part" is the one  *)
(* that a behaviour is about.                                              *)
(***************************************************************************)
EXTENDS VerifyAll, GameUpdate

VARIABLE part

windowVars == <<part, vars, updVars>>

\* The part that the behaviour is not about keeps one initial state.
WindowInit ==
    /\ part \in {"verify", "update"}
    /\ IF part = "verify" THEN complete = 0 ELSE disk = [c \in Manifest |-> "absent"]
    /\ Init /\ UpdInit

OnlyVerify == part = "verify" /\ UNCHANGED <<part, updVars>>
OnlyUpdate == part = "update" /\ UNCHANGED <<part, vars>>

WindowNext ==
    \/ OnlyVerify /\ Next
    \/ OnlyUpdate /\ UpdNext

\* The conditions of the two modules. As a behaviour is about one part, those of
\* different parts can share a WF.
WindowFairness ==
    /\ WF_windowVars(\/ OnlyVerify /\ MainStep
                     \/ OnlyUpdate /\ Sane /\ CheckerStep)
    /\ WF_windowVars(\/ OnlyVerify /\ Count
                     \/ OnlyUpdate /\ Sane /\ StartupStep)
    /\ \A c \in Manifest : WF_windowVars(OnlyVerify /\ Work(c))
    /\ WF_windowVars(OnlyUpdate /\ Sane /\ QueryEnds)
    /\ WF_windowVars(OnlyUpdate /\ Sane /\ \E m \in Mounts : BeginGameUpdate(m))
    /\ \A m \in Mounts : WF_windowVars(OnlyUpdate /\ Sane /\ MountStep(m))
    /\ WF_windowVars(OnlyUpdate /\ Sane /\ \E k \in Tasks : ShowUpdate(k))
    /\ \A k \in Tasks :
         /\ SF_windowVars(OnlyUpdate /\ Sane /\ (WorkDone(k) \/ NeverReturns(k)))
         /\ WF_windowVars(OnlyUpdate /\ Sane /\ task[k].at # "running" /\ TaskStep(k))

WindowSpec == WindowInit /\ [][WindowNext]_windowVars /\ WindowFairness

-----------------------------------------------------------------------------
\* The type invariants of the two parts.
WindowTypeOK == TypeOK /\ UpdTypeOK

\* Main window: the newest release becomes playable.
NewestPlayable == part = "update" => LatestPlayable
\* Verification: VerifyAllChunks returns.
VerificationEnds == part = "verify" => VerifyEnds
=============================================================================
