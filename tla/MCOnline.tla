------------------------------ MODULE MCOnline -----------------------------
(***************************************************************************)
(* What EGL2 asks of others: the HTTP request, the manifests, the account, *)
(* the install of the official launcher. The four share no state, so what  *)
(* one does is the same whatever the others do, and the run takes them one *)
(* at a time: "part" is the one that a behaviour is about.                 *)
(***************************************************************************)
EXTENDS Request, Manifests, Account, Launcher

VARIABLE part

vars == <<part, reqVars, manVars, accVars, egsVars>>

MCZones == {-1, 0, 2}   \* west of Greenwich, Greenwich, east

\* The parts that the behaviour is not about keep one initial state.
Init ==
    /\ part \in {"request", "manifests", "account", "launcher"}
    /\ IF part = "manifests" THEN TRUE ELSE zone = 0 /\ file = "absent"
    /\ IF part = "account" THEN TRUE
       ELSE deviceAuth = "absent" /\ tokenBelieved = 0 /\ timeZone = 0
    /\ IF part = "launcher" THEN TRUE ELSE install = {}
    /\ ReqInit /\ ManInit /\ AccInit /\ EgsInit

OnlyRequest == part = "request" /\ UNCHANGED <<part, manVars, accVars, egsVars>>
OnlyManifests == part = "manifests" /\ UNCHANGED <<part, reqVars, accVars, egsVars>>
OnlyAccount == part = "account" /\ UNCHANGED <<part, reqVars, manVars, egsVars>>
OnlyLauncher == part = "launcher" /\ UNCHANGED <<part, reqVars, manVars, accVars>>

Next ==
    \/ ReqNext /\ OnlyRequest
    \/ ManNext /\ OnlyManifests
    \/ AccNext /\ OnlyAccount
    \/ EgsNext /\ OnlyLauncher

(***************************************************************************)
(* The caller of a request is scheduled and time passes; nothing is asked  *)
(* of the network. The threads of the other parts are scheduled; a request *)
(* that is repeated for ever is answered at last; the user confirms a code *)
(* or lets it run out, and is away for hours now and then. As a behaviour  *)
(* is about one part, the conditions of different parts can share a WF.    *)
(***************************************************************************)
Fairness ==
    /\ WF_vars(\/ Execute /\ OnlyRequest
               \/ AskingStep /\ OnlyManifests
               \/ AccStep /\ OnlyAccount)
    /\ WF_vars(\/ (\E n \in Attempts : TimePasses(n)) /\ OnlyRequest
               \/ Confirm /\ OnlyAccount)
    /\ \A t \in Mounters : WF_vars(GettingStep(t) /\ OnlyManifests)
    /\ SF_vars(\/ Ask /\ OnlyManifests
               \/ UseDeviceAuth /\ OnlyAccount)
    /\ SF_vars(GetClientToken /\ OnlyAccount) /\ SF_vars(GetDeviceCode /\ OnlyAccount)
    /\ SF_vars(UseRefreshToken /\ OnlyAccount)
    /\ SF_vars(Launch /\ OnlyAccount) /\ SF_vars(PassTime /\ OnlyAccount)

Spec == Init /\ [][Next]_vars /\ Fairness

-----------------------------------------------------------------------------
\* The type invariants of the four parts.
TypeOK == ReqTypeOK /\ ManTypeOK /\ AccTypeOK /\ EgsTypeOK

\* Manifests: GetManifest ends.
ManifestArrives == part = "manifests" => GetManifestEnds
\* Manifests: GetLatestManifest ends.
LatestAnswered == part = "manifests" => GetLatestManifestEnds
\* Account: Play starts the game in the end.
PlayLaunches == part = "account" => PlayStartsGame
\* Request: Execute returns.
RequestReturns == part = "request" => ExecuteReturns
=============================================================================
