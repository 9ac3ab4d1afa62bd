---------------------------- MODULE GameUpdate -----------------------------
(***************************************************************************)
(* The main window and the checker thread: a release is noticed, announced *)
(* and, when the user clicks Update, mounted and preloaded. The startup    *)
(* thread, the checker, the threads that BeginGameUpdate starts, those of  *)
(* RUN_PROGRESS and the UI thread share Build, GameUpdateAvailable,        *)
(* GameUpdateUrl and the window pointers, and lock none of them.           *)
(***************************************************************************)
EXTENDS Naturals, FiniteSets

CONSTANTS MaxReleases,  \* releases are numbered
          Mounts,       \* bound: threads of BeginGameUpdate at one time
          Tasks,        \* bound: progress windows and their threads at one time
          MaxClicks     \* bound: clicks on Cancel, Verify and Storage

VARIABLES released,   \* the newest release on the server
          latest,     \* LatestId, LatestUrl and LatestVersion of the checker
          checker,    \* where its thread is
          available,  \* GameUpdateAvailable, and the label of the Play button
          url,        \* GameUpdateUrl, None for nullopt
          startup,    \* where the startup thread is
          build,      \* the release of Build
          complete,   \* the release whose chunks are all on disk
          mount,      \* the threads of BeginGameUpdate
          posted,     \* progress windows that are posted to the UI thread
          task,       \* the threads of RUN_PROGRESS and their cancel flags
          wnd,        \* UpdateWnd and VerifyWnd
          querying,   \* the thread of a storage window is inside QueryChunks
          flaws,      \* what has gone wrong so far
          clicks

updVars == <<released, latest, checker, available, url, startup, build, complete,
             mount, posted, task, wnd, querying, flaws, clicks>>

None == 0

ASSUME UpdAssumption ==
    MaxReleases \in Nat \ {0} /\ MaxClicks \in Nat /\ None \notin Tasks

Releases == 1 .. MaxReleases
Kinds == {"update", "verify"}

\* "misused": something that is gone was used. "revived": a freed cancel flag was
\* read as not cancelled. "holed": a verification was cancelled after the last update
\* that went to its end, which nothing announces. "replaced":
\* another update mounted before this one had ended. "lost": an announcement was
\* cleared by the end of an update.
\* "stuck": PreloadAllChunks did not return (PreloadAll has how).
Flaws == {"misused", "revived", "holed", "replaced", "lost", "stuck"}

NoTask == [at |-> "idle", kind |-> "update", flag |-> "clear"]

UpdTypeOK ==
    /\ released \in Releases /\ latest \in Releases \cup {None}
    /\ checker \in {"none", "asleep", "announcing", "naming"}
    /\ available \in BOOLEAN /\ url \in Releases \cup {None}
    /\ startup \in {"checker", "mount", "setup", "count", "announce", "end"}
    /\ build \in Releases \cup {None} /\ complete \in Releases \cup {None}
    /\ mount \in [Mounts -> [at : {"idle", "started", "waiting", "setup"},
                             for : Releases \cup {None}]]
    /\ posted \in Nat
    /\ task \in [Tasks -> [at : {"idle", "running", "counting", "ended", "closing",
                                 "clearing"},
                           kind : Kinds, flag : {"clear", "freed"}]]
    /\ wnd \in [Kinds -> Tasks \cup {None}]
    /\ querying \in BOOLEAN
    /\ flaws \subseteq Flaws /\ clicks \in 0 .. MaxClicks

UpdInit ==
    /\ released = 1 /\ latest = None /\ checker = "none"
    /\ available = FALSE /\ url = None
    /\ startup = "checker" /\ build = None
    /\ complete \in {None, 1}
    /\ mount = [m \in Mounts |-> [at |-> "idle", for |-> None]]
    /\ posted = 0
    /\ task = [k \in Tasks |-> NoTask]
    /\ wnd = [k \in Kinds |-> None]
    /\ querying = FALSE
    /\ flaws = {} /\ clicks = 0

Working == {"running", "counting"}

\* The threads that are inside a member function of Build.
BuildInUse ==
    \/ startup \in {"setup", "count"}
    \/ \E m \in Mounts : mount[m].at = "setup"
    \/ \E k \in Tasks : task[k].at \in Working
    \/ querying

\* What has gone wrong in this step.
Flaw(name, holds) == IF holds THEN {name} ELSE {}

\* An update is done, and its label and url are not yet.
UpdateEnding ==
    \E k \in Tasks : task[k].at \in {"ended", "closing", "clearing"} /\ task[k].kind = "update"

CheckerState == <<released, latest, checker>>
Announced == <<available, url>>
BuildState == <<build, complete>>
Windows == <<task, wnd, querying>>
Jobs == <<mount, posted, Windows>>
ButTask == <<CheckerState, Announced, startup, BuildState, mount, posted, wnd, querying>>
History == <<flaws, clicks>>

Click == clicks < MaxClicks /\ clicks' = clicks + 1

-----------------------------------------------------------------------------
(***************************************************************************)
(* The checker thread.                                                     *)
(***************************************************************************)
Release ==
    /\ released < MaxReleases /\ released' = released + 1
    /\ UNCHANGED <<latest, checker, Announced, startup, BuildState, Jobs, History>>

\* Mutant: the id of the release is recorded by another check than the one that
\* announces it.
ForceUpdateSilent ==
    latest' = released /\ checker' = IF latest = None THEN "announcing" ELSE "asleep"

ForceUpdate ==
    latest' = released /\ checker' = IF latest = released THEN "asleep" ELSE "announcing"

\* When UpdateWakeup has passed; SetInterval sets it to the past.
Check ==
    /\ checker = "asleep" /\ ForceUpdate
    /\ UNCHANGED <<released, Announced, startup, BuildState, Jobs, History>>

\* OnGameUpdate with a url, in two steps.
Announce ==
    /\ checker = "announcing" /\ checker' = "naming"
    /\ available' = TRUE
    /\ UNCHANGED <<released, latest, url, startup, BuildState, Jobs, History>>

NameUrl ==
    /\ checker = "naming" /\ checker' = "asleep"
    /\ url' = latest
    /\ UNCHANGED <<released, latest, available, startup, BuildState, Jobs, History>>

-----------------------------------------------------------------------------
(***************************************************************************)
(* Mount, on whichever thread. GetManifest takes its time, then the new    *)
(* MountedBuild replaces the old one; SetupGameDirectory works on it.      *)
(***************************************************************************)
Reset(r) ==
    /\ build' = r
    /\ flaws' = flaws \cup Flaw("misused", BuildInUse) \cup Flaw("replaced", UpdateEnding)

(***************************************************************************)
(* The startup thread.                                                     *)
(***************************************************************************)
CreateChecker ==
    /\ startup = "checker" /\ startup' = "mount"
    /\ latest' = released /\ checker' = "asleep"
    /\ UNCHANGED <<released, Announced, BuildState, Jobs, History>>

\* The url is a reference to LatestUrl.
StartupMount ==
    /\ startup = "mount" /\ startup' = "setup"
    /\ Reset(latest)
    /\ UNCHANGED <<CheckerState, Announced, complete, Jobs, clicks>>

\* Then the buttons are enabled.
StartupSetUp ==
    /\ startup = "setup" /\ startup' = "count"
    /\ UNCHANGED <<CheckerState, Announced, BuildState, Jobs, History>>

\* Mutant: the startup does not look for missing chunks.
MissingNotCounted == FALSE

Missing == complete # build

CountMissing ==
    /\ startup = "count" /\ startup' = IF Missing THEN "announce" ELSE "end"
    /\ UNCHANGED <<CheckerState, Announced, BuildState, Jobs, History>>

AnnounceMissing ==
    /\ startup = "announce" /\ startup' = "end"
    /\ available' = TRUE
    /\ UNCHANGED <<CheckerState, url, BuildState, Jobs, History>>

-----------------------------------------------------------------------------
(***************************************************************************)
(* BeginGameUpdate, by the Play button or a notification.                  *)
(***************************************************************************)
\* The storage window is closed; its thread ends when it notices.
BeginGameUpdate(m) ==
    /\ wnd["update"] = None /\ available
    /\ mount[m].at = "idle" /\ \A n \in Mounts : n < m => mount[n].at # "idle"
    /\ posted + Cardinality({n \in Mounts : mount[n].at # "idle"}) <= Cardinality(Mounts)
    /\ mount' = [mount EXCEPT ![m].at = "started"]
    /\ UNCHANGED <<CheckerState, Announced, startup, BuildState, posted, Windows, History>>

\* Without a url there is nothing to mount, only chunks to download.
StartMount(m) ==
    /\ mount[m].at = "started"
    /\ IF url = None
       THEN mount' = [mount EXCEPT ![m].at = "idle"] /\ posted' = posted + 1
       ELSE mount' = [mount EXCEPT ![m] = [at |-> "waiting", for |-> url]] /\ UNCHANGED posted
    /\ UNCHANGED <<CheckerState, Announced, startup, BuildState, Windows, History>>

\* The url is a reference into GameUpdateUrl: what it says is read before or
\* after it has been assigned anew, and is gone when it has been reset.
Mount(m) ==
    /\ mount[m].at = "waiting" /\ url # None
    /\ \E r \in {mount[m].for, url} : Reset(r)
    /\ mount' = [mount EXCEPT ![m] = [at |-> "setup", for |-> None]]
    /\ UNCHANGED <<CheckerState, Announced, startup, complete, posted, Windows, clicks>>

MountDangling(m) ==
    /\ mount[m].at = "waiting" /\ url = None
    /\ flaws' = flaws \cup {"misused"}
    /\ mount' = [mount EXCEPT ![m] = [at |-> "idle", for |-> None]]
    /\ UNCHANGED <<CheckerState, Announced, startup, BuildState, posted, Windows, clicks>>

SetUpGameDirectory(m) ==
    /\ mount[m].at = "setup"
    /\ mount' = [mount EXCEPT ![m].at = "idle"] /\ posted' = posted + 1
    /\ UNCHANGED <<CheckerState, Announced, startup, BuildState, Windows, History>>

-----------------------------------------------------------------------------
(***************************************************************************)
(* RUN_PROGRESS.                                                           *)
(***************************************************************************)
\* Which task is taken makes no difference: the first idle one.
RunProgress(k, kind) ==
    /\ task[k].at = "idle" /\ \A j \in Tasks : j < k => task[j].at # "idle"
    /\ task' = [task EXCEPT ![k] = [at |-> "running", kind |-> kind, flag |-> "clear"]]
    /\ wnd' = [wnd EXCEPT ![kind] = k]

\* A notification can be clicked before there is a Build. The purge begins to
\* remove what is not of this build.
ShowUpdate(k) ==
    /\ posted > 0 /\ posted' = posted - 1
    /\ RunProgress(k, "update")
    /\ flaws' = flaws \cup Flaw("misused", build = None)
    /\ complete' \in IF complete = build THEN {complete} ELSE {complete, None}
    /\ UNCHANGED <<CheckerState, Announced, startup, build, mount, querying, clicks>>

\* The button is enabled when the startup thread has mounted.
OnVerifyClicked(k) ==
    /\ startup \in {"count", "announce", "end"} /\ wnd["verify"] = None /\ Click
    /\ RunProgress(k, "verify")
    /\ UNCHANGED <<CheckerState, Announced, startup, BuildState, mount, posted, querying, flaws>>

\* wndPtr && !cancelled->cancelled(), of a flag that is perhaps freed. No flag is
\* seen cancelled and not freed: the UI thread does both in one handler.
Passes(k) ==
    /\ wnd[task[k].kind] # None
    /\ flaws' = flaws \cup Flaw("revived", task[k].flag = "freed")

Fails(k) ==
    /\ wnd[task[k].kind] = None \/ task[k].flag = "freed"
    /\ UNCHANGED flaws

\* onProg and setMax: the check, then the use of wndPtr.
Progress(k) ==
    /\ task[k].at = "running" /\ Passes(k)
    /\ task' = [task EXCEPT ![k].at = "counting"]
    /\ UNCHANGED <<ButTask, clicks>>

Increment(k) ==
    /\ task[k].at = "counting"
    /\ flaws' = flaws \cup Flaw("misused", wnd[task[k].kind] = None)
    /\ task' = [task EXCEPT ![k].at = "running"]
    /\ UNCHANGED <<ButTask, clicks>>

\* PreloadAllChunks, to its end or given up; VerifyAllChunks, which takes
\* nothing away for good unless it is cancelled.
WorkDone(k) ==
    /\ task[k].at = "running"
    /\ task' = [task EXCEPT ![k].at = "ended"]
    /\ \/ task[k].kind = "update" /\ complete' = build /\ flaws' = flaws \ {"holed"}
       \/ task[k].flag = "freed" /\ UNCHANGED <<complete, flaws>>
       \/ task[k].kind = "verify" /\ task[k].flag = "clear" /\ UNCHANGED <<complete, flaws>>
       \/ /\ task[k].kind = "verify" /\ task[k].flag = "freed"
          /\ complete' = None /\ flaws' = flaws \cup {"holed"}
    /\ UNCHANGED <<CheckerState, Announced, startup, build, mount, posted, wnd, querying, clicks>>

NeverReturns(k) ==
    /\ task[k].at = "running" /\ task[k].kind = "update"
    /\ flaws' = flaws \cup {"stuck"}
    /\ UNCHANGED <<CheckerState, Announced, startup, BuildState, Jobs, clicks>>

OnFinish(k) ==
    /\ task[k].at = "ended"
    /\ \/ Passes(k) /\ task' = [task EXCEPT ![k].at = "closing"]
       \/ Fails(k) /\ task' = [task EXCEPT ![k] = NoTask]
    /\ UNCHANGED <<ButTask, clicks>>

\* onEnd(false), on the thread of the task: the window, then the rest.
CloseWindow(k) ==
    /\ task[k].at = "closing"
    /\ flaws' = flaws \cup Flaw("misused", wnd[task[k].kind] = None)
    /\ wnd' = [wnd EXCEPT ![task[k].kind] = None]
    /\ task' = [task EXCEPT ![k].at = "clearing"]
    /\ UNCHANGED <<CheckerState, Announced, startup, BuildState, mount, posted, querying, clicks>>

ClearUpdate == available' = FALSE /\ url' = None

EndTask(k) ==
    /\ task[k].at = "clearing"
    /\ LET freedTwice == Flaw("misused", task[k].flag = "freed")
       IN IF task[k].kind = "update"
          THEN /\ ClearUpdate
               /\ flaws' = flaws \cup freedTwice
                     \cup Flaw("lost", url \notin {None, build} \/ checker = "naming")
          ELSE UNCHANGED Announced /\ flaws' = flaws \cup freedTwice
    /\ task' = [task EXCEPT ![k] = NoTask]
    /\ UNCHANGED <<CheckerState, startup, BuildState, mount, posted, wnd, querying, clicks>>

\* Mutant: runAfter does not ask whether it was cancelled.
AfterCancelCleared == ClearUpdate

AfterCancel == UNCHANGED Announced

\* cProgress::Cancel and onEnd(true), on the UI thread. The window knows the
\* flag of its own task.
CancelProgress(kind) ==
    LET k == wnd[kind] IN
    /\ k # None /\ Click
    /\ wnd' = [wnd EXCEPT ![kind] = None]
    /\ task' = [task EXCEPT ![k].flag = "freed"]
    /\ IF kind = "update" THEN AfterCancel ELSE UNCHANGED Announced
    /\ UNCHANGED <<CheckerState, startup, BuildState, mount, posted, querying, flaws>>

-----------------------------------------------------------------------------
\* A window that is open already comes to the front only.
OnStorageClicked ==
    /\ startup \in {"count", "announce", "end"}
    /\ ~querying /\ wnd["update"] = None /\ Click
    /\ querying' = TRUE
    /\ UNCHANGED <<CheckerState, Announced, startup, BuildState, mount, posted, task, wnd, flaws>>

\* All chunks are reported, or the window has been closed.
QueryEnds ==
    /\ querying /\ querying' = FALSE
    /\ UNCHANGED <<CheckerState, Announced, startup, BuildState, mount, posted, task, wnd, History>>

-----------------------------------------------------------------------------
CheckerStep == Check \/ Announce \/ NameUrl
StartupStep ==
    CreateChecker \/ StartupMount \/ StartupSetUp \/ CountMissing \/ AnnounceMissing
MountStep(m) == StartMount(m) \/ Mount(m) \/ MountDangling(m) \/ SetUpGameDirectory(m)
TaskStep(k) ==
    Increment(k) \/ WorkDone(k) \/ NeverReturns(k) \/ OnFinish(k) \/ CloseWindow(k) \/ EndTask(k)

\* A verification that was cancelled is no mistake of the program.
Sane == flaws \subseteq {"holed"}

\* What goes on after another flaw is not followed.
UpdNext ==
    /\ Sane
    /\ \/ Release \/ CheckerStep \/ StartupStep
       \/ \E m \in Mounts : BeginGameUpdate(m) \/ MountStep(m)
       \/ \E k \in Tasks : ShowUpdate(k) \/ OnVerifyClicked(k) \/ Progress(k) \/ TaskStep(k)
       \/ \E kind \in Kinds : CancelProgress(kind)
       \/ OnStorageClicked \/ QueryEnds

\* Every thread is scheduled, a task has only so many chunks to report, the events
\* that are posted are handled, and a user who sees "Update" clicks it in the end.
UpdFairness ==
    /\ WF_updVars(Sane /\ CheckerStep)
    /\ WF_updVars(Sane /\ StartupStep)
    /\ WF_updVars(Sane /\ QueryEnds)
    /\ WF_updVars(Sane /\ \E m \in Mounts : BeginGameUpdate(m))
    /\ \A m \in Mounts : WF_updVars(Sane /\ MountStep(m))
    /\ WF_updVars(Sane /\ \E k \in Tasks : ShowUpdate(k))
    /\ \A k \in Tasks : /\ SF_updVars(Sane /\ (WorkDone(k) \/ NeverReturns(k)))
                        /\ WF_updVars(Sane /\ task[k].at # "running" /\ TaskStep(k))

UpdSpec == UpdInit /\ [][UpdNext]_updVars /\ UpdFairness

-----------------------------------------------------------------------------
(***************************************************************************)
(* Properties.                                                             *)
(***************************************************************************)

\* The Play button says "Play" from playBtn->Enable() (cMain.cpp:239) unless an update
\* is announced. It says so over missing chunks in two cases only, however the user
\* clicks, cancels and clicks again, until something freed is used or another build
\* is mounted under an update: while the startup thread counts what is missing
\* (cMain.cpp:240-244), and after a verification was cancelled, which nothing
\* announces, until the next update has gone to its end (cMain.cpp:486-493).
PlayEnabled == startup \in {"count", "announce", "end"} /\ ~available

PlayMeansComplete ==
    PlayEnabled /\ complete # build /\ Sane =>
        startup \in {"count", "announce"} \/ "holed" \in flaws

\* A user who clicks what is offered gets the newest release mounted, complete
\* and playable in the end, unless one of the flaws comes up and stays: something freed
\* is used or read as a flag, a verification is cancelled with no update after it,
\* another update is mounted before this one has ended, an announcement is cleared by
\* the end of the update before (cMain.cpp:488-492), or PreloadAllChunks does not return.
LatestPlayable ==
    \/ <>[](build = released /\ complete = build /\ ~available)
    \/ <>[](flaws # {})
=============================================================================
