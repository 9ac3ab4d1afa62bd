-------------------------- MODULE GameUpdate_proofs --------------------------
(***************************************************************************)
(* PlayMeansComplete for any number of releases, windows, threads and      *)
(* clicks. An announcement is taken back by the end of an update only,     *)
(* which goes together with the url and, as long as nothing freed is       *)
(* relied on, comes from an update whose flag is still its own: that one   *)
(* has left the build complete. Another build mounted since is one of the  *)
(* flaws that end the story; a verification cut short is on record.        *)
(***************************************************************************)
EXTENDS MCMainWindow, VerifyAll_proofs, TLAPS

\* Updates that have done their work and were not cancelled.
Done(k) ==
    task[k].kind = "update" /\ task[k].flag = "clear"
        /\ task[k].at \in {"ended", "closing", "clearing"}

\* Nothing is missing but what a cancelled verification removed.
Accounted == complete = build \/ "holed" \in flaws

DoneMeansComplete == \A k \in Tasks : Done(k) => Accounted

\* A url is known, or about to be, only of what is announced.
UrlMeansAvailable == url # None \/ checker = "naming" => available

UpdInv ==
    /\ UpdTypeOK
    /\ Sane => DoneMeansComplete /\ UrlMeansAvailable /\ PlayMeansComplete

USE UpdAssumption

-----------------------------------------------------------------------------
\* What the parts of the invariant read.
watched == <<available, url, checker, startup, build, complete, task, flaws>>

LEMMA Unwatched ==
    ASSUME UpdInv, Sane, UpdTypeOK', UNCHANGED watched
    PROVE  UpdInv'
BY DEF watched, UpdInv, DoneMeansComplete, Accounted, Done, UrlMeansAvailable,
   PlayMeansComplete, PlayEnabled, Sane

LEMMA UpdInitInv ==
    ASSUME UpdInit
    PROVE  UpdInv
<1>1. UpdTypeOK
  <2>1. 1 \in Releases /\ 0 \in 0 .. MaxClicks /\ 0 \in Nat BY DEF Releases
  <2>2. task \in [Tasks -> [at : {"idle", "running", "counting", "ended", "closing",
                                 "clearing"},
                           kind : Kinds, flag : {"clear", "freed"}]]
    BY DEF UpdInit, NoTask, Kinds
  <2>3. mount \in [Mounts -> [at : {"idle", "started", "waiting", "setup"},
                             for : Releases \cup {None}]]
    BY DEF UpdInit
  <2>4. wnd \in [Kinds -> Tasks \cup {None}] BY DEF UpdInit
  <2> QED BY <2>1, <2>2, <2>3, <2>4 DEF UpdInit, UpdTypeOK
<1>2. DoneMeansComplete BY DEF UpdInit, DoneMeansComplete, Accounted, Done, NoTask
<1>3. UrlMeansAvailable /\ PlayMeansComplete
  BY DEF UpdInit, UrlMeansAvailable, PlayMeansComplete, PlayEnabled, Accounted
<1> QED BY <1>1, <1>2, <1>3 DEF UpdInv

-----------------------------------------------------------------------------
(***************************************************************************)
(* The checker and the startup thread.                                     *)
(***************************************************************************)
LEMMA CheckerKeeps ==
    ASSUME UpdInv, Sane, Release \/ CheckerStep
    PROVE  UpdInv'
<1> USE DEF CheckerState, BuildState, Jobs, Windows, Announced, History
<1>1. UpdTypeOK'
  <2>1. CASE Release
    <3>1. released' \in Releases BY <2>1 DEF Release, UpdInv, UpdTypeOK, Releases
    <3> QED BY <2>1, <3>1 DEF Release, UpdInv, UpdTypeOK
  <2>2. CASE Check
    <3>1. latest' \in Releases /\ checker' \in {"asleep", "announcing"}
      BY <2>2 DEF Check, ForceUpdate, UpdInv, UpdTypeOK
    <3> QED BY <2>2, <3>1 DEF Check, UpdInv, UpdTypeOK
  <2>3. CASE Announce BY <2>3 DEF Announce, UpdInv, UpdTypeOK
  <2>4. CASE NameUrl BY <2>4 DEF NameUrl, UpdInv, UpdTypeOK
  <2> QED BY <2>1, <2>2, <2>3, <2>4 DEF CheckerStep
<1>2. UNCHANGED <<startup, build, complete, task>>
  BY DEF Release, CheckerStep, Check, ForceUpdate, Announce, NameUrl
<1>3. available => available'
  BY DEF Release, CheckerStep, Check, ForceUpdate, Announce, NameUrl
<1>4. UrlMeansAvailable'
  BY DEF Release, CheckerStep, Check, ForceUpdate, Announce, NameUrl, UpdInv,
         UrlMeansAvailable
<1>5. UNCHANGED flaws BY DEF Release, CheckerStep, Check, ForceUpdate, Announce, NameUrl
<1>6. DoneMeansComplete' BY <1>2, <1>5 DEF UpdInv, DoneMeansComplete, Accounted, Done
<1>7. PlayMeansComplete' BY <1>2, <1>3, <1>5 DEF UpdInv, PlayMeansComplete, PlayEnabled,
                            Accounted, Sane
<1> QED BY <1>1, <1>4, <1>6, <1>7 DEF UpdInv

\* Another build is mounted: a flaw if an update is done, of which it would
\* not be true any more.
LEMMA ResetKeepsDone ==
    ASSUME NEW r, Reset(r), UpdInv, Sane, UNCHANGED <<task, complete>>, Sane'
    PROVE  DoneMeansComplete'
<1>1. ~UpdateEnding BY DEF Reset, Flaw, Sane
<1>2. \A k \in Tasks : ~Done(k) BY <1>1 DEF UpdateEnding, Done
<1> QED BY <1>2 DEF DoneMeansComplete, Accounted, Done

LEMMA StartupKeeps ==
    ASSUME UpdInv, Sane, StartupStep
    PROVE  UpdInv'
<1> USE DEF CheckerState, BuildState, Jobs, Windows, Announced, History
<1>1. UpdTypeOK'
  BY DEF StartupStep, CreateChecker, StartupMount, StartupSetUp, CountMissing,
         AnnounceMissing, Reset, Flaw, UpdInv, UpdTypeOK, Releases, None, Flaws
<1> SUFFICES ASSUME Sane'
             PROVE  DoneMeansComplete' /\ UrlMeansAvailable' /\ PlayMeansComplete'
  BY <1>1 DEF UpdInv
<1>2. CASE CreateChecker
  BY <1>2 DEF CreateChecker, UpdInv, DoneMeansComplete, Accounted, Done, UrlMeansAvailable,
              PlayMeansComplete, PlayEnabled
<1>3. CASE StartupMount
  <2>1. DoneMeansComplete' BY <1>3, ResetKeepsDone DEF StartupMount
  <2>2. UrlMeansAvailable' BY <1>3 DEF StartupMount, UpdInv, UrlMeansAvailable
  <2>3. PlayMeansComplete' BY <1>3 DEF StartupMount, PlayMeansComplete, PlayEnabled,
                              Accounted
  <2> QED BY <2>1, <2>2, <2>3
<1>4. CASE StartupSetUp
  BY <1>4 DEF StartupSetUp, UpdInv, DoneMeansComplete, Accounted, Done, UrlMeansAvailable,
              PlayMeansComplete, PlayEnabled
<1>5. CASE CountMissing
  BY <1>5 DEF CountMissing, Missing, UpdInv, DoneMeansComplete, Accounted, Done,
     UrlMeansAvailable,
              PlayMeansComplete, PlayEnabled
<1>6. CASE AnnounceMissing
  BY <1>6 DEF AnnounceMissing, UpdInv, DoneMeansComplete, Accounted, Done,
     UrlMeansAvailable,
              PlayMeansComplete, PlayEnabled
<1> QED BY <1>2, <1>3, <1>4, <1>5, <1>6 DEF StartupStep

-----------------------------------------------------------------------------
(***************************************************************************)
(* The threads of BeginGameUpdate, the storage window and CancelProgress.          *)
(***************************************************************************)
LEMMA MountKeeps ==
    ASSUME UpdInv, Sane, NEW m \in Mounts, BeginGameUpdate(m) \/ MountStep(m)
    PROVE  UpdInv'
<1> USE DEF CheckerState, BuildState, Windows, Announced, History
<1>1. CASE BeginGameUpdate(m)
  <2>1. UpdTypeOK' BY <1>1 DEF BeginGameUpdate, UpdInv, UpdTypeOK
  <2> QED BY <1>1, <2>1, Unwatched DEF BeginGameUpdate, watched
<1>2. CASE StartMount(m)
  <2>1. UpdTypeOK' BY <1>2 DEF StartMount, UpdInv, UpdTypeOK
  <2> QED BY <1>2, <2>1, Unwatched DEF StartMount, watched
<1>3. CASE Mount(m)
  <2>1. PICK r \in {mount[m].for, url} : Reset(r) BY <1>3 DEF Mount
  <2>2. r \in Releases \cup {None} BY <2>1 DEF UpdInv, UpdTypeOK
  <2>3. UpdTypeOK' BY <1>3, <2>1, <2>2 DEF Mount, Reset, Flaw, UpdInv, UpdTypeOK, Flaws
  <2> SUFFICES ASSUME Sane'
               PROVE  DoneMeansComplete' /\ UrlMeansAvailable' /\ PlayMeansComplete'
    BY <2>3 DEF UpdInv
  <2>4. available' BY <1>3 DEF Mount, UpdInv, UrlMeansAvailable
  <2>5. DoneMeansComplete' BY <1>3, <2>1, ResetKeepsDone DEF Mount
  <2> QED BY <2>4, <2>5 DEF UrlMeansAvailable, PlayMeansComplete, PlayEnabled, Accounted
<1>4. CASE MountDangling(m)
  <2>1. UpdTypeOK' BY <1>4 DEF MountDangling, UpdInv, UpdTypeOK, Flaws
  <2>2. ~Sane' BY <1>4 DEF MountDangling, Sane
  <2> QED BY <2>1, <2>2 DEF UpdInv
<1>5. CASE SetUpGameDirectory(m)
  <2>1. UpdTypeOK' BY <1>5 DEF SetUpGameDirectory, UpdInv, UpdTypeOK
  <2> QED BY <1>5, <2>1, Unwatched DEF SetUpGameDirectory, watched
<1> QED BY <1>1, <1>2, <1>3, <1>4, <1>5 DEF MountStep

LEMMA ClickType ==
    ASSUME Click, clicks \in 0 .. MaxClicks
    PROVE  clicks' \in 0 .. MaxClicks
BY DEF Click

LEMMA StorageKeeps ==
    ASSUME UpdInv, Sane, OnStorageClicked \/ QueryEnds
    PROVE  UpdInv'
<1> USE DEF CheckerState, BuildState, Announced, History
<1>1. UpdTypeOK'
  <2>1. CASE OnStorageClicked
    <3>1. clicks' \in 0 .. MaxClicks
      BY <2>1, ClickType DEF OnStorageClicked, UpdInv, UpdTypeOK
    <3> QED BY <2>1, <3>1 DEF OnStorageClicked, UpdInv, UpdTypeOK
  <2>2. CASE QueryEnds BY <2>2 DEF QueryEnds, UpdInv, UpdTypeOK
  <2> QED BY <2>1, <2>2
<1> QED BY <1>1, Unwatched DEF OnStorageClicked, QueryEnds, watched

\* A cancelled update is not one that is done.
LEMMA CancelKeeps ==
    ASSUME UpdInv, Sane, NEW kind \in Kinds, CancelProgress(kind)
    PROVE  UpdInv'
<1> USE DEF CheckerState, BuildState, Announced
<1> DEFINE k == wnd[kind]
<1>1. k \in Tasks BY DEF CancelProgress, UpdInv, UpdTypeOK
<1>2. /\ task' = [task EXCEPT ![k].flag = "freed"] /\ wnd' = [wnd EXCEPT ![kind] = None]
      /\ UNCHANGED <<available, url, checker, startup, build, complete, flaws>>
  BY DEF CancelProgress, AfterCancel
<1>3. UpdTypeOK'
  BY <1>1, <1>2 DEF CancelProgress, Click, UpdInv, UpdTypeOK
<1> HIDE DEF k
<1>4. \A j \in Tasks : Done(j)' => Done(j) BY <1>1, <1>2 DEF Done, UpdInv, UpdTypeOK
<1>5. DoneMeansComplete' BY <1>2, <1>4 DEF UpdInv, DoneMeansComplete, Accounted
<1>6. UrlMeansAvailable' /\ PlayMeansComplete'
  BY <1>2 DEF UpdInv, UrlMeansAvailable, PlayMeansComplete, PlayEnabled, Accounted, Sane
<1> QED BY <1>3, <1>5, <1>6 DEF UpdInv

-----------------------------------------------------------------------------
(***************************************************************************)
(* RUN_PROGRESS and its threads.                                           *)
(***************************************************************************)
LEMMA RunProgressType ==
    ASSUME UpdTypeOK, NEW k \in Tasks, NEW kind \in Kinds, RunProgress(k, kind)
    PROVE  /\ task' \in [Tasks -> [at : {"idle", "running", "counting", "ended", "closing",
                                         "clearing"},
                                   kind : Kinds, flag : {"clear", "freed"}]]
           /\ wnd' \in [Kinds -> Tasks \cup {None}]
           /\ \A j \in Tasks : Done(j)' => Done(j)
BY DEF RunProgress, UpdTypeOK, Done

\* A new task is not done; what an update takes away was not complete before.
LEMMA ShowKeeps ==
    ASSUME UpdInv, Sane, NEW k \in Tasks, ShowUpdate(k) \/ OnVerifyClicked(k)
    PROVE  UpdInv'
<1> USE DEF CheckerState, BuildState, Announced
<1>1. PICK kind \in Kinds : RunProgress(k, kind)
  BY DEF ShowUpdate, OnVerifyClicked, Kinds
<1>2. UpdTypeOK'
  <2>1. task' \in [Tasks -> [at : {"idle", "running", "counting", "ended", "closing",
                                  "clearing"},
                            kind : Kinds, flag : {"clear", "freed"}]]
        /\ wnd' \in [Kinds -> Tasks \cup {None}]
    BY <1>1, RunProgressType DEF UpdInv
  <2>2. CASE ShowUpdate(k)
    <3>1. posted' \in Nat BY <2>2 DEF ShowUpdate, UpdInv, UpdTypeOK
    <3>2. complete' \in Releases \cup {None} BY <2>2 DEF ShowUpdate, UpdInv, UpdTypeOK
    <3>3. flaws' \subseteq Flaws BY <2>2 DEF ShowUpdate, Flaw, Flaws, UpdInv, UpdTypeOK
    <3> QED BY <2>1, <2>2, <3>1, <3>2, <3>3 DEF ShowUpdate, UpdInv, UpdTypeOK
  <2>3. CASE OnVerifyClicked(k)
    <3>1. clicks' \in 0 .. MaxClicks
      BY <2>3, ClickType DEF OnVerifyClicked, UpdInv, UpdTypeOK
    <3> QED BY <2>1, <2>3, <3>1 DEF OnVerifyClicked, UpdInv, UpdTypeOK
  <2> QED BY <2>2, <2>3
<1>3. /\ UNCHANGED <<available, url, checker, startup, build>>
      /\ "holed" \in flaws => "holed" \in flaws'
  BY DEF ShowUpdate, OnVerifyClicked
<1>4. complete = build => complete' = build'
  BY <1>3 DEF ShowUpdate, OnVerifyClicked
<1>5. DoneMeansComplete'
  BY <1>1, <1>3, <1>4, RunProgressType DEF UpdInv, DoneMeansComplete, Accounted
<1>6. UrlMeansAvailable' /\ PlayMeansComplete'
  BY <1>3, <1>4 DEF UpdInv, UrlMeansAvailable, PlayMeansComplete, PlayEnabled, Accounted,
     Sane
<1> QED BY <1>2, <1>5, <1>6 DEF UpdInv

\* A step of task k that leaves the window's members alone.
LEMMA TaskMoves ==
    ASSUME UpdInv, Sane, UpdTypeOK', NEW k \in Tasks,
           UNCHANGED <<available, url, checker, startup, build>>,
           Sane' /\ Accounted => Accounted',
           Sane' /\ Done(k)' => Accounted' \/ Done(k),
           \A j \in Tasks \ {k} : task'[j] = task[j]
    PROVE  UpdInv'
<1> SUFFICES ASSUME Sane'
             PROVE  DoneMeansComplete' /\ UrlMeansAvailable' /\ PlayMeansComplete'
  BY DEF UpdInv
<1>1. \A j \in Tasks \ {k} : Done(j)' => Done(j) BY DEF Done
<1>2. DoneMeansComplete' BY <1>1 DEF UpdInv, DoneMeansComplete, Accounted
<1>3. UrlMeansAvailable' /\ PlayMeansComplete'
  BY DEF UpdInv, UrlMeansAvailable, PlayMeansComplete, PlayEnabled, Accounted
<1> QED BY <1>2, <1>3

LEMMA TaskKeeps ==
    ASSUME UpdInv, Sane, NEW k \in Tasks, Progress(k) \/ TaskStep(k)
    PROVE  UpdInv'
<1> USE DEF CheckerState, BuildState, Announced, ButTask, Jobs, Windows
<1>1. task \in [Tasks -> [at : {"idle", "running", "counting", "ended", "closing",
                                "clearing"},
                          kind : Kinds, flag : {"clear", "freed"}]]
  BY DEF UpdInv, UpdTypeOK
<1>2. CASE Progress(k) \/ Increment(k)
  <2>1. UpdTypeOK'
    BY <1>2 DEF Progress, Increment, Passes, Flaw, UpdInv, UpdTypeOK, Flaws
  <2>2. task'[k].at \in {"counting", "running"} BY <1>1, <1>2 DEF Progress, Increment
  <2>3. \A j \in Tasks \ {k} : task'[j] = task[j] BY <1>1, <1>2 DEF Progress, Increment
  <2> QED BY <1>2, <2>1, <2>2, <2>3, TaskMoves
       DEF Progress, Increment, Passes, Accounted, Done
<1>3. CASE WorkDone(k)
  <2>1. UpdTypeOK'
    BY <1>3 DEF WorkDone, UpdInv, UpdTypeOK, Flaws, None
  <2>2. UNCHANGED <<available, url, checker, startup, build>> BY <1>3 DEF WorkDone
  <2>3. \A j \in Tasks \ {k} : task'[j] = task[j] BY <1>1, <1>3 DEF WorkDone
  <2>4. task'[k].kind = task[k].kind /\ task'[k].flag = task[k].flag
    BY <1>1, <1>3 DEF WorkDone
  <2>5. Sane' /\ Accounted => Accounted'
    BY <1>3 DEF WorkDone, Sane, Accounted
  <2>6. Done(k)' => Accounted' BY <1>3, <2>4 DEF WorkDone, Accounted, Done
  <2> QED BY <2>1, <2>2, <2>3, <2>5, <2>6, TaskMoves
<1>4. CASE NeverReturns(k)
  <2>1. UpdTypeOK' BY <1>4 DEF NeverReturns, UpdInv, UpdTypeOK, Flaws
  <2>2. ~Sane' BY <1>4 DEF NeverReturns, Sane
  <2> QED BY <2>1, <2>2 DEF UpdInv
<1>5. CASE OnFinish(k)
  <2>1. UpdTypeOK'
    BY <1>5 DEF OnFinish, Passes, Fails, Flaw, NoTask, Kinds, UpdInv, UpdTypeOK, Flaws
  <2>2. \A j \in Tasks \ {k} : task'[j] = task[j] BY <1>1, <1>5 DEF OnFinish
  <2>3. Done(k)' => Done(k) BY <1>1, <1>5 DEF OnFinish, NoTask, Done
  <2> QED BY <1>5, <2>1, <2>2, <2>3, TaskMoves DEF OnFinish, Passes, Fails, Accounted
<1>6. CASE CloseWindow(k)
  <2>1. UpdTypeOK' BY <1>6 DEF CloseWindow, Flaw, UpdInv, UpdTypeOK, Flaws
  <2>2. \A j \in Tasks \ {k} : task'[j] = task[j] BY <1>1, <1>6 DEF CloseWindow
  <2>3. Done(k)' => Done(k) BY <1>1, <1>6 DEF CloseWindow, Done
  <2> QED BY <1>6, <2>1, <2>2, <2>3, TaskMoves DEF CloseWindow, Accounted
<1>7. CASE EndTask(k)
  <2>1. /\ task' = [task EXCEPT ![k] = NoTask] /\ task[k].at = "clearing"
        /\ UNCHANGED <<checker, startup, build, complete>>
        /\ "holed" \in flaws => "holed" \in flaws'
    BY <1>7 DEF EndTask
  <2>2. UpdTypeOK'
    BY <1>7 DEF EndTask, ClearUpdate, Flaw, NoTask, Kinds, UpdInv, UpdTypeOK, Flaws, None
  <2>3. \A j \in Tasks : Done(j)' => Done(j) BY <1>1, <2>1 DEF Done, NoTask
  <2> SUFFICES ASSUME Sane'
               PROVE  DoneMeansComplete' /\ UrlMeansAvailable' /\ PlayMeansComplete'
    BY <2>2 DEF UpdInv
  <2>4. DoneMeansComplete' BY <2>1, <2>3 DEF UpdInv, DoneMeansComplete, Accounted
  <2>5. CASE task[k].kind = "update"
    <3>1. task[k].flag # "freed" /\ checker # "naming"
      BY <1>7, <2>5 DEF EndTask, Flaw, Sane
    <3>2. Done(k) BY <1>1, <2>1, <2>5, <3>1 DEF Done
    <3>3. Accounted BY <3>2 DEF UpdInv, DoneMeansComplete, Accounted
    <3>4. url' = None BY <1>7, <2>5 DEF EndTask, ClearUpdate
    <3> QED BY <2>1, <2>4, <3>1, <3>3, <3>4 DEF UrlMeansAvailable, PlayMeansComplete,
               PlayEnabled, Accounted
  <2>6. CASE task[k].kind # "update"
    BY <1>7, <2>1, <2>4, <2>6
       DEF EndTask, UpdInv, UrlMeansAvailable, PlayMeansComplete, PlayEnabled, Accounted
  <2> QED BY <2>5, <2>6
<1> QED BY <1>2, <1>3, <1>4, <1>5, <1>6, <1>7 DEF TaskStep

-----------------------------------------------------------------------------
LEMMA UpdNextKeeps ==
    ASSUME UpdInv, [UpdNext]_updVars
    PROVE  UpdInv'
<1>1. CASE UpdNext
  BY <1>1, CheckerKeeps, StartupKeeps, MountKeeps, ShowKeeps, TaskKeeps, CancelKeeps,
     StorageKeeps DEF UpdNext
<1>2. CASE UNCHANGED updVars
  <2>1. UpdTypeOK' /\ Sane' = Sane BY <1>2 DEF updVars, UpdInv, UpdTypeOK, Sane
  <2> QED BY <1>2, <2>1 DEF updVars, UpdInv, DoneMeansComplete, Accounted, Done,
             UrlMeansAvailable,
                            PlayMeansComplete, PlayEnabled
<1> QED BY <1>1, <1>2

\* The inductive invariant of the main window.
THEOREM UpdInvariant == UpdSpec => []UpdInv
<1>1. UpdInit => UpdInv BY UpdInitInv
<1>2. UpdInv /\ [UpdNext]_updVars => UpdInv' BY UpdNextKeeps
<1> QED BY <1>1, <1>2, PTL DEF UpdSpec

\* Every variable of the window, its threads and its tasks keeps its type.
THEOREM UpdTypeCorrect == UpdSpec => []UpdTypeOK
<1>1. UpdInv => UpdTypeOK BY DEF UpdInv
<1> QED BY <1>1, UpdInvariant, PTL

\* From playBtn->Enable() on (cMain.cpp:239) "Play" is shown over missing chunks only
\* while the startup thread counts them and after a cancelled verification, whatever the
\* user clicks and whenever releases come, until another of the flaws comes up.
THEOREM PlayIsComplete == UpdSpec => []PlayMeansComplete
<1>1. UpdInv => PlayMeansComplete BY DEF UpdInv, PlayMeansComplete, PlayEnabled, Accounted
<1> QED BY <1>1, UpdInvariant, PTL

HIDE UpdAssumption

-----------------------------------------------------------------------------
(***************************************************************************)
(* The window and the verification together: in a behaviour one of them    *)
(* moves.                                                                  *)
(***************************************************************************)
WindowInv == IInv /\ UpdInv

LEMMA WindowNextKeeps == WindowInv /\ [WindowNext]_windowVars => WindowInv'
<1> SUFFICES ASSUME WindowInv, [WindowNext]_windowVars PROVE WindowInv'
  OBVIOUS
<1>1. [Next]_vars /\ [UpdNext]_updVars
  BY DEF WindowNext, windowVars, OnlyVerify, OnlyUpdate
<1> QED BY <1>1, NextIInv, UpdNextKeeps DEF WindowInv

\* The inductive invariants of the two hold together.
THEOREM WindowInvariant == WindowSpec => []WindowInv
<1>1. WindowInit => WindowInv BY InitIInv, UpdInitInv DEF WindowInit, WindowInv
<1> QED BY <1>1, WindowNextKeeps, PTL DEF WindowSpec

\* Every variable of the window and of the verification keeps its type, whatever the
\* constants are.
THEOREM WindowTypeCorrect == WindowSpec => []WindowTypeOK
<1>1. WindowInv => WindowTypeOK BY DEF WindowInv, IInv, UpdInv, WindowTypeOK
<1> QED BY <1>1, WindowInvariant, PTL
=============================================================================
