----------------------------- MODULE Manifests -----------------------------
(***************************************************************************)
(* ManifestAuth: the checker thread asks which manifest is the latest,     *)
(* with a token that it renews; the threads that mount a build get a       *)
(* manifest, from the cache directory or from the server. Requests that    *)
(* fail are repeated by the code and are no step.                          *)
(***************************************************************************)
EXTENDS Integers

CONSTANTS Mounters,  \* threads that call GetManifest for one url
          Life,      \* for how long the server takes a token
          Zones      \* local time minus UTC, in the unit of Life

ASSUME ManAssumption == Life \in Nat /\ Zones \subseteq Int

VARIABLES asking,    \* where GetLatestManifest is
          valid,     \* time left until the server refuses AccessToken
          believed,  \* time left until ExpiresAt
          zone,
          file,      \* the cached manifest of the url
          getting,   \* where GetManifest of each thread is
          seen,      \* what that thread has read
          crashed    \* the process has ended by an exception or a null FILE*

manVars == <<asking, valid, believed, zone, file, getting, seen, crashed>>

FileStates == {"absent", "partial", "whole"}

ManTypeOK ==
    /\ asking \in {"idle", "check", "renew", "ask"}
    /\ valid \in 0 .. Life /\ zone \in Zones
    /\ believed \in Nat
    /\ file \in FileStates /\ seen \in [Mounters -> FileStates]
    /\ getting \in [Mounters -> {"idle", "status", "open", "reading", "parse", "remove",
                                 "download", "create", "writing", "got"}]
    /\ crashed \in BOOLEAN

AtLeastZero(x) == IF x < 0 THEN 0 ELSE x

\* expires_at is in UTC and mktime takes it for local time.
Mktime == AtLeastZero(Life - zone)

\* The constructor of ManifestAuth gets the first token. The cache is as an
\* earlier process left it.
ManInit ==
    /\ asking = "idle" /\ valid = Life /\ zone \in Zones /\ believed = Mktime
    /\ file \in FileStates
    /\ getting = [t \in Mounters |-> "idle"]
    /\ seen = [t \in Mounters |-> "absent"]
    /\ crashed = FALSE

-----------------------------------------------------------------------------
(***************************************************************************)
(* GetLatestManifest and UpdateIfExpired.                                  *)
(***************************************************************************)
CacheUnchanged == UNCHANGED <<zone, file, getting, seen, crashed>>

GetLatest ==
    /\ asking = "idle" /\ ~crashed /\ asking' = "check"
    /\ UNCHANGED <<valid, believed>> /\ CacheUnchanged

UpdateIfExpired ==
    /\ asking = "check" /\ ~crashed
    /\ asking' = IF believed > 0 THEN "ask" ELSE "renew"
    /\ UNCHANGED <<valid, believed>> /\ CacheUnchanged

Renew ==
    /\ asking = "renew" /\ ~crashed
    /\ valid' = Life /\ believed' = Mktime
    /\ asking' = "ask"
    /\ CacheUnchanged

Ask ==
    /\ asking = "ask" /\ ~crashed /\ valid > 0
    /\ asking' = "idle"
    /\ UNCHANGED <<valid, believed>> /\ CacheUnchanged

\* Another status than 200 and 401: from the start.
AskAgain ==
    /\ asking = "ask" /\ ~crashed /\ valid > 0
    /\ asking' = "check"
    /\ UNCHANGED <<valid, believed>> /\ CacheUnchanged

\* Mutant: a 401 does not force the renewal.
AfterUnauthorizedUnforced == "check"

\* 401: the token is renewed whatever ExpiresAt says.
AfterUnauthorized == "renew"

Unauthorized ==
    /\ asking = "ask" /\ ~crashed /\ valid = 0
    /\ asking' = AfterUnauthorized
    /\ UNCHANGED <<valid, believed>> /\ CacheUnchanged

Tick ==
    /\ ~crashed
    /\ valid' = AtLeastZero(valid - 1) /\ believed' = AtLeastZero(believed - 1)
    /\ UNCHANGED asking /\ CacheUnchanged

-----------------------------------------------------------------------------
(***************************************************************************)
(* GetManifest. The file is cached under its final name.                   *)
(***************************************************************************)
Go(t, from, to) ==
    /\ getting[t] = from /\ ~crashed
    /\ getting' = [getting EXCEPT ![t] = to]
    /\ UNCHANGED <<asking, valid, believed, zone>>

GetManifest(t) ==
    /\ Go(t, "idle", "status")
    /\ seen' = [seen EXCEPT ![t] = "absent"]
    /\ UNCHANGED <<file, crashed>>

IsManifestCached(t) ==
    /\ Go(t, "status", IF file # "absent" THEN "open" ELSE "download")
    /\ UNCHANGED <<file, seen, crashed>>

\* The FILE* is not looked at: a file removed since then ends the process.
Open(t) ==
    /\ Go(t, "open", "reading")
    /\ crashed' = (file = "absent")
    /\ UNCHANGED <<file, seen>>

ReadCached(t) ==
    /\ Go(t, "reading", "parse")
    /\ seen' = [seen EXCEPT ![t] = file]
    /\ UNCHANGED <<file, crashed>>

\* Mutant: a manifest that does not parse is used.
ParsesAny(content) == TRUE

Parses(content) == content = "whole"

Parse(t) ==
    /\ Go(t, "parse", IF Parses(seen[t]) THEN "got" ELSE "remove")
    /\ UNCHANGED <<file, seen, crashed>>

\* Mutant: the file is removed before the handle on it is closed.
HasOpenLonger(t) == getting[t] \in {"reading", "parse", "remove", "writing"}

HasOpen(t) == getting[t] \in {"reading", "writing"}

\* Mutant: the damaged file is left in place.
RemovedNot == file

Removed == "absent"

\* A file that somebody has open cannot be removed: fs::remove throws, and
\* nobody catches. To remove a file that is not there is no error.
Remove(t) ==
    /\ Go(t, "remove", "status")
    /\ LET busy == file # "absent" /\ \E u \in Mounters : HasOpen(u)
       IN  crashed' = busy /\ file' = IF busy THEN file ELSE Removed
    /\ UNCHANGED seen

Download(t) == Go(t, "download", "create") /\ UNCHANGED <<file, seen, crashed>>

\* fopen("wb") empties the file, whoever else is at it.
Create(t) ==
    /\ Go(t, "create", "writing")
    /\ file' = "partial"
    /\ UNCHANGED <<seen, crashed>>

\* While another thread writes too, the file has holes or not. What is parsed
\* is the response.
Write(t) ==
    /\ Go(t, "writing", "got")
    /\ file' \in IF \E u \in Mounters \ {t} : getting[u] = "writing"
                 THEN {"partial", "whole"} ELSE {"whole"}
    /\ seen' = [seen EXCEPT ![t] = "whole"]
    /\ UNCHANGED crashed

Mounted(t) == Go(t, "got", "idle") /\ UNCHANGED <<file, seen, crashed>>

\* The process is killed, or has crashed, and is started again.
Restart ==
    /\ asking' = "idle" /\ valid' = Life /\ believed' = Mktime
    /\ getting' = [t \in Mounters |-> "idle"]
    /\ seen' = [t \in Mounters |-> "absent"]
    /\ crashed' = FALSE
    /\ UNCHANGED <<zone, file>>

ManNext ==
    \/ GetLatest \/ UpdateIfExpired \/ Renew \/ Ask \/ AskAgain \/ Unauthorized \/ Tick
    \/ \E t \in Mounters :
        \/ GetManifest(t) \/ IsManifestCached(t) \/ Open(t) \/ ReadCached(t) \/ Parse(t)
        \/ Remove(t) \/ Download(t) \/ Create(t) \/ Write(t) \/ Mounted(t)
    \/ Restart

GettingStep(t) ==
    \/ IsManifestCached(t) \/ Open(t) \/ ReadCached(t) \/ Parse(t)
    \/ Remove(t) \/ Download(t) \/ Create(t) \/ Write(t)

AskingStep == UpdateIfExpired \/ Renew \/ AskAgain \/ Unauthorized

\* Without the conditions of fairness, which MCOnline adds.
ManSpec == ManInit /\ [][ManNext]_manVars

-----------------------------------------------------------------------------
(***************************************************************************)
(* Properties.                                                             *)
(***************************************************************************)

\* GetManifest answers with a whole manifest, whatever a kill or another
\* thread has left in the cache (auth.cpp:139-145).
ManifestWhole == \A t \in Mounters : getting[t] = "got" => seen[t] = "whole"

\* A thread that gets a manifest while no other does ends the process neither
\* by opening a file that is gone nor by removing one that is open.
AloneNeverCrashes ==
    crashed => \E t, u \in Mounters :
                  t # u /\ getting[t] # "idle" /\ getting[u] # "idle"

\* GetManifest ends, with what a killed process left in the cache too: the
\* damaged file is removed before the next attempt (auth.cpp:142). Another
\* thread may spoil the file again, but only by getting the manifest itself.
GetManifestEnds ==
    \A t \in Mounters :
        getting[t] = "status" ~>
            \/ getting[t] \in {"got", "idle"} \/ crashed
            \/ \E u \in Mounters \ {t} : getting[u] = "got"

\* GetLatestManifest ends, in every time zone: a token that ExpiresAt takes
\* for valid and the server does not is renewed (auth.cpp:54-57).
GetLatestManifestEnds == asking = "check" ~> (asking = "idle" \/ crashed)
=============================================================================
