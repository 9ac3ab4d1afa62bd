# EGL2 in TLA+

EGL2 is a Windows launcher that mounts a game build as a read-only drive. The
build exists only as *chunks*: 1 MB pieces that are downloaded from a CDN, kept
in a cache directory, and assembled on each read. These modules model the parts
of EGL2 in which threads, files and the network meet; TLC checks them on small
instances and TLAPS proves the main results for all instances.

    tlc -workers 2 -config ChunkPool_evict.cfg MCChunkPool.tla
    tlapm ChunkPool_proofs.tla

`PROJECT.json` lists the runs, the line each definition is translated from, the
mutants that every property rejects, the hazards and the findings.

## 1. The system

| Component | Code | State | Operations | What is hard | What makes it correct | Model |
|---|---|---|---|---|---|---|
| Chunk store | `storage/storage.cpp` | pool of entries (status, buffer, condition variable), cache directory | GetChunk, GetPoolData, DownloadChunk, ReadChunk, WriteChunk, DeleteChunk | readers share an entry without a lock; evictions; damaged, truncated, vanished files; damaged downloads; kills | whoever gets bytes gets them as the network delivered them, never another chunk's or damage from the disk; whoever waits is woken | `ChunkPool`, `ChunkStore` |
| Reading a mounted file | `filesystem/egfs.cpp`, `web/manifest/file.cpp`, `MountedBuild::FileRead` | none but the request | EGFS::Read, GetChunkIndex, FileRead, GetChunkPart | offsets of 64, 32 and signed 64 bits over parts of parts | exactly the file's bytes; no access outside a part or the buffer | `FileRead` |
| Update and purge | `MountedBuild::PreloadAllChunks`, `PurgeUnusedChunks` | iterator under a mutex, condition variable, cancel flag, cache directory | start, take, download, purge, count, cancel | workers, purge and counter over one directory; joins under a lock; cancel, kill | returns complete; takes nothing away; every missing chunk arrives to its end | `PreloadAll` |
| Verify | `MountedBuild::VerifyAllChunks` | deque of threads, cancel flag | verify, delete, download, cancel | bounded threads; delete, then download; the flag asked three times | returns with every file whole or as downloaded again; cuts none short when cancelled; leaves no thread; removes invalid data only | `VerifyAll` |
| Storage statistics | `QueryChunks`, `gui/cStorage.cpp` | iterator, totals | take, ask, report, close | iterator incremented before it is looked at, joins under a lock, the window freed meanwhile | no chunk counted twice; when the totals are final all but the first, which the code passes over, are in them | `StorageStats` |
| Directory tree | `egfs.cpp`, `dirtree.h` | tree | AddFile, GetFile, GetSecurityByName, ReadDirectory | markers, bounded buffer, files where folders are needed | a listing names each child once; a path of the build is found | `Directory` |
| Game directory | `SetupGameDirectory`, `PreloadFile` | copies and symlinks | compare, preload, copy, link | partial failure, kills, a running game, other builds | what is not logged as failed is in place | `SetupGameDir` |
| Main window | `gui/cMain.cpp` | windows, `GameUpdateAvailable`, `GameUpdateUrl`, `Build` | startup, Mount, OnGameUpdate, BeginGameUpdate, buttons | callbacks and detached threads on the same members | Play over missing chunks only while the startup counts them or after a cancelled verification; the newest release gets playable | `GameUpdate` |
| Game update checker | `gui/GameUpdateChecker.cpp` | latest id, wakeup time | poll, force, interval | an announcement during an update | an update is announced in the end | `GameUpdate` |
| Manifest service | `web/manifest/auth.cpp` | token, expiry, cached file | renew, get, cache | expiry, truncated cache, 401 | never an expired or half-written answer | `Manifests` |
| Personal account | `web/personal/PersonalAuth.cpp`, `DeviceCodeAuth.cpp` | token, device auth and its file | construct, refresh, recreate, exchange code | expiry, uninitialized expiry, a code nobody confirms | Play starts the game in the end | `Account` |
| HTTP client | `web/http/Client.cpp`, `libraries/curlion/connection.cpp` | connection, attempts | Execute, Start, body callbacks | a timeout against a late answer, attempts that share a connection | an accepted answer is whole while no transfer is late, and of the attempt asked while no result strays | `Request` |
| Launcher provider | `storage/EGSProvider.cpp` | lookup of parts | constructor, getChunk | overlapping, repeated, changed parts | the chunk's bytes or nothing | `Launcher` |
| Compression contexts | `storage/compression.h` | two deques | GetCtx, release | two deques matched by position | one owner per context | `CtxPool` |
| Settings | `gui/settings.cpp`, `gui/cSetup.cpp` | settings file, live settings, setup window, storage flags | read, write, validate, Ok, Cancel, close | versions, a window that edits the live values, kills | what is saved is what is used, unless the file could not be opened; old chunk files stay readable | `Settings` |
| Application start | `gui/cApp.cpp` | instance mutex, developer mode, Oodle library | checks, download, relaunches | processes that relaunch each other | one main window, never elevated | `AppStart` |

How they interact: a read of the drive comes in on a WinFsp dispatcher thread,
goes through EGFS::Read and MountedBuild::FileRead, and asks the chunk store for
one chunk after another. The chunk store falls back from memory to the cache
directory, to an official launcher's install, to the CDN. Update and Verify work
on the same cache directory from threads of their own, started by the main
window, cancelled by a flag of the progress window. The update checker calls
back into the main window, which mounts the new build and starts an update.

**Not modelled.** Window layout, localization, logging and statistics counters
(no decision reads them). The EGL2 update checker: a thread of the same shape as
the game update checker, whose result only opens a web page. Time in
`GameUpdateChecker`: `SetInterval` and `UpdateWakeup` decide when a check comes,
and in `GameUpdate` it may come at any moment. The binary and JSON parsers of
`web/manifest`: functions from bytes to tables without state, whose result the
other modules take as given. The compression codecs, curl, wxWidgets, WinFsp and
the rest of the vendored libraries, apart from `Connection`, which EGL2 changed.

## 2. The modules

Conventions: a step is what happens between two points where another thread can see
or change something. Undefined behaviour is a choice over its outcomes. Where the
program would end (an exception out of a thread, a destroyed object in use), the
model records it and stops or restarts. Chunk contents are reduced to "the chunk's
own bytes", "damaged" or neither. Requests that fail are repeated by the code until
one succeeds or the flag is set; a failed attempt changes nothing and is no step.
Definitions marked `Mutant` in a comment are wrong on purpose; no specification uses
them.

### ChunkPool, ChunkStore: the chunk store

`pool` is the FIFO deque, `entry` the fields of each `CHUNK_POOL_DATA`, `disk`
the cache directory. A file is `absent`, `partial` (cut short: opened and not
yet closed, or left by a kill), `bad` (readable header, wrong data), `mixed`
(being written by threads with different bytes) or `good`.
`Corruptible` are the chunks whose download may come damaged: DownloadChunk looks
at the magic number only, ignores the result of the decompression and compares no
hash, so whatever it makes of such an answer is served and written (`Delivered`,
`Written`). What a file holds is compared with its hash when it is read
(`HashMatches`), so damage on disk is found, and damage in a download is found
by the next read of its file, which downloads again. `ReadableAsDelivered` and
`ServedAsDelivered` say exactly that: for other chunks than those of `Corruptible` the
bytes are the chunk's own, whatever the disk holds.
`pc` says where each thread is in `GetChunk`; `ref` is the reference into the
pool that it keeps across file and network calls, unprotected, so each access
through it is a step of its own. `Call` is GetPoolData (search, evict, insert: one
step under `ChunkPoolMutex`); `Enter` the switch on `Status`; `Grab`, `Download`,
`OpenForWrite`, `CloseWrite`, `GiveUp` the download; `Load`, `OpenForRead`,
`ReadFile`, `Reject` the local copy; `Publish`, `SetReadable`, `NotifyAll` the
hand-over; `WaitMore`, `Sleep`, `WaitDone` the condition variable.

`fault` is the outcome of undefined behaviour or of an uncaught exception: a
`NULL` from `fopen` (`missingFile`), `fs::remove` of an open file
(`removeOpenFile`: the Microsoft CRT opens without FILE_SHARE_DELETE, so the
remove throws), an evicted entry in use (`destroyedEntry`), two unordered
accesses of the shared_ptr `Buffer` (`bufferRace`).

`ChunkStore` is what callers rely on: an asynchronous read of immutable content,
which for the chunks of `Corruptible` may come damaged without a sign, by a process
that may break and start again. `StoreSpec` says that `ChunkPool`
implements it under the mapping `busy <- {t : pc[t] # "idle"}, up <- (fault =
"none")`; the other variables keep their names.

### FileRead: reading a mounted file

`Read` is EGFS::Read with the clip to the file's end; `SkipPart` and `FoundPart`
are GetChunkIndex; `CopyWhole` and `CopyRest` are the loop of FileRead, each with
GetChunkPart and a memcpy. A byte is a pair of chunk and position; a file is a
sequence of parts, with the prefix sums of their sizes that `std::accumulate`
computes as a second field. The clip makes `return false` of GetChunkIndex and
the natural end of the copying loop unreachable, so they have no action:
`InBounds` is the statement that they need none. The chunk store answers here with
the chunk, which is what `ServedAsDelivered` says of it for a download that was not
damaged; where the bytes go is the same for any content.

### PreloadAll: Update

Workers run `Check` (the loop condition), `Take`/`TakeNone` (the lambda GetChunk
under `iterMtx`), `Notify`, `Download`, `OpenForWrite`, `CloseWrite`, `OnProg`.
The main thread runs `MainWait` (lock and condition variable) and `MainJoin`; it
holds `iterMtx` from the wait to its end, which is why `MutexFree` is
`main # "join"`. A file is `absent`, `partial` or `whole`. `PurgeVisit` is the
purge thread at one file: it uses up the file's GUID in `guids` (ManifestGuids)
and removes the file if the GUID was not there any more. `unseen` is what the
directory iterator has yet to come by; a file that a worker creates may or may not
be among it. `PurgeThrows` is `fs::remove` of a file that another program has
open, which ends the process. (`iterator.pop()` leaves directories that hold no
chunk files.) `CountMissing` is the counting thread. `cut` remembers the files that
were cut short when the update began: it takes them for downloaded, and nothing in
it looks at them again. `Cancel` sets the flag and frees it: `RUN_PROGRESS` deletes the
`cancel_flag` in `onEnd(true)` while the workers still refer to it, so every
later read may answer anything (`FlagReads`). `Kill` ends the process anywhere
and starts the next update over what the directory then holds; `Again` starts it
after a return. One call of the function runs at a time: a second one begun
while a cancelled one winds down is in `GameUpdate`.

### VerifyAll: Verify

The calling thread runs `NextChunk`, `JoinFront` (the "lightweight semaphore"),
`Start`, `EndOfList`, `JoinAll`; a chunk's thread runs `Verify`, `Rejected`,
`Delete`, `Redownload`, `OpenForWrite`, `CloseWrite`, `OnProg`, and asks the flag
between them where the code does. `leaked` holds files that ReadChunk left open
after a bad header, `held` those that a reader of the drive has open: removing one
of either throws (`DeleteThrows`) and ends the process; `Again` is the next
verification, in this or a new process. `found` remembers the files as the
verification found them, `Corruptible` is as in `ChunkPool`: a file that is
downloaded again is not looked at again. `Played` are the chunks that readers open.
Readers only open files here; what they download themselves is in `ChunkPool`.

### GameUpdate: main window and update checker

`startup`, `checker`, `mount` and `task` say where the startup thread, the
checker, the threads of `BeginGameUpdate` and those of `RUN_PROGRESS` are; `posted`
are the progress windows that `CallAfter` has queued. `available` and `url` are
`GameUpdateAvailable` and `GameUpdateUrl`, and the checker sets them in two steps
(`Announce`, `NameUrl`). `Mount` gets the manifest for a url it holds by reference
and replaces `Build`, whoever works on the old one. The work of a task is one
step here (`WorkDone`), since `PreloadAll` and `VerifyAll` have its detail: an
update leaves the build complete or was given up, or never returns.
`flaws` records what the code leaves to chance: a use of something that has been
freed, a freed flag read as clear, a verification cancelled between delete and
download, another build mounted before an update had ended, an announcement
cleared by the end of the update before. What follows a flaw is not explored,
apart from the verification cut short (`holed`), which is no mistake of the
program; the properties say what holds until then. `PlayEnabled` begins with
`playBtn->Enable()`, before the startup thread has counted the missing chunks.

### Request: one HTTP request

`caller` is Client::Execute around Connection::Start, `try` what each attempt
has of its own (thread, locals of `Start`, handle), `conn` the Connection that
all attempts share: its result, the response body with the attempt each piece
came from, the read position in the request body. `TimePasses` lets the thread
of an attempt become late at any point before its result is written; it is not
stopped and goes on to call `ReadBody`, `SeekBody`, `WriteBody`, `Publish` or
`TooLate`. `frame` is the memory of `Start`'s locals: `Publish` writes the result
there, and when its own `Start` has left, either hits something else or the result
of the next `Start`, whose frame is in the same place (`strayed`). `Notify` is a step
of its own. `overrun` remembers that a thread was late, `misused` that a handle or
the Connection was used when it was gone.

### Manifests: ManifestAuth

`GetLatest`, `UpdateIfExpired`, `Renew`, `Ask`, `Unauthorized` are GetLatestManifest
of the checker thread, with `valid` as the server counts and `believed` as
`mktime` makes of `expires_at` in each time zone. `GetManifest` to `Mounted` are
GetManifest of each thread that mounts, with every step on the cached file.
`Restart` is a kill, or the start after a crash.

### Account: PersonalAuth and DeviceCodeAuth

One thread: `at` is its place, `within` what called the constructor (the start,
Play, or the renewal of a token). `deviceAuth` is the file with the device auth,
`code` the device code as the server sees it. Of requests that fail, those that
the code repeats are no step, the others have an action each.

### Launcher: EGSProvider

`parts` is the vector of the parts of one chunk, sorted by offset; `Skip`,
`ReadPart`, `CannotOpen` and `Finish` are the loop of getChunk with the
comparison of the hash. `install` are the conditions of the constructor.

### StorageStats, SetupGameDir, Directory

`StorageStats` is QueryChunks with the shape of `PreloadAll` and its own order:
the iterator is incremented first, the flag is a member of the window, which is
freed when it closes (`FreeWindow`). The first chunk is passed over by that
increment; a second worker at the end makes it pass the end (`broken`), after
which nothing is followed. `SetupGameDir` is SetupGameDirectory: `Spawn`
and `JoinFront` are the deque, `CreateFolders` to `Link` the steps of a file's
thread, each with its failure; `Kill`, `LaunchGame`, `NewBuild` are what
happens to the directory meanwhile and between two calls. `Directory` is AddFile
in any order, the mount, the lookups, and ReadDirectory, called again with
the last name until it has given the end mark.

### CtxPool, Settings, AppStart

`CtxPool` is GetCtx one `try_lock` at a time; `holder` is the deque of mutexes,
`ctxs` the length of that of contexts. `Settings` follows a value from the file
through its version's table (`ReadMethod`), the live copy, the setup window,
`Mount` and the storage flags to the header of a chunk file and back (`ReadChunk`).
Ok truncates the file and writes it (`OkClicked`, `WriteSettings`) or cannot open
it, which is logged and nothing else: the window goes away and the values live on
unsaved (`unsaved`), as those of a first setup that is left without Ok do.
`AppStart` is InitThread in several processes, with `Relaunch` as administrator
and back.

### MCOnline, MCLocal, MCMainWindow

Each of these runs several modules that share no state: what one needs of another
is a choice within it. An interleaving of independent modules shows nothing that
they do not show alone, so a behaviour is about one of them, the `part` that its
initial state names, and the others keep one initial state. The conditions of
fairness of different parts can then share one WF. The modules that have theorems
are extended rather than instantiated, so that the runs check the very
definitions that are proved, under the assumptions of the proofs.

## 3. The runs

| Run | Instance | States | Shows |
|---|---|---|---|
| `pool_evict` | 2 threads, 2 chunks, room for 1, every kind of file, damaged downloads of one chunk, cancels, kills | 291 927 | type, one entry per chunk, Readable entries and answers as delivered, `ChunkPool` implements `ChunkStore` |
| `pool_roomy` | 3 threads, 1 chunk, room for it | 111 388 | from whole files the only fault is the race on `Buffer`; the thread that works for others always finishes |
| `pool_wakeup` | 2 threads, 1 chunk | violation | a notification between predicate and sleep is lost |
| `pool_missing` | 2 threads, 2 chunks, damaged files | violation | Available, "Readable from local copy", over a file that is gone |
| `preload` | 2 workers, 2 chunks, 1 old file, cancel, 1 kill | 310 311 | nothing handed out twice, a return is complete, the purge takes nothing of the manifest, every missing chunk arrives to its end |
| `preload_returns` | 2 workers, 2 chunks, no cancel | violation | the joins with `iterMtx` held may block for ever |
| `preload_killed` | 2 workers, 2 chunks, 1 kill | violation | after a kill a truncated file counts as downloaded at the start of the next update |
| `main_window` | verification: 3 chunks in any state, 2 threads, of which one may come damaged, cancel, a reader; main window: 2 releases, 2 progress windows, 2 clicks besides Update | 400 690 | a verification bounds and joins its threads, ends, and leaves files whole or as downloaded again; Play over missing chunks only during the startup's count or after a cancelled verification; the newest release gets playable |
| `verify_cancelled` | 1 whole file, cancel | violation | the freed flag lets a verification remove a whole file |
| `online` | a request of 2 attempts; 2 threads that mount; tokens in 3 time zones; every chunk of 3 pieces in up to 3 parts | 79 913 | an accepted answer is of its attempt until a result strays, and whole until a transfer is late; Execute, GetLatestManifest and GetManifest end; only whole manifests are used; Play starts the game in the end; the parts of a chunk are joined |
| `local` | every file of up to 3 parts of 5 kinds and buffers of up to 4 bytes; 3 threads with contexts; 2 names in 2 levels; 2 workers over 3 chunks; 3 files of the game; 2 folders (symmetric); 3 processes | 418 554 | reads are exact; contexts have one owner; listings, totals of all chunks but the first, game directory, settings, chunk files and single instance are what they should be |
| `settings_method` | 2 folders, a file of any version | violation | the compression method changes with a restart |

Why the bounds are enough. *ChunkPool*: two threads and room for one chunk already
give an eviction under a reader, two workers on one entry, and a rejected file under
another reader; a third thread adds a waiter behind two workers, which is
`pool_roomy`. `Entries` needs `Capacity + |Threads|` identities, since a thread
keeps at most one destroyed entry alive as a reference. *FileRead*: three parts give
a first, a middle and a last; the five kinds are a whole chunk, the beginning and
the end of one, overlapping pieces and an empty part; a buffer of four bytes spans
three parts. *PreloadAll*: two workers are the fewest of whom one meets the end
while the other is on its way; with two chunks one may be there, cut short or being
written while the purge and the other worker come by. *VerifyAll*: with two places
the counting thread and the first chunk fill the deque, and the second and third
have to wait for the front.

*GameUpdate*: two releases are one to have and one to be announced, at every
moment of the first's update; two progress windows are an update and a
verification, or an update that was cancelled and its successor; with one thread
of BeginGameUpdate at a time two builds are mounted by it and the startup thread.
`MaxClicks`, `Mounts` and `Tasks` are bounds of the model, not of the code.
*Request*: two attempts already share the connection, and the first one's thread
can be late at every point of the second; five differ only in number. *Manifests*:
the second thread is what can find the file in use. *Launcher*: three parts of
three positions contain every pair of parts that overlap, repeat or leave a gap.
*StorageStats*: the second worker is the one that passes the end. *SetupGameDir*:
two places in the deque with the counting thread in one. *Directory*: two levels
give a folder with siblings, a file where a folder is needed, and markers at the
first, middle and last place. *AppStart*: a process, its elevated successor and
that one's successor.

The safety results do not rest on these bounds: they are proved for all. What
rests on them is liveness.

Deadlock checking is off where the system really stops: after a fault or among
sleepers that nobody wakes (`ChunkPool_roomy`), and in the joins of `PreloadAll`.

**Fairness.** Weak fairness of each thread's steps: the Windows scheduler runs
every runnable thread, and the code repeats requests that fail until one succeeds,
so a download is assumed to be answered in the end. Nothing is assumed of
the user, of spurious wakeups, of evictions, of readers of the drive or of kills.
There are four exceptions, each with a property that would be void otherwise.
`NewestPlayable` is about a user who clicks Update when it is shown, and takes a
task that goes on reporting progress to get to its end (SF: the manifest is
finite). `PlayLaunches` is about one who clicks Play again and again, who confirms
a device code or lets it run out, and comes back after hours now and then; a
request that is repeated for ever is answered at last (SF). `LatestAnswered` takes
a server that answers other than 200 and 401 only so many times (SF of `Ask`).
`RequestReturns` assumes that time passes, and nothing of the network.

## 4. What is proved

| Module | Theorems |
|---|---|
| `ChunkPool_proofs` | `TypeCorrect`, `PoolHasOneEntryPerChunk`, `ReadableEntriesDelivered`, `CallsServedDelivered`, `WholeFilesOnlyRace`, `Refinement` |
| `FileRead_proofs` | `TypeCorrect`, `ReadsInBounds`, `ReadsExact` |
| `PreloadAll_proofs` | `TypeCorrect`, `HandsOutOnce`, `ReturnsComplete`, `LocksOutAtEnd`, `KeepsManifestFiles` |
| `VerifyAll_proofs` | `TypeCorrect`, `BoundsThreads`, `JoinsThreads`, `VerifiesAll` |
| `GameUpdate_proofs` | `UpdTypeCorrect`, `PlayIsComplete`; with the verification: `WindowTypeCorrect` |
| `Threads_proofs` | `CtxPool`: `CtxTypeCorrect`, `ContextsExclusive`; `StorageStats`: `TotalsExact`; `SetupGameDir`: `GameDirSetUp` |
| `Online_proofs` | `Request`: `ReqOwnAnswer`, `ReqCleanAnswer`; `Manifests`: `OnlyWholeManifests`, `OneThreadIsSafe`; `Launcher`: `PartsMakeTheChunk`; the four: `OnlineTypeOK` |
| `Local_proofs` | `Directory`: `ListsAndFinds`; `Settings`: `LiveIsSaved`, `AllChunksReadable`; `AppStart`: `OneWindow`; the seven: `LocalTypeCorrect` |

Every safety property that a run checks, invariant or action property, is the
conclusion of one of them.

All hold for every value of the constants under the modules' ASSUMEs: finite sets
of workers, of names and of files of the game, lists of any length (with at least
one chunk for the statistics), a capacity and a thread count of at least one,
files whose parts lie within their chunks, two attempts of a request or more,
bodies, chunks and pieces of any size, tokens of any life in any time zone.
`WholeFilesOnlyRace` alone has hypotheses of its own, those under which its
property is meant: room for every chunk, and no kill.

*ChunkPool.* `ReadableAsDelivered` is not inductive: a thread that has yet to
publish decides what the buffer will hold, and it may be the second to do so.
The invariant `IInv` adds that a thread past the read or download has its chunk's
bytes in `data`, as they were delivered (`LocalsDelivered`), that an entry it refers
to and that is still pooled is the one of its chunk (`RefMatches`), that the buffer
of an entry is empty or such bytes even while the status goes back and forth under two
workers (`BuffersDelivered`), and what finished calls returned. Nothing is
assumed of the disk: what a file holds reaches a caller past its hash only. All is
assumed of the network that the code lets it do: with `Corruptible` every
chunk the theorems still say that no caller gets another chunk's bytes.
`OneEntryPerChunk` has an argument of its own over the sequence `pool`. The
refinement maps each step to `Ask`, `Cancel`, `Reply`, `Break`, `Restart` or a
stutter; only `Reply` needs the invariant.

`WholeFilesOnlyRace` has a second invariant (`RoomyInv`). While there is room for
every chunk nothing is evicted (`NothingEvicted`): a full pool has as many
entries as there are chunks and one per chunk, so that the chunk asked for is
among them. Every reference therefore stays live, and each chunk is on one
of two ways for good: its file was there at the start and is only read
(`ReadOnly`), or it was not and is only written (`WriteOnly`). Nobody removes a
file that another has open or opens one that is gone; what is left is the race.

*FileRead.* `IInv` says that `start[index] + chunkOffset` is the file position of
the next byte to be copied (`Position`), that the request lies within the file
(`Clip`), and that the bytes before `bytesRead` are the file's (`Delivered`). The
code's sums never appear in it: the position inside a part and the prefix sum
before it determine the byte, and both loops keep them in step.

*PreloadAll.* What a worker holds lies behind the iterator (`ItemsBehind`), which
makes a chunk taken next different from all of them; every chunk behind the
iterator is on disk or about to be written by a worker (`BehindIsTaken`); threads
leave, and the main thread goes to its joins, only at the end of the list
(`LeavesAtEnd`, `JoinsAtEnd`, `AtEnd`). A return therefore finds nothing behind
the iterator unwritten and nothing before it. `StaleUnseen` does the same for the
files of an old manifest. A file that is not whole was so at the start or is being
written (`CutOrWritten`). The purge keeps the manifest's files because it has used up
no GUID of a file that is still to be listed, or to be made (`GuidsLeft`), and because a
worker writes only what is not there (`NotYetThere`).

*VerifyAll.* A running thread is in the deque (`Tracked`), so joining the deque
joins everyone; chunks ahead of the loop are as they were found (`Untouched`),
chunks behind it are as `Left` allows, or in the hands of their thread (`Handled`): a
thread that is past the rejection found a damaged file, or somebody cancelled.

*CtxPool* (`CtxInv`). That no two threads share a context follows from the mutexes:
a thread at work holds the mutex at the position of its context (`Holders`), and the
two deques are equally long (`Locked`). That there are never more contexts than
threads needs the walk: the thread inside GetCtx found every mutex before its place
held by another thread, or released since; when it comes to the end, each context
belonged to a thread other than itself (`Walk`, `Bound`).

*StorageStats* (`QueryInv`). A chunk is in the hands of one worker from GetChunk to
Report, since the iterator only goes forward (`Held`); behind the iterator
everything is reported or in somebody's hands as long as the window is open
(`Behind`); the joins begin at the end (`JoinsAtEnd`). The invariant ends with the
first use of something that is gone, which the model does not follow.

*SetupGameDir* (`GameDirInv`). A file is still to come, in the deque, or done
(`Tracked`), and what is done is in place or logged (`DoneInPlace`); `OwnSteps`
keeps the steps of copying to binaries. That a list of the files names each of them
is a counting argument over an injective sequence (`OrderHasAll`).

*GameUpdate* (`UpdInv`). `available` is cleared by the end of an update only,
together with `url`, so that a known url means an announcement
(`UrlMeansAvailable`); an update that is done with its flag intact has left the
build complete (`DoneMeansComplete`), and whatever could undo that before it clears
the announcement, another mount, is a flaw. A verification cut short is one that the
property names, and the startup's count, over which Play is enabled already, is the
other exception.

*Request* (`ReqInv`). That an accepted answer is the attempt's own holds as long as
no thread has written its result where a `Start` had been (`strayed`): a result
other than `LAST` was then written by the thread of the attempt that waits
(`Posted`), and it is what Execute judges (`Judged`). Without that condition the
property fails, by a thread that looked at its clock in time and wrote late. What
was sent and received depends on time altogether: only while no thread is late
(`Timely`) have all earlier ones written their results, so that the body read so far
and the body received are one attempt's (`Exchanged`). The proof corrected the
model: a transfer with an empty answer could end there before the request had been
read.

*Manifests* (`ManInv`). Between IsManifestCached and the `fopen` a file vanishes only
by another thread, which is then on its way to write it again (`Opened`); that
is why a thread alone never meets a `NULL`. A partial file does not parse, so
it is never mounted.

*Launcher* (`EgsInv`). `amtRead` is always the end of a part that was read (`Ends`).
If the pieces partition the chunk, no part behind the loop covers the byte at
`amtRead` (`Past`): one that was read ends before it, and one that was skipped
cannot begin before an end of its neighbour and reach beyond it. At the end of the
loop no part at all covers that byte, so it lies behind the chunk.

*Directory* (`DirInv`). The tree is the files that have been added and the folders
above them as long as none of them needs a file as a folder (`TreeExact`);
nothing is served before it is complete (`Filled`). What the kernel has got is the
beginning of `.`, `..` and the map in its order (`ListedSoFar`): a call
finds from the last name where the listing goes on (`RemainingIs`), because no
name is there twice.

*Settings* (`SetInv`). The setup window is up only in some states of the program
(`WindowOf`). What it restores is what was saved, as is what it leaves when Ok has
written the file, and when it could not, the values count as unsaved (`Kept`). A
chunk file says in its header how it was written, so `ChunksReadable` is inductive
by itself.

*AppStart* (`AppInv`). A process past the check that no elevated one let through
holds the mutex's name (`Inside`), and there is one of them: the second would have
found the name taken. Developer mode is asked for on every way to the window.

*The runs that combine parts.* `OnlineInv`, `LocalInv` and `WindowInv` join the
invariants of the parts; a step of one leaves the variables of the others alone.

Model-checked only: the liveness properties (`WorkerFinishes`,
`EveryChunkArrives`, `VerificationEnds`, `NewestPlayable`, `RequestReturns`,
`ManifestArrives`, `LatestAnswered`, `PlayLaunches`), which the prover does not
reach. What `Account` promises is one of these; the prover has its types
only (`AccInvariant`). That `start` of a file is the sum of the sizes before a
part is an assumption that TLC evaluates for the instance, since the sum is a
definition by recursion.

## 5. Findings

1. `storage.cpp:70`: status and notification without `CV_Mutex`; a reader of the
   drive can sleep for ever (`pool_wakeup`).
2. `storage.cpp:282`: a file promised by `Available` may be gone; `fread` on
   `NULL` (`pool_missing`).
3. `MountedBuild.cpp:347`: Update joins its workers with `iterMtx` locked and may
   never end (`preload_returns`). No chunk is lost by it: `LockedOutAtEnd`,
   `EveryChunkArrives`.
4. `storage.cpp:29`: a file truncated by a kill counts as downloaded
   (`preload_killed`).
5. `gui/cMain.cpp:324`: Cancel frees the flag that the threads still read; a
   verification may then remove a whole file (`verify_cancelled`).
6. `gui/settings.h:4`: the file is written with the raw value of an enum under a
   version that is read by another table; every restart moves the compression
   method on (`settings_method`).

Seen while modelling, stated by the models and by no run of their own. A download
is never verified: one damaged answer is served to the game, and Verify, which
downloads the damaged file again, does not look at what it got (`Delivered` in
`ChunkPool` and `VerifyAll`). For a moment at each start the button says Play over
missing chunks (`cMain.cpp:239-244`, in `PlayMeansComplete`). The storage window's
totals lack the first chunk (`MountedBuild.cpp:460`, in `QueryExact`). A result that
is written late may be taken for that of the next attempt, and `notify_all` may find
the condition variable gone with nobody late (`connection.cpp:63-64`: `Publish`,
`Notify`). A purge that meets an unused file which somebody has open ends the process
(`PurgeThrows`). Settings that could not be saved stay in force until the next start
(`OkClicked`).

Three things that `Account` shows, too: a device code that
has run out is polled for ever, an `ExpiresAt` that was never set may lie in the
far future, and a token that is refused is not renewed when an exchange code is
asked for. `PlayLaunches` names the first two as its exceptions.

## 6. Plan

1. An abstract specification of `GameUpdate`, a mounted version that only grows and
   a button that says whether it is complete, to be implemented until a flaw.
2. The same of `Request`: one exchange that succeeds or fails, implemented by
   attempts that share a connection until one of them is late.
3. Time in `GameUpdateChecker`: `SetInterval` against the sleeping thread, for the
   claim that a shorter interval takes effect at once.
4. The EGL2 update checker, when its result decides more than a notification.
