------------------------------ MODULE Settings -----------------------------
(***************************************************************************)
(* The settings: the file that keeps them, the live copy that cMain hands  *)
(* to everything, the setup window that edits that copy in place, and the  *)
(* storage flags that decide how a chunk file is compressed. Of the fields *)
(* of SETTINGS: CacheDir and CompressionMethod.                            *)
(***************************************************************************)
EXTENDS Naturals, Sequences

CONSTANT Dirs   \* paths, which may or may not be directories

VARIABLES config,     \* the settings file
          settings,   \* the live copy
          old,        \* OldSettings of the setup window
          window,     \* the setup window
          wndPtr,     \* SetupWnd
          app,        \* whether EGL2 runs
          dirs,       \* the directories there are
          storage,    \* the flags of Build's Storage
          chunk,      \* a chunk file: its header, whether its size follows, its data
          unsaved     \* runs with values that no setup has saved

setVars == <<config, settings, old, window, wndPtr, app, dirs, storage, chunk, unsaved>>

\* SettingsCompressionMethod, in the order of the enum.
Methods == <<"decompressed", "zstandard", "lz4", "selkie">>
MethodSet == {Methods[i] : i \in 1 .. 4}
MethodOf(byte) == Methods[byte + 1]

None == "none"

ASSUME SetAssumption == None \notin Dirs

\* SettingsVersion: 0 Initial, 1 SimplifyPathsAndCmdLine, 2 Version13, 3 Oodle.
\* FILE_CONFIG_VERSION is 2; nothing writes 3.
Version13 == 2
NoConfig == [is |-> "absent", version |-> 0, dir |-> None, byte |-> 0]
EmptyConfig == [NoConfig EXCEPT !.is = "empty"]
ConfigFiles == [is : {"whole"}, version : 0 .. Version13, dir : Dirs, byte : 0 .. 3]

Values == [dir : Dirs \cup {None}, method : MethodSet]

SettingsDefault == [dir |-> None, method |-> "selkie"]

StorageFlags == {"StorageDecompressed", "StorageZstd", "StorageLZ4", "StorageSelkie"}

SetTypeOK ==
    /\ config \in ConfigFiles \cup {NoConfig, EmptyConfig}
    /\ settings \in Values /\ old \in Values
    /\ window \in {"none", "startup", "open", "writing", "written"}
    /\ wndPtr \in {"null", "window", "gone"}
    /\ app \in {"off", "setup", "on", "broken"}
    /\ dirs \subseteq Dirs
    /\ storage \in StorageFlags \cup {None}
    /\ unsaved \in BOOLEAN

\* The first start, with a file of any version of EGL2 up to this one.
SetInit ==
    /\ config \in ConfigFiles \cup {NoConfig}
    /\ settings = SettingsDefault /\ old = SettingsDefault
    /\ window = None /\ wndPtr = "null" /\ app = "off"
    /\ dirs \in SUBSET Dirs
    /\ storage = None /\ chunk = [header |-> None, sized |-> FALSE, data |-> None]
    /\ unsaved = FALSE

-----------------------------------------------------------------------------
(***************************************************************************)
(* SettingsRead and SettingsWrite. The method is written as its enum value *)
(* and read back by the table of the version.                              *)
(***************************************************************************)
ReadMethod(version, byte) ==
    CASE version = 3 -> MethodOf(byte)
      [] version = Version13 -> (<<"zstandard", "lz4", "decompressed", "decompressed">>)[byte + 1]
      [] OTHER -> (<<"zstandard", "decompressed", "lz4", "zstandard">>)[byte + 1]

SettingsRead ==
    IF config.is # "whole" THEN SettingsDefault   \* no magic number
    ELSE [dir |-> config.dir, method |-> ReadMethod(config.version, config.byte)]

SettingsWrite(v) ==
    [is |-> "whole", version |-> Version13, dir |-> v.dir,
     byte |-> CHOOSE b \in 0 .. 3 : MethodOf(b) = v.method]

SettingsValidate(v) == v.dir \in dirs

-----------------------------------------------------------------------------
\* The constructor of cMain. The first setup is modal, inside the constructor of
\* the window: SetupWnd is assigned when it returns.
Start ==
    /\ app = "off"
    /\ settings' = SettingsRead
    /\ IF SettingsValidate(settings')
       THEN app' = "on" /\ UNCHANGED <<window, old>>
       ELSE app' = "setup" /\ window' = "startup" /\ old' = settings'
    /\ wndPtr' = "null" /\ unsaved' = FALSE
    /\ UNCHANGED <<config, dirs, storage, chunk>>

\* The setup has ended; the constructor of cMain validates again.
Started ==
    /\ app = "setup" /\ window = None
    /\ app' = IF SettingsValidate(settings) THEN "on" ELSE "off"
    /\ wndPtr' = "gone"
    /\ UNCHANGED <<config, settings, old, window, dirs, storage, chunk, unsaved>>

\* The pointer to the window of the first setup is left behind.
OnSettingsClicked ==
    /\ app = "on" /\ wndPtr # "window"
    /\ IF wndPtr = "gone"
       THEN app' = "broken" /\ UNCHANGED <<window, wndPtr, old>>
       ELSE window' = "open" /\ wndPtr' = "window" /\ old' = settings /\ UNCHANGED app
    /\ UNCHANGED <<config, settings, dirs, storage, chunk, unsaved>>

\* WriteConfig writes the live settings, valid or not. The file is truncated before it
\* is written; when it cannot be opened the window goes away all the same.
OkClicked ==
    /\ window \in {"startup", "open"}
    /\ settings' \in Values
    /\ \/ /\ SettingsValidate(settings')
          /\ \/ window' = "writing" /\ config' = EmptyConfig /\ UNCHANGED unsaved
             \/ window' = "written" /\ unsaved' = TRUE /\ UNCHANGED config
       \/ ~SettingsValidate(settings') /\ UNCHANGED <<window, config, unsaved>>
    /\ UNCHANGED <<old, wndPtr, app, dirs, storage, chunk>>

WriteSettings ==
    /\ window = "writing" /\ window' = "written"
    /\ config' = SettingsWrite(settings) /\ unsaved' = FALSE
    /\ UNCHANGED <<settings, old, wndPtr, app, dirs, storage, chunk>>

\* OnExit and Destroy; OldSettings goes with the window.
Exit == window' = None /\ wndPtr' = "null" /\ old' = SettingsDefault

OkEnds ==
    /\ window = "written" /\ Exit
    /\ UNCHANGED <<config, settings, app, dirs, storage, chunk, unsaved>>

\* Mutant: Cancel leaves what a refused Ok has written.
RestoreNothing == UNCHANGED settings

Restore == settings' = old

CancelClicked ==
    /\ window \in {"startup", "open"}
    /\ IF app = "setup"
       THEN Exit /\ unsaved' = TRUE /\ UNCHANGED settings
       ELSE SettingsValidate(old) /\ Restore /\ Exit /\ UNCHANGED unsaved
    /\ UNCHANGED <<config, app, dirs, storage, chunk>>

\* The close button restores what it can, and leaves the first setup anyway.
CloseClicked ==
    /\ window \in {"startup", "open"}
    /\ IF SettingsValidate(old)
       THEN Restore /\ Exit /\ unsaved' = (unsaved \/ config.is # "whole")
       ELSE app = "setup" /\ Exit /\ unsaved' = TRUE /\ UNCHANGED settings
    /\ UNCHANGED <<config, app, dirs, storage, chunk>>

-----------------------------------------------------------------------------
\* Mount takes the live settings, and SetupCacheDirectory makes the folder; the
\* flags are fixed in Storage and its Compressor.
SettingsGetStorageFlags(v) ==
    CASE v.method = "decompressed" -> "StorageDecompressed"
      [] v.method = "zstandard" -> "StorageZstd"
      [] v.method = "lz4" -> "StorageLZ4"
      [] v.method = "selkie" -> "StorageSelkie"

Mount ==
    /\ app = "on" /\ settings.dir # None
    /\ dirs' = dirs \cup {settings.dir}
    /\ storage' = SettingsGetStorageFlags(settings)
    /\ UNCHANGED <<config, settings, old, window, wndPtr, app, chunk, unsaved>>

Headers == [StorageDecompressed |-> "Decompressed", StorageZstd |-> "Zstd",
            StorageLZ4 |-> "LZ4", StorageSelkie |-> "Oodle"]

\* Mutant: the header says what the settings say now.
HeaderOfSettings(flags) == Headers[SettingsGetStorageFlags(settings)]

\* What WriteChunk puts in the header, and what Compressor's constructor makes
\* of the same flags.
HeaderOf(flags) == Headers[flags]

CompressFunc(flags) ==
    CASE flags = "StorageDecompressed" -> "plain" [] flags = "StorageZstd" -> "zstd stream"
      [] flags = "StorageLZ4" -> "lz4 block" [] flags = "StorageSelkie" -> "oodle block"

WriteChunk ==
    /\ app = "on" /\ storage # None
    /\ chunk' = [header |-> HeaderOf(storage), sized |-> storage # "StorageDecompressed",
                 data |-> CompressFunc(storage)]
    /\ UNCHANGED <<config, settings, old, window, wndPtr, app, dirs, storage, unsaved>>

\* Each of them reads a size and gives the rest to its library; two of those take
\* a context of a pool.
ZlibDecompress == [sized |-> TRUE, data |-> "zlib stream"]
ZstdDecompress == [sized |-> TRUE, data |-> "zstd stream"]
LZ4Decompress == [sized |-> TRUE, data |-> "lz4 block"]
OodleDecompress == [sized |-> TRUE, data |-> "oodle block"]

\* What ReadChunk can read behind a header.
ReadChunk(header) ==
    CASE header = "Decompressed" -> [sized |-> FALSE, data |-> "plain"]
      [] header = "Zstd" -> ZstdDecompress [] header = "Zlib" -> ZlibDecompress
      [] header = "LZ4" -> LZ4Decompress [] header = "Oodle" -> OodleDecompress

-----------------------------------------------------------------------------
\* The end of the program, at any time.
Quit ==
    /\ app # "off" /\ app' = "off"
    /\ window' = None /\ storage' = None /\ old' = SettingsDefault
    /\ UNCHANGED <<config, settings, wndPtr, dirs, chunk, unsaved>>

\* Somebody makes or removes a folder.
ChangeDirs ==
    /\ \E d \in Dirs : dirs' \in {dirs \cup {d}, dirs \ {d}}
    /\ UNCHANGED <<config, settings, old, window, wndPtr, app, storage, chunk, unsaved>>

SetNext ==
    \/ Start \/ Started \/ OnSettingsClicked
    \/ OkClicked \/ WriteSettings \/ OkEnds \/ CancelClicked \/ CloseClicked
    \/ Mount \/ WriteChunk \/ Quit \/ ChangeDirs

SetSpec == SetInit /\ [][SetNext]_setVars

-----------------------------------------------------------------------------
\* The live settings are those of the file whenever the setup window is not up,
\* whatever was tried, refused and cancelled, apart from the method, which the
\* next start may read differently. The exceptions are a first setup that is left
\* without Ok (cSetup.cpp:217-249) and an Ok that could not open the file
\* (cMain.cpp:271-273), until an Ok has written it or EGL2 is started again.
SettingsSaved ==
    app = "on" /\ window = None /\ ~unsaved =>
        /\ config.is = "whole" /\ settings.dir = config.dir
        /\ settings.method \in {MethodOf(config.byte), ReadMethod(config.version, config.byte)}

\* A chunk file can be read by every later run, whatever method that one writes
\* (storage.cpp:280-385).
ChunksReadable ==
    chunk.header # None =>
        [sized |-> chunk.sized, data |-> chunk.data] = ReadChunk(chunk.header)

\* "If you don't care about reducing your install size for Fortnite, just set this
\* value to "No Compression"" (help/SETUP_GENERAL_COMPMETHOD.htm:14): what has been
\* saved as the method is the method. It is not after a restart.
MethodKept ==
    app = "on" /\ window = None /\ ~unsaved /\ config.version = Version13 =>
        settings.method = MethodOf(config.byte)
=============================================================================
