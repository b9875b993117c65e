----------------------------- MODULE PackInstall -----------------------------
(* The import of an archive: an instance of MultiMC, a pack of Technic, or a *)
(* pack of CurseForge ("Flame") or Modrinth, which may update an instance    *)
(* that is there.  InstanceImportTask, the creation task it hands over to    *)
(* (InstanceCreationTask, FlameCreationTask, ModrinthCreationTask, and its   *)
(* FileResolvingTask) and the commit of what they staged.  Each stage is a   *)
(* wait in an event loop, where the user may abort.                          *)
(* Also the packs that are installed from the pages of their platforms: of   *)
(* ATLauncher, FTB and the solder and zip packs of Technic, of the old FTB,  *)
(* and the copy of an instance, each an InstanceTask of its own.             *)
(* A NetJob is what ConcurrentTask.tla says it is: it succeeds even when     *)
(* downloads were given up.                                                  *)
EXTENDS Integers, Sequences, FiniteSets, SequencesExt

CONSTANTS
    Mods,        \* ids of the files that an index can name, in their order
    Overrides,   \* paths of files that a pack brings along
    DownloadsFail, \* bound: may downloads be given up
    DiskFails    \* bound: may a file operation fail

ASSUME PackAssumption == Mods \subseteq Nat /\ Overrides \cap Mods = {}
ASSUME PackBounds == {DownloadsFail, DiskFails} \subseteq BOOLEAN

\* A version of the pack: the files of its index, those of overrides and those
\* of client-overrides, which only Modrinth has.
Packs == [mods : SUBSET Mods, over : SUBSET Overrides, client : SUBSET Overrides]
Content(p) == p.mods \union p.over \union p.client
NoInstance == "none"

Importers == {"Flame", "Modrinth", "MultiMC"}
Stores == {"ATLauncher", "FTB", "Solder"}    \* a manifest names files to download
Bundles == {"Zip", "LegacyFTB"}              \* one archive holds them

VARIABLES
    import,      \* what is imported and what is there; it stays
    stage,       \* what the import waits for
    report,      \* what InstanceImportTask has reported
    m_abort,
    override,    \* shouldOverride()
    versions,    \* whose versions of Minecraft and loader the task has read
    m_files,     \* files to download
    m_files_to_remove,
    manual,      \* files nobody may download for the user, or the user does not want
    missing,     \* files that were given up
    known,       \* the names of the old files could be looked up
    staged,      \* files and versions in the staging folder
    inst,        \* the instance that is there: files, versions, pack information
    made         \* the files and versions of the new instance, or NoInstance

taskVars == <<m_abort, override, versions, m_files, m_files_to_remove, manual, missing, known>>
vars == <<import, stage, report, taskVars, staged, inst, made>>

old == import.old
new == import.new
Before == [files |-> Content(old), versions |-> "old", info |-> "old"]

Start ==
    CASE import.platform \in Stores  -> "manifest"
      [] import.platform \in Bundles -> "archive"
      [] import.platform = "Copy"    -> "clone"
      [] OTHER                       -> IF import.online THEN "download" ELSE "extract"

Init ==
    /\ import \in [platform : Importers \union Stores \union Bundles \union {"Copy"},
                   online : BOOLEAN, similar : BOOLEAN, index : BOOLEAN, old : Packs, new : Packs]
    /\ import.platform # "Modrinth" => old.client = {} /\ new.client = {}
    /\ import.platform \in Bundles \union {"MultiMC", "Copy"} => new.mods = {}
    /\ import.platform \in {"FTB", "Solder"} => new.over = {}
    /\ import.similar => import.platform \in {"Flame", "Modrinth"}
    /\ import.online \/ import.platform \in Importers \union {"Copy"}
    /\ import.index => import.similar
    /\ ~import.similar => Content(old) = {}
    /\ stage = Start
    /\ report = "none" /\ m_abort = FALSE /\ override = FALSE /\ versions = "none"
    /\ m_files = {} /\ m_files_to_remove = {} /\ manual = {} /\ missing = {} /\ known = TRUE
    /\ staged = [files |-> {}, versions |-> "none"]
    /\ inst = Before /\ made = NoInstance

\* Steps that leave the import, the instances and the folder alone.
Keeps == UNCHANGED <<import, inst, made>>
Stop(r) == /\ stage' = "ended"
           /\ report' = IF report = "none" THEN r ELSE report
           /\ UNCHANGED staged
Fail == Stop("failed") /\ UNCHANGED taskVars

-----------------------------------------------------------------------------
(* InstanceImportTask.                                                       *)

\* A download that fails leaves the archive of an earlier import in the cache,
\* or none.  The archives of bundles and the configs of ATLauncher are fetched
\* in the same way.
DownloadEnds ==
    /\ stage \in {"download", "archive"} /\ Keeps
    /\ \/ /\ stage' = IF stage = "download" THEN "extract" ELSE "unpack"
          /\ UNCHANGED <<report, taskVars, staged>>
       \/ DownloadsFail /\ Fail

\* createInstance() until its first wait.  The index of Modrinth is read when
\* there is no file to download.
Staged(v) == staged' = [files |-> new.over \union new.client, versions |-> v]
CreateModrinth(files, v) ==
    /\ m_files' = IF files = {} THEN new.mods ELSE files
    /\ versions' = IF files = {} THEN "new" ELSE v
    /\ Staged(versions') /\ stage' = "mods"
CreateFlame(files) ==
    /\ m_files' = files /\ versions' = "new"
    /\ Staged("new") /\ stage' = "resolve"
Create(files, v) ==
    IF import.platform = "Flame" THEN CreateFlame(files) ELSE CreateModrinth(files, v)

\* The pack is extracted; updateInstance() looks for an instance of this pack.
ExtractEnds ==
    /\ stage = "extract" /\ Keeps
    /\ \/ /\ import.similar /\ stage' = "question"
          /\ m_files' = new.mods /\ versions' = "new" /\ UNCHANGED staged
          /\ UNCHANGED <<report, m_abort, override, m_files_to_remove, manual, missing, known>>
       \/ /\ import.platform = "MultiMC"     \* and Technic: all is in the archive
          /\ Staged("new") /\ stage' = "commit" /\ report' = "succeeded"
          /\ UNCHANGED taskVars
       \/ /\ ~import.similar /\ import.platform # "MultiMC" /\ Create(new.mods, "new")
          /\ UNCHANGED <<report, m_abort, override, m_files_to_remove, manual, missing, known>>
       \/ DiskFails /\ Fail

-----------------------------------------------------------------------------
(* updateInstance().                                                         *)

Cancel == Stop("aborted") /\ m_abort' = TRUE
          /\ UNCHANGED <<override, versions, m_files, m_files_to_remove, manual, missing, known>>

\* Faulty variant of CompareModrinth: all files of the old index go.
CompareModrinthGreedily ==
    LET left == m_files \ old.mods
    IN  /\ m_files_to_remove' = old.mods \union old.over
        /\ override' = TRUE /\ known' = TRUE
        /\ CreateModrinth(left, "old")

\* The files of both indexes are neither downloaded nor removed.  Reading the old
\* index overwrites the versions; its client overrides are not removed.
CompareModrinth ==
    LET left == m_files \ old.mods
    IN  /\ m_files_to_remove' = (old.mods \ m_files) \union old.over
        /\ override' = TRUE /\ known' = TRUE
        /\ CreateModrinth(left, "old")

\* The loop over the new files removes those of both manifests, but does not
\* look at the one after a removed one, and goes past the end after the last.
Erased(o, n) ==
    LET s == SetToSortSeq(n.mods, <)
        gone[k \in 0..Len(s)] == k > 0 /\ s[k] \in o.mods /\ ~gone[k - 1]
    IN  [ids |-> {id \in n.mods \cap o.mods : \E k \in DOMAIN s : s[k] = id /\ gone[k]},
         past |-> gone[Len(s)]]

CompareFlame ==
    IF Erased(old, new).past THEN stage' = "crashed" /\ UNCHANGED <<taskVars, staged>>
    ELSE /\ m_files' = new.mods \ Erased(old, new).ids
         /\ m_files_to_remove' = old.over
         /\ known' = FALSE /\ stage' = "info"
         /\ UNCHANGED <<m_abort, override, versions, manual, missing, staged>>

\* The user updates, creates a new instance or cancels.
Question ==
    /\ stage = "question" /\ Keeps
    /\ \/ Cancel
       \/ /\ Create(m_files, versions)
          /\ UNCHANGED <<report, m_abort, override, m_files_to_remove, manual, missing, known>>
       \/ /\ ~import.index /\ stage' = "noindex"
          /\ UNCHANGED <<report, taskVars, staged>>
       \/ /\ import.index /\ import.platform = "Modrinth" /\ CompareModrinth
          /\ UNCHANGED <<report, m_abort, manual, missing>>
       \/ /\ import.index /\ import.platform = "Flame" /\ CompareFlame
          /\ UNCHANGED report

\* The old version left no index: the user goes on or cancels.
NoIndex ==
    /\ stage = "noindex" /\ Keeps
    /\ \/ Cancel
       \/ /\ override' = TRUE /\ known' = FALSE
          /\ Create(m_files, versions)
          /\ UNCHANGED <<report, m_abort, m_files_to_remove, manual, missing>>

\* The names of the old files are asked for; without an answer they stay.
InfoEnds ==
    /\ stage = "info" /\ Keeps
    /\ override' = TRUE
    /\ \/ known' = TRUE
          /\ m_files_to_remove' = m_files_to_remove \union (old.mods \ Erased(old, new).ids)
       \/ DownloadsFail /\ UNCHANGED <<known, m_files_to_remove>>
    /\ CreateFlame(m_files)
    /\ UNCHANGED <<report, m_abort, manual, missing>>

-----------------------------------------------------------------------------
(* The files of a pack of Flame, and of FTB, are looked up:                  *)
(* FileResolvingTask.                                                        *)

Loads == IF import.platform = "FTB" THEN "fetch" ELSE "mods"

ResolveEnds ==
    /\ stage = "resolve" /\ Keeps
    /\ \/ stage' = "check" /\ UNCHANGED <<report, taskVars, staged>>
       \/ DownloadsFail /\ Fail

\* Blocked files are looked for elsewhere; for those that are not found the
\* address of the project is asked for, and a bad answer is not handled.
CheckEnds ==
    /\ stage = "check" /\ Keeps
    /\ \E blocked \in SUBSET m_files :
         /\ manual' = blocked
         /\ stage' \in IF blocked = {} THEN {Loads}
                       ELSE IF DownloadsFail THEN {"blocked", "crashed"} ELSE {"blocked"}
    /\ UNCHANGED <<report, m_abort, override, versions, m_files, m_files_to_remove,
                   missing, known, staged>>

\* The user skips the blocked files, or does not: that fails an import of Flame
\* and aborts an installation of FTB.
BlockedMods ==
    /\ stage = "blocked" /\ Keeps
    /\ \/ stage' = Loads /\ UNCHANGED <<report, taskVars, staged>>
       \/ import.platform # "FTB" /\ Fail
       \/ import.platform = "FTB" /\ Stop("aborted") /\ UNCHANGED taskVars

-----------------------------------------------------------------------------
(* Packs of stores and bundles, and the copy of an instance.                 *)

\* A manifest that cannot be parsed is logged, and nothing is reported.
ManifestEnds ==
    /\ stage = "manifest" /\ Keeps
    /\ \/ /\ m_files' = new.mods
          /\ stage' = CASE import.platform = "FTB" -> "resolve"
                        [] import.platform = "ATLauncher" /\ new.over # {} -> "archive"
                        [] OTHER -> "fetch"
          /\ UNCHANGED <<report, m_abort, override, versions, m_files_to_remove, manual,
                         missing, known, staged>>
       \/ DownloadsFail /\ stage' = "silent" /\ UNCHANGED <<report, taskVars, staged>>
       \/ DownloadsFail /\ Fail

\* The versions of the pack are written next to its files; the task is done.
Installed(files) ==
    /\ staged' = [files |-> files, versions |-> "new"]
    /\ stage' = "commit" /\ report' = "succeeded"

\* extractDir() removes what it has extracted when it fails.
Unextracted == {{}, new.over}

\* ATLauncher and the old FTB do not look at the result of extractDir().
UnpackEnds ==
    /\ stage = "unpack" /\ Keeps
    /\ \/ /\ \E lost \in Unextracted :
               /\ lost # {} => DiskFails /\ import.platform \in {"ATLauncher", "LegacyFTB"}
               /\ missing' = lost
               /\ \/ /\ import.platform = "ATLauncher" /\ stage' = "fetch"
                     /\ staged' = [staged EXCEPT !.files = new.over \ lost] /\ UNCHANGED report
                  \/ import.platform # "ATLauncher" /\ Installed(new.over \ lost)
          /\ UNCHANGED <<m_abort, override, versions, m_files, m_files_to_remove, manual, known>>
       \/ DiskFails /\ Fail

\* The files are downloaded; ATLauncher asks first which optional ones are wanted.
FetchEnds ==
    /\ stage = "fetch" /\ Keeps
    /\ \/ /\ manual' \in IF import.platform = "ATLauncher" THEN SUBSET m_files ELSE {manual}
          /\ \E lost \in SUBSET (m_files \ manual') :
               /\ DownloadsFail \/ lost = {}
               /\ missing' = missing \union lost
          /\ stage' = "copy"
          /\ UNCHANGED <<report, m_abort, override, versions, m_files, m_files_to_remove,
                         known, staged>>
       \/ DownloadsFail /\ Fail

\* Copying or extracting a file that was given up fails.  ATLauncher may ask for
\* a version of the loader, and takes it when there is none.
CopyEnds ==
    /\ stage = "copy" /\ Keeps
    /\ \/ /\ missing \cap Mods = {}
          /\ Installed(staged.files \union (m_files \ manual)) /\ UNCHANGED taskVars
       \/ (missing \cap Mods # {} \/ DiskFails) /\ Fail
       \/ /\ import.platform = "ATLauncher" /\ DownloadsFail
          /\ stage' = "crashed" /\ UNCHANGED <<report, taskVars, staged>>

\* FS::copy() returns the result of the last file.
CloneEnds ==
    /\ stage = "clone" /\ Keeps
    /\ \/ /\ \E lost \in SUBSET new.over :
               /\ lost # {} => DiskFails /\ lost # new.over
               /\ missing' = lost /\ Installed(new.over \ lost)
          /\ UNCHANGED <<m_abort, override, versions, m_files, m_files_to_remove, manual, known>>
       \/ DiskFails /\ Fail

\* InstanceStaging ends whatever its child answers, and deletes it: a thread that
\* extracts may work on for a task that is gone.  FTB cannot be aborted while it
\* copies; its aborted look-up counts as a bad answer.
AbortInstall ==
    /\ report = "none" /\ import.platform \in Stores \union Bundles
    /\ \/ stage \in {"manifest", "silent", "archive", "resolve", "check", "fetch"} /\ stage' = "ended"
       \/ stage = "unpack" /\ stage' \in IF import.platform = "Zip" THEN {"ended", "crashed"} ELSE {"ended"}
       \/ stage = "copy" /\ import.platform # "FTB" /\ stage' \in {"ended", "crashed"}
    /\ report' = IF stage = "resolve" THEN "failed" ELSE "aborted"
    /\ UNCHANGED <<import, inst, made, staged, taskVars>>

-----------------------------------------------------------------------------
(* The end of createInstance() and of executeTask().                         *)

\* An update tells the old instance which pack it is now; then the files go.
Finish(r) ==
    /\ stage' = IF override THEN "remove" ELSE "commit"
    /\ inst' = IF override THEN [inst EXCEPT !.info = "new"] ELSE inst
    /\ report' = IF r = "none" /\ ~override THEN "succeeded" ELSE r

ModsEnd ==
    /\ stage = "mods"
    /\ \E lost \in SUBSET (m_files \ manual) :
         /\ DownloadsFail \/ lost = {}
         /\ missing' = lost
         /\ staged' = [staged EXCEPT !.files = @ \union (m_files \ (manual \union lost))]
    /\ Finish("none")
    /\ UNCHANGED <<import, made, m_abort, override, versions, m_files, m_files_to_remove,
                   manual, known>>

\* The files of the old version are removed; the launcher may be ended, or an
\* error end the task, at any of them.
RemoveOldFiles ==
    /\ stage = "remove"
    /\ \/ /\ inst' = [inst EXCEPT !.files = @ \ m_files_to_remove]
          /\ stage' = "commit"
          /\ report' = IF report = "none" THEN "succeeded" ELSE report
       \/ \E some \in SUBSET m_files_to_remove :
            /\ DiskFails
            /\ inst' = [inst EXCEPT !.files = @ \ some]
            /\ \/ stage' = "crashed" /\ UNCHANGED report
               \/ /\ stage' = "ended"
                  /\ report' = IF report = "none" THEN "failed" ELSE report
    /\ UNCHANGED <<import, made, taskVars, staged>>

\* commitStagedInstance(), when the import has succeeded: the staged files are
\* merged into the instance, or become one.  It may fail for good.
Commit ==
    /\ stage = "commit"
    /\ \/ /\ report = "succeeded" /\ override /\ stage' = "committed"
          /\ inst' = [inst EXCEPT !.files = @ \union staged.files, !.versions = staged.versions]
          /\ UNCHANGED made
       \/ /\ report = "succeeded" /\ ~override /\ stage' = "committed"
          /\ made' = staged /\ UNCHANGED inst
       \/ /\ report # "succeeded" \/ DiskFails
          /\ stage' = "ended" /\ UNCHANGED <<inst, made>>
    /\ UNCHANGED <<import, report, taskVars, staged>>

-----------------------------------------------------------------------------
(* The user aborts.                                                          *)

\* Faulty variant of AbortMods: the end of the loop counts as success for both.
AbortModsUnseen == Finish("aborted")

\* The job reports that it was aborted and the loop ends: ModrinthCreationTask
\* sees that it did not end well, FlameCreationTask looks for an error message.
AbortMods ==
    IF import.platform = "Flame" THEN Finish("aborted")
    ELSE stage' = "ended" /\ report' = "aborted" /\ UNCHANGED inst

\* A download and the extraction end with the import, the question about the
\* old files and the first look-up when their job is aborted.  The later look-ups
\* go on for a task that is deleted, and nobody ends its loop.
Abort ==
    /\ report = "none" /\ import.platform \in Importers
    /\ stage \in {"download", "extract", "info", "resolve", "check", "mods"}
    /\ m_abort' = (stage \notin {"download", "extract"})
    /\ \/ /\ stage \in {"download", "extract", "info", "resolve"} /\ stage' = "ended"
          /\ report' = "aborted" /\ UNCHANGED inst
       \/ stage = "check" /\ stage' = "lost" /\ report' = "aborted" /\ UNCHANGED inst
       \/ stage = "mods" /\ AbortMods
    /\ UNCHANGED <<import, made, staged, override, versions, m_files, m_files_to_remove,
                   manual, missing, known>>

Next == \/ DownloadEnds \/ ExtractEnds \/ Question \/ NoIndex \/ InfoEnds
        \/ ResolveEnds \/ CheckEnds \/ BlockedMods \/ ModsEnd \/ RemoveOldFiles \/ Commit \/ Abort
        \/ ManifestEnds \/ UnpackEnds \/ FetchEnds \/ CopyEnds \/ CloneEnds \/ AbortInstall

Spec == Init /\ [][Next]_vars

-----------------------------------------------------------------------------
(* Correctness.                                                              *)

TypeOK ==
    /\ stage \in {"download", "extract", "question", "noindex", "info", "resolve", "check",
                  "blocked", "mods", "remove", "commit", "committed", "ended", "lost", "crashed",
                  "manifest", "silent", "archive", "unpack", "fetch", "copy", "clone"}
    /\ report \in {"none", "succeeded", "failed", "aborted"}
    /\ {m_abort, override, known} \subseteq BOOLEAN
    /\ m_files \union manual \subseteq Mods /\ missing \subseteq Mods \union Overrides
    /\ m_files_to_remove \subseteq Content(old)

\* The instance that is there is touched only by an update the user asked for,
\* after its downloads have ended, and not by one that was aborted; but see
\* AbortLeavesInstance for packs of Flame.
Intact == inst # Before =>
    /\ override /\ stage \in {"remove", "commit", "committed", "ended", "crashed"}
    /\ report = "aborted" => import.platform = "Flame"

PackSound == TypeOK /\ Intact

\* What was committed has all files of the new version but those the user knows
\* of and those that were given up (see CreateTells), and a store gives up none
\* of the files of its manifest; an update that could look
\* up the old files leaves none of them but client overrides (see
\* OverridesRemoved); the versions of Minecraft and the loader are the new ones,
\* but after an update of a Modrinth pack (see VersionsFollow).
Result == IF override THEN inst ELSE made
Complete == stage = "committed" =>
    /\ Content(new) \ (manual \union missing) \subseteq Result.files
    /\ import.platform \in Stores => new.mods \subseteq Result.files \union manual
    /\ override /\ known => Result.files \cap Content(old) \subseteq Content(new) \union old.client
    /\ Result.versions = "new" \/ (override /\ import.platform = "Modrinth")

-----------------------------------------------------------------------------
(* What the comments of the code promise, and the code does not do.          *)

\* "We'd better not let the user abort in the middle of it, since it'd put the
\* instance in an invalid state" (InstanceCreationTask.cpp): an import that was
\* aborted leaves the instance alone.
AbortLeavesInstance == report = "aborted" => inst = Before

\* createInstance() "returns whether the instance creation was successful"
\* (InstanceCreationTask.h): an import that succeeds has all its files.
CreateTells == report = "succeeded" => Content(new) \ manual \subseteq staged.files \union inst.files

\* "We will remove all the previous overrides, to prevent duplicate files!"
\* (ModrinthInstanceCreationTask.cpp).
OverridesRemoved ==
    stage = "committed" /\ override /\ known =>
        Result.files \cap Content(old) \subseteq Content(new)

\* An update installs the version of Minecraft and the loader of the new pack.
VersionsFollow == stage = "committed" => Result.versions = "new"
=============================================================================
