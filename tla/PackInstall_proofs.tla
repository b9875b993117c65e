-------------------------- MODULE PackInstall_proofs --------------------------
(* Theorems about PackInstall for any files, overrides, old and new versions. *)
EXTENDS PackInstall, TLAPS

Files == Mods \union Overrides
Platforms == Importers \union Stores \union Bundles \union {"Copy"}

\* What the import starts from.
ImportOK ==
    /\ import \in [platform : Platforms, online : BOOLEAN, similar : BOOLEAN,
                   index : BOOLEAN, old : Packs, new : Packs]
    /\ import.platform # "Modrinth" => new.client = {}
    /\ import.platform \in Bundles \union {"MultiMC", "Copy"} => new.mods = {}
    /\ import.platform \in {"FTB", "Solder"} => new.over = {}
    /\ import.similar => import.platform \in {"Flame", "Modrinth"}

Unread == {"download", "extract"}
Asking == {"question", "noindex"}
Loading == {"resolve", "check", "blocked", "mods"}
Merging == {"remove", "commit"}
Getting == {"manifest", "archive", "unpack", "clone"}
Storing == {"fetch", "copy"}
Own == Getting \union Storing \union {"silent"}
Early == Unread \union Asking \union {"info"} \union Loading

\* The variables have their types, records included.
Typed ==
    /\ TypeOK /\ ImportOK
    /\ staged \in [files : SUBSET Files, versions : {"none", "old", "new"}]
    /\ inst \in [files : SUBSET Files, versions : {"none", "old", "new"}, info : {"old", "new"}]

\* Nothing is decided about an update until the user was asked and the indexes compared.
Undecided ==
    /\ stage \in Unread \union Asking \union Own =>
         override = FALSE /\ m_files_to_remove = {} /\ known
    /\ stage \in Unread \union {"manifest", "clone"} => m_files = {}
    /\ stage \in Asking => m_files = new.mods /\ versions = "new"
    /\ stage \in Unread \union Asking \union Getting \union {"info", "resolve", "check"} =>
         manual = {}
    /\ stage \in Early \union Getting => missing = {}
    /\ stage = "fetch" => missing \subseteq Overrides
    /\ stage \in Unread => import.platform \in Importers
    /\ stage \in Asking \union {"mods"} => import.platform \in {"Flame", "Modrinth"}
    /\ stage = "info" => import.platform = "Flame" /\ ~known
    /\ stage \in Loading \ {"mods"} => import.platform \in {"Flame", "FTB"}
    /\ stage \in Loading /\ import.platform = "FTB" =>
         override = FALSE /\ m_files_to_remove = {} /\ known
    /\ stage \in {"manifest"} \union Storing => import.platform \in Stores
    /\ stage \in {"archive", "unpack"} => import.platform \in Bundles \union {"ATLauncher"}
    /\ stage = "clone" => import.platform = "Copy"

\* What is not downloaded is of the old version too, and stays; what the old
\* version alone has goes.
Compared ==
    /\ stage \in {"info"} \union Loading \union Merging =>
         m_files \subseteq new.mods /\ new.mods \ m_files \subseteq old.mods \ m_files_to_remove
    /\ stage = "info" =>
         ~override /\ m_files = new.mods \ Erased(old, new).ids /\ m_files_to_remove = old.over
    /\ stage \in Loading \union Merging \union Storing \union {"archive", "unpack"} /\ ~override =>
         m_files = new.mods
    /\ stage \in Loading \union Merging /\ override /\ known =>
         (old.mods \union old.over) \ m_files_to_remove \subseteq Content(new)

\* What waits in the staging folder.
Prepared ==
    /\ stage \in Loading \union Merging =>
         \/ staged.versions = "new"
         \/ override /\ import.platform = "Modrinth"
         \/ import.platform = "FTB" /\ stage \in Loading
    /\ stage = "manifest" => staged.files = {}
    /\ stage \in Storing => staged.files = new.over \ missing
    /\ stage \in Loading => staged.files = new.over \union new.client
    /\ stage \in Merging /\ report # "aborted" =>
         staged.files = (new.over \union new.client \union (m_files \ manual)) \ missing
    /\ stage \in Merging /\ import.platform \in Stores => missing \subseteq Overrides /\ ~override

\* Where the old files are, in an update.
Updated ==
    /\ stage \in Early \union Own => inst = Before /\ report = "none"
    /\ stage = "remove" => /\ override /\ inst.files = Content(old)
                           /\ report = "aborted" => import.platform = "Flame"
    /\ stage = "commit" /\ override => inst.files = Content(old) \ m_files_to_remove

IInv == Typed /\ Undecided /\ Compared /\ Prepared /\ Updated /\ Intact /\ Complete

-----------------------------------------------------------------------------
\* The files of a version are files.
LEMMA ContentTyped ==
    ASSUME PackAssumption, ImportOK
    PROVE  /\ Content(old) \subseteq Files /\ Content(new) \subseteq Files
           /\ new.mods \subseteq Mods /\ old.mods \subseteq Mods
           /\ new.over \subseteq Overrides /\ new.client \subseteq Overrides
           /\ old.over \subseteq Overrides /\ old.client \subseteq Overrides
           /\ Overrides \cap Mods = {}
BY DEF PackAssumption, ImportOK, Packs, Content, Files, old, new

\* The loop erases only files that both versions have.
LEMMA ErasedShared == \A o, n : Erased(o, n).ids \subseteq n.mods \cap o.mods
BY DEF Erased

LEMMA InitInv == ASSUME PackAssumption, Init PROVE IInv
<1>1. ImportOK
  BY DEF Init, ImportOK, Platforms, new, old
<1>2. /\ stage \in Unread \union Getting /\ report = "none" /\ override = FALSE /\ m_abort = FALSE /\ known = TRUE
      /\ m_files = {} /\ m_files_to_remove = {} /\ manual = {} /\ missing = {}
      /\ staged = [files |-> {}, versions |-> "none"] /\ inst = Before
  BY DEF Init, Start, Unread, Getting
<1>3. Typed
  BY <1>1, <1>2, ContentTyped DEF Typed, TypeOK, Unread, Getting, Before
<1>4. /\ stage \in Unread => import.platform \in Importers
      /\ stage = "manifest" => import.platform \in Stores
      /\ stage = "archive" => import.platform \in Bundles
      /\ stage = "clone" => import.platform = "Copy"
      /\ stage # "unpack" /\ (stage = "archive" => new.mods = {})
  BY <1>1 DEF Init, Start, Unread, ImportOK, Platforms
<1>5. Undecided /\ Compared /\ Prepared /\ Updated /\ Intact /\ Complete
  BY <1>2, <1>4 DEF Undecided, Compared, Prepared, Updated, Intact, Complete, Early, Unread, Asking,
              Loading, Merging, Getting, Storing, Own
<1> QED BY <1>3, <1>5 DEF IInv

\* An import that stops early, or whose program is gone, leaves the instance alone.
LEMMA StopInv ==
    ASSUME IInv, stage \in Early \union Own, UNCHANGED <<import, inst, made, staged>>,
           stage' \in {"ended", "lost", "crashed"}, report' \in {"none", "failed", "aborted"},
           m_abort' \in BOOLEAN, UNCHANGED <<override, m_files, m_files_to_remove, missing, known>>,
           manual' \subseteq Mods
    PROVE  IInv'
<1>1. Typed'
  BY DEF IInv, Typed, TypeOK, ImportOK, Content, old, new
<1>2. inst' = Before'
  BY DEF IInv, Updated, Before, Content, old
<1>3. Undecided' /\ Compared' /\ Prepared' /\ Updated' /\ Intact' /\ Complete'
  BY <1>2 DEF Undecided, Compared, Prepared, Updated, Intact, Complete, Early, Unread, Asking,
              Loading, Merging, Getting, Storing, Own
<1> QED BY <1>1, <1>3 DEF IInv

LEMMA CancelInv == ASSUME IInv, stage \in Asking, Keeps, Cancel PROVE IInv'
<1>1. report' \in {"none", "failed", "aborted"}
  BY DEF Cancel, Stop, IInv, Updated, Early
<1> QED BY <1>1, StopInv DEF Cancel, Stop, Keeps, Early, IInv, Typed, TypeOK

LEMMA FailInv == ASSUME IInv, stage \in Early \union Own, Keeps, Fail PROVE IInv'
<1>1. report' \in {"none", "failed", "aborted"}
  BY DEF Fail, Stop, IInv, Updated
<1> QED BY <1>1, StopInv DEF Fail, Stop, Keeps, taskVars, IInv, Typed, TypeOK

\* A step from one early stage to another that leaves the plan as it is.
LEMMA WaitInv ==
    ASSUME IInv, UNCHANGED <<import, inst, made, report, taskVars, staged>>,
           \/ stage = "download" /\ stage' = "extract"
           \/ stage = "question" /\ stage' = "noindex"
           \/ stage = "resolve" /\ stage' = "check"
           \/ stage = "blocked" /\ stage' = Loads
           \/ stage = "archive" /\ stage' = "unpack"
           \/ stage = "manifest" /\ stage' = "silent"
    PROVE  IInv'
<1>1. Typed'
  BY DEF IInv, Typed, TypeOK, ImportOK, Content, old, new, taskVars, Loads
<1>2. Undecided'
  <2>1. Undecided /\ new' = new /\ (stage = "blocked" => import.platform \in {"Flame", "FTB"})
    BY DEF IInv, Undecided, new, Loading
  <2>2. CASE stage = "blocked" /\ stage' = Loads
    BY <2>1, <2>2 DEF Undecided, taskVars, Loads, Stores, Early, Unread, Asking, Loading, Getting,
                      Storing, Own
  <2>3. CASE stage # "blocked"
    BY <2>1, <2>3 DEF Undecided, taskVars, Early, Unread, Asking, Loading, Getting, Storing, Own
  <2> QED BY <2>2, <2>3
<1>3. Compared'
  BY DEF IInv, Undecided, Compared, Content, old, new, taskVars, Loads, Unread, Asking,
         Loading, Merging, Getting, Storing, Own
<1>4. Prepared'
  BY DEF IInv, Undecided, Prepared, Typed, ImportOK, old, new, taskVars, Loads, Unread, Asking,
         Early, Loading, Merging, Getting, Storing, Own
<1>5. Updated' /\ Intact' /\ Complete'
  BY DEF IInv, Updated, Intact, Complete, Before, Content, old, new, taskVars, Loads,
         Early, Unread, Asking, Loading, Merging, Getting, Storing, Own
<1> QED BY <1>1, <1>2, <1>3, <1>4, <1>5 DEF IInv

-----------------------------------------------------------------------------
\* createInstance() of a plan: the files to download are those of the new version,
\* but for some that the old one has and that stay.
LEMMA CreateInv ==
    ASSUME PackAssumption, IInv, stage \in Early, Keeps,
           import.platform \in {"Flame", "Modrinth"}, NEW files, NEW v \in {"old", "new"}, Create(files, v),
           files \subseteq new.mods, new.mods \ files \subseteq old.mods \ m_files_to_remove',
           m_files_to_remove' \subseteq Content(old), override' \in BOOLEAN, known' \in BOOLEAN,
           ~override' => files = new.mods,
           override' /\ known' => (old.mods \union old.over) \ m_files_to_remove' \subseteq Content(new),
           v = "new" \/ (override' /\ import.platform = "Modrinth"),
           manual = {}, UNCHANGED <<report, m_abort, manual, missing>>
    PROVE  IInv'
<1> DEFINE final == IF import.platform = "Modrinth" /\ files = {} THEN new.mods ELSE files
<1>1. /\ m_files' = final /\ stage' \in {"resolve", "mods"}
      /\ versions' = "new" \/ (override' /\ import.platform = "Modrinth" /\ versions' = "old")
      /\ staged' = [files |-> new.over \union new.client, versions |-> versions']
  BY DEF Create, CreateFlame, CreateModrinth, Staged, IInv, Typed, ImportOK, Platforms
<1>2. /\ old' = old /\ new' = new /\ import' = import
      /\ \A p \in {old, new} : Content(p)' = Content(p)
  BY DEF Keeps, old, new, Content
<1>3. final \subseteq new.mods /\ new.mods \ final \subseteq old.mods \ m_files_to_remove'
      /\ (~override' => final = new.mods)
  OBVIOUS
<1>4. Typed'
  <2>1. ImportOK' /\ inst' = inst
    BY <1>2 DEF Keeps, IInv, Typed, ImportOK
  <2>2. staged' \in [files : SUBSET Files, versions : {"none", "old", "new"}]
    BY <1>1, ContentTyped DEF IInv, Typed, Files
  <2>3. TypeOK'
    BY <1>1, <1>2, <1>3, ContentTyped DEF IInv, Typed, TypeOK, Content, old
  <2> QED BY <2>1, <2>2, <2>3 DEF IInv, Typed
<1> HIDE DEF final
<1>5. Undecided'
  <2>1. missing = {} /\ manual = {} /\ (stage' = "resolve" => import.platform = "Flame")
    BY <1>1 DEF IInv, Undecided, Create, CreateFlame, CreateModrinth
  <2> QED BY <1>1, <1>2, <2>1 DEF Undecided, Early, Unread, Asking, Loading, Getting, Storing, Own
<1>6. Compared'
  BY <1>1, <1>2, <1>3 DEF Compared, Loading, Merging, Storing, Content, old, new
<1>7. Prepared'
  BY <1>1, <1>2 DEF Prepared, Loading, Merging, Storing, old, new
<1>8. inst' = Before' /\ report' = "none"
  BY <1>2 DEF Keeps, IInv, Updated, Before, Content, old
<1>9. Updated' /\ Intact' /\ Complete'
  BY <1>1, <1>8 DEF Updated, Intact, Complete, Early, Unread, Asking, Loading, Merging, Own,
                    Getting, Storing
<1> QED BY <1>4, <1>5, <1>6, <1>7, <1>9 DEF IInv

LEMMA DownloadEndsInv == ASSUME IInv, DownloadEnds PROVE IInv'
<1>1. stage \in Early \union Own /\ Keeps
  BY DEF DownloadEnds, Early, Own, Unread, Getting
<1> QED BY <1>1, FailInv, WaitInv DEF DownloadEnds, Keeps

LEMMA ExtractEndsInv == ASSUME PackAssumption, IInv, ExtractEnds PROVE IInv'
<1>1. stage = "extract" /\ stage \in Early /\ Keeps
  BY DEF ExtractEnds, Early, Unread
<1>2. /\ override = FALSE /\ m_files_to_remove = {} /\ known /\ m_files = {} /\ manual = {}
      /\ missing = {} /\ inst = Before /\ report = "none" /\ import.platform \in Importers
  BY <1>1 DEF IInv, Undecided, Updated, Unread
<1>3. /\ old' = old /\ new' = new /\ import' = import /\ inst' = Before'
      /\ \A p \in {old, new} : Content(p)' = Content(p)
  BY <1>1, <1>2 DEF Keeps, old, new, Content, Before
<1>4. CASE stage' = "question"
  <2>1. /\ m_files' = new.mods /\ versions' = "new" /\ staged' = staged
        /\ UNCHANGED <<report, m_abort, override, m_files_to_remove, manual, missing, known>>
    BY <1>1, <1>4 DEF ExtractEnds, Create, CreateFlame, CreateModrinth, Fail, Stop
  <2>2. import.platform \in {"Flame", "Modrinth"}
    BY <1>1, <1>4 DEF ExtractEnds, Create, CreateFlame, CreateModrinth, Fail, Stop, IInv, Typed,
                      ImportOK
  <2>3. Typed'
    BY <1>1, <1>3, <1>4, <2>1, ContentTyped DEF IInv, Typed, TypeOK, ImportOK, Keeps
  <2>4. Undecided' /\ Compared' /\ Prepared' /\ Updated' /\ Intact' /\ Complete'
    BY <1>2, <1>3, <1>4, <2>1, <2>2 DEF Undecided, Compared, Prepared, Updated, Intact, Complete,
                  Early, Unread, Asking, Loading, Merging, Getting, Storing, Own
  <2> QED BY <2>3, <2>4 DEF IInv
<1>5. CASE import.platform = "MultiMC" /\ Staged("new") /\ stage' = "commit"
           /\ report' = "succeeded" /\ UNCHANGED taskVars
  <2>1. staged' = [files |-> new.over \union new.client, versions |-> "new"]
    BY <1>5 DEF Staged
  <2>2. Typed'
    BY <1>1, <1>3, <1>5, <2>1, ContentTyped DEF IInv, Typed, TypeOK, ImportOK, Keeps, taskVars, Files
  <2>3. new.mods = {}
    BY <1>5 DEF IInv, Typed, ImportOK
  <2>4. Undecided' /\ Compared' /\ Prepared'
    BY <1>2, <1>3, <1>5, <2>1, <2>3 DEF Undecided, Compared, Prepared, taskVars, Stores,
                  Early, Unread, Asking, Loading, Merging, Getting, Storing, Own
  <2>5. Updated' /\ Intact' /\ Complete'
    BY <1>2, <1>3, <1>5 DEF Updated, Intact, Complete, taskVars,
                  Early, Unread, Asking, Loading, Merging, Getting, Storing, Own
  <2> QED BY <2>2, <2>4, <2>5 DEF IInv
<1>6. CASE import.platform # "MultiMC" /\ Create(new.mods, "new")
           /\ UNCHANGED <<report, m_abort, override, m_files_to_remove, manual, missing, known>>
  <2>1. import.platform \in {"Flame", "Modrinth"}
    BY <1>2, <1>6 DEF Importers
  <2> QED BY <1>1, <1>2, <1>6, <2>1, CreateInv DEF IInv, Typed, TypeOK
<1> QED BY <1>1, <1>4, <1>5, <1>6, FailInv DEF ExtractEnds

-----------------------------------------------------------------------------
\* The comparison with the index of an old version of Modrinth.
LEMMA CompareModrinthInv ==
    ASSUME PackAssumption, IInv, stage = "question", Keeps, import.platform = "Modrinth",
           CompareModrinth, UNCHANGED <<report, m_abort, manual, missing>>
    PROVE  IInv'
<1> DEFINE left == m_files \ old.mods
<1>1. m_files = new.mods /\ manual = {} /\ stage \in Early
  BY DEF IInv, Undecided, Asking, Early
<1>2. /\ m_files_to_remove' = (old.mods \ new.mods) \union old.over
      /\ override' = TRUE /\ known' = TRUE /\ Create(left, "old")
  BY <1>1 DEF CompareModrinth, Create
<1>3. /\ left \subseteq new.mods /\ new.mods \ left \subseteq old.mods \ m_files_to_remove'
      /\ m_files_to_remove' \subseteq Content(old)
      /\ (old.mods \union old.over) \ m_files_to_remove' \subseteq Content(new)
  BY <1>1, <1>2, ContentTyped DEF Content, IInv, Typed
<1> HIDE DEF left
<1> QED BY <1>1, <1>2, <1>3, CreateInv

\* The comparison with the manifest of an old version of Flame.
LEMMA CompareFlameInv ==
    ASSUME PackAssumption, IInv, stage = "question", Keeps, import.platform = "Flame",
           CompareFlame, UNCHANGED report
    PROVE  IInv'
<1>1. /\ m_files = new.mods /\ manual = {} /\ stage \in Early /\ ~override /\ missing = {}
      /\ m_files_to_remove = {} /\ inst = Before /\ report = "none"
  BY DEF IInv, Undecided, Asking, Early, Updated
<1>2. CASE Erased(old, new).past
  BY <1>1, <1>2, StopInv DEF CompareFlame, Keeps, taskVars, IInv, Typed, TypeOK
<1>3. CASE ~Erased(old, new).past
  <2>1. /\ m_files' = new.mods \ Erased(old, new).ids /\ m_files_to_remove' = old.over
        /\ known' = FALSE /\ stage' = "info"
        /\ UNCHANGED <<m_abort, override, versions, manual, missing, staged>>
    BY <1>3 DEF CompareFlame
  <2>2. /\ old' = old /\ new' = new /\ import' = import /\ inst' = Before' /\ inst' = inst
        /\ Content(old)' = Content(old)
    BY <1>1 DEF Keeps, old, new, Content, Before
  <2>3. Erased(old, new)' = Erased(old, new)
    BY <2>2
  <2>4. old.over \subseteq Content(old) /\ m_files' \subseteq Mods
    BY <2>1, ContentTyped DEF Content, IInv, Typed
  <2>5. Typed'
    BY <2>1, <2>2, <2>4 DEF IInv, Typed, TypeOK, ImportOK
  <2>6. new.mods \ m_files' \subseteq old.mods \ old.over
    BY <2>1, ErasedShared, ContentTyped DEF IInv, Typed
  <2>7. Compared'
    BY <1>1, <2>1, <2>2, <2>3, <2>6 DEF Compared, Loading, Merging, Storing
  <2>8. Undecided' /\ Prepared' /\ Updated' /\ Intact' /\ Complete'
    BY <1>1, <2>1, <2>2 DEF Undecided, Prepared, Updated, Intact, Complete,
                  Early, Unread, Asking, Loading, Merging, Getting, Storing, Own
  <2> QED BY <2>5, <2>7, <2>8 DEF IInv
<1> QED BY <1>2, <1>3

LEMMA QuestionInv == ASSUME PackAssumption, IInv, Question PROVE IInv'
<1>1. /\ stage = "question" /\ stage \in Early /\ Keeps /\ stage \in Asking
  BY DEF Question, Early, Asking
<1>2. /\ m_files = new.mods /\ versions = "new" /\ ~override /\ m_files_to_remove = {} /\ known
      /\ manual = {} /\ override \in BOOLEAN /\ import.platform \in {"Flame", "Modrinth"}
  BY <1>1 DEF IInv, Undecided, Asking, Typed, TypeOK
<1>3. CASE Create(m_files, versions)
           /\ UNCHANGED <<report, m_abort, override, m_files_to_remove, manual, missing, known>>
  BY <1>1, <1>2, <1>3, CreateInv
<1>4. CASE Cancel
  BY <1>1, <1>4, CancelInv
<1>5. CASE stage' = "noindex" /\ UNCHANGED <<report, taskVars, staged>>
  BY <1>1, <1>5, WaitInv DEF Keeps
<1>6. CASE import.platform = "Modrinth" /\ CompareModrinth /\ UNCHANGED <<report, m_abort, manual, missing>>
  BY <1>1, <1>6, CompareModrinthInv
<1>7. CASE import.platform = "Flame" /\ CompareFlame /\ UNCHANGED report
  BY <1>1, <1>7, CompareFlameInv
<1> QED BY <1>3, <1>4, <1>5, <1>6, <1>7 DEF Question

LEMMA NoIndexInv == ASSUME PackAssumption, IInv, NoIndex PROVE IInv'
<1>1. /\ stage = "noindex" /\ stage \in Early /\ Keeps /\ stage \in Asking
  BY DEF NoIndex, Early, Asking
<1>2. /\ m_files = new.mods /\ versions = "new" /\ m_files_to_remove = {}
      /\ manual = {} /\ import.platform \in {"Flame", "Modrinth"}
  BY <1>1 DEF IInv, Undecided, Asking
<1>3. CASE /\ override' = TRUE /\ known' = FALSE /\ Create(m_files, versions)
           /\ UNCHANGED <<report, m_abort, m_files_to_remove, manual, missing>>
  BY <1>1, <1>2, <1>3, CreateInv
<1> QED BY <1>1, <1>3, CancelInv DEF NoIndex

LEMMA InfoEndsInv == ASSUME PackAssumption, IInv, InfoEnds PROVE IInv'
<1> DEFINE ids == Erased(old, new).ids
<1>1. /\ stage = "info" /\ stage \in Early /\ Keeps /\ override' = TRUE
      /\ UNCHANGED <<report, m_abort, manual, missing>> /\ CreateFlame(m_files)
      /\ \/ known' = TRUE /\ m_files_to_remove' = m_files_to_remove \union (old.mods \ ids)
         \/ UNCHANGED <<known, m_files_to_remove>>
  BY DEF InfoEnds, Early
<1>2. /\ m_files = new.mods \ ids /\ m_files_to_remove = old.over
      /\ manual = {} /\ import.platform = "Flame" /\ ~known /\ known \in BOOLEAN
  BY <1>1 DEF IInv, Undecided, Compared, Typed, TypeOK
<1>3. ids \subseteq new.mods \cap old.mods
  BY ErasedShared
<1> HIDE DEF ids
<1>4. /\ m_files \subseteq new.mods /\ new.mods \ m_files = ids
      /\ ids \subseteq old.mods \ m_files_to_remove'
      /\ m_files_to_remove' \subseteq Content(old)
  BY <1>1, <1>2, <1>3, ContentTyped DEF Content, IInv, Typed
<1>5. CASE import.platform = "Flame"
  <2>1. Create(m_files, "new")
    BY <1>1, <1>5 DEF Create
  <2>2. known' => (old.mods \union old.over) \ m_files_to_remove' \subseteq Content(new)
    <3>1. CASE known' = TRUE /\ m_files_to_remove' = old.over \union (old.mods \ ids)
      BY <1>3, <3>1 DEF Content
    <3>2. CASE UNCHANGED <<known, m_files_to_remove>>
      BY <1>2, <3>2
    <3> QED BY <1>1, <1>2, <3>1, <3>2
  <2> QED BY <1>1, <1>2, <1>4, <2>1, <2>2, CreateInv
<1> QED BY <1>2, <1>5

-----------------------------------------------------------------------------
(* The files of a pack of Flame, the downloads, the removal and the commit.  *)

LEMMA ResolveEndsInv == ASSUME IInv, ResolveEnds PROVE IInv'
BY FailInv, WaitInv DEF ResolveEnds, Keeps, Early, Loading

LEMMA BlockedModsInv == ASSUME IInv, BlockedMods PROVE IInv'
<1>1. stage = "blocked" /\ stage \in Early \union Own /\ Keeps
  BY DEF BlockedMods, Early, Loading
<1>2. CASE Stop("aborted") /\ UNCHANGED taskVars
  BY <1>1, <1>2, StopInv DEF Stop, Keeps, taskVars, IInv, Updated, Typed, TypeOK, Early, Loading
<1> QED BY <1>1, <1>2, FailInv, WaitInv DEF BlockedMods, Keeps

LEMMA CheckEndsInv == ASSUME PackAssumption, IInv, CheckEnds PROVE IInv'
<1>1. /\ stage = "check" /\ stage \in Early /\ stage' \in {Loads, "blocked", "crashed"} /\ Keeps
      /\ manual' \subseteq m_files
      /\ UNCHANGED <<report, m_abort, override, versions, m_files, m_files_to_remove, missing,
                     known, staged>>
  BY DEF CheckEnds, Early, Loading
<1>2. manual' \subseteq Mods /\ report = "none" /\ m_abort \in BOOLEAN
  BY <1>1 DEF IInv, Typed, TypeOK, Updated
<1>3. CASE stage' = "crashed"
  BY <1>1, <1>2, <1>3, StopInv DEF Keeps
<1>4. CASE stage' \in {Loads, "blocked"}
  <2>1. /\ old' = old /\ new' = new /\ import' = import /\ inst' = Before' /\ inst' = inst
        /\ \A p \in {old, new} : Content(p)' = Content(p)
    BY <1>1 DEF Keeps, old, new, Content, Before, IInv, Updated
  <2>2. Typed'
    BY <1>1, <1>2, <1>4, <2>1 DEF IInv, Typed, TypeOK, ImportOK, Loads
  <2>3. Undecided /\ Compared /\ Prepared /\ import.platform \in {"Flame", "FTB"} /\ ImportOK
    BY <1>1 DEF IInv, Undecided, Loading, Typed
  <2>4. Undecided'
    BY <1>1, <1>4, <2>1, <2>3 DEF Undecided, Loads, Stores, Early, Unread, Asking, Loading, Getting,
                                  Storing, Own
  <2>5. Compared'
    BY <1>1, <1>4, <2>1, <2>3 DEF Undecided, Compared, Loads, Loading, Merging, Storing
  <2>6. Prepared'
    BY <1>1, <1>4, <2>1, <2>3 DEF Undecided, Prepared, ImportOK, Loads, Early, Loading, Merging, Storing
  <2>7. Updated' /\ Intact' /\ Complete'
    BY <1>1, <1>2, <1>4, <2>1 DEF Updated, Intact, Complete, Loads, Early, Unread, Asking, Loading,
                                  Merging, Getting, Storing, Own
  <2> QED BY <2>2, <2>4, <2>5, <2>6, <2>7 DEF IInv
<1> QED BY <1>1, <1>3, <1>4

\* The end of createInstance(), with all the files in the folder or, for a pack
\* of Flame that was aborted, without them.
LEMMA FinishInv ==
    ASSUME PackAssumption, IInv, stage = "mods", NEW r \in {"none", "aborted"}, Finish(r),
           r = "aborted" => import.platform = "Flame",
           UNCHANGED <<import, made, override, versions, m_files, m_files_to_remove, manual, known>>,
           m_abort' \in BOOLEAN, missing' \subseteq Files,
           staged' \in [files : SUBSET Files, versions : {"none", "old", "new"}],
           staged'.versions = staged.versions,
           r = "none" =>
             staged'.files = (new.over \union new.client \union (m_files \ manual)) \ missing'
    PROVE  IInv'
<1>1. stage \in Loading /\ stage \in Early /\ inst = Before /\ override \in BOOLEAN
  BY DEF Loading, Early, IInv, Updated, Typed, TypeOK
<1>2. /\ stage' = IF override THEN "remove" ELSE "commit"
      /\ inst' = IF override THEN [inst EXCEPT !.info = "new"] ELSE inst
      /\ report' = IF r = "none" /\ ~override THEN "succeeded" ELSE r
  BY DEF Finish
<1>3. /\ old' = old /\ new' = new /\ import' = import
      /\ \A p \in {old, new} : Content(p)' = Content(p)
  BY DEF old, new, Content
<1>4. inst'.files = Content(old) /\ inst.files = Content(old)
  BY <1>1, <1>2 DEF Before
<1>5. Typed'
  <2>1. inst' \in [files : SUBSET Files, versions : {"none", "old", "new"}, info : {"old", "new"}]
    BY <1>2 DEF IInv, Typed
  <2> QED BY <1>2, <1>3, <2>1 DEF IInv, Typed, TypeOK, ImportOK, Files
<1>6. Undecided' /\ Compared' /\ Prepared'
  <2>1. Undecided /\ Compared /\ Prepared /\ import.platform \in {"Flame", "Modrinth"}
    BY DEF IInv, Undecided
  <2> QED BY <1>1, <1>2, <1>3, <2>1 DEF Undecided, Compared, Prepared, Early, Unread, Asking, Loading,
                          Merging, Getting, Storing, Own, Stores
<1>7. ~override => inst' = Before'
  BY <1>1, <1>2, <1>3 DEF Before
<1>8. Updated'
  BY <1>2, <1>3, <1>4 DEF Updated, Early, Unread, Asking, Loading, Own, Getting, Storing
<1>9. Intact' /\ Complete'
  BY <1>1, <1>2, <1>3, <1>7 DEF Intact, Complete
<1> QED BY <1>5, <1>6, <1>8, <1>9 DEF IInv

LEMMA ModsEndInv == ASSUME PackAssumption, IInv, ModsEnd PROVE IInv'
<1>1. PICK lost \in SUBSET (m_files \ manual) :
         /\ missing' = lost
         /\ staged' = [staged EXCEPT !.files = @ \union (m_files \ (manual \union lost))]
  BY DEF ModsEnd
<1>2. /\ stage = "mods" /\ Finish("none")
      /\ UNCHANGED <<import, made, m_abort, override, versions, m_files, m_files_to_remove,
                     manual, known>>
  BY DEF ModsEnd
<1>3. /\ m_files \subseteq Mods /\ m_abort \in BOOLEAN /\ missing' \subseteq Mods
      /\ new.over \union new.client \subseteq Overrides /\ Overrides \cap Mods = {}
  BY <1>1, ContentTyped DEF IInv, Typed, TypeOK
<1>4. /\ staged' \in [files : SUBSET Files, versions : {"none", "old", "new"}]
      /\ staged'.versions = staged.versions
      /\ staged'.files = staged.files \union (m_files \ (manual \union missing'))
  BY <1>1, <1>3 DEF IInv, Typed, Files
<1>5. staged.files = new.over \union new.client
  BY <1>2 DEF IInv, Prepared, Loading
<1>6. staged'.files = (new.over \union new.client \union (m_files \ manual)) \ missing'
  BY <1>3, <1>4, <1>5
<1> QED BY <1>2, <1>3, <1>4, <1>6, FinishInv DEF Files

LEMMA AbortInv == ASSUME PackAssumption, IInv, Abort PROVE IInv'
<1>1. /\ report = "none" /\ stage \in {"download", "extract", "info", "resolve", "check", "mods"}
      /\ m_abort' \in BOOLEAN /\ stage \in Early
      /\ UNCHANGED <<import, made, staged, override, versions, m_files, m_files_to_remove, manual,
                     missing, known>>
  BY DEF Abort, Early, Unread, Loading
<1>2. manual \subseteq Mods /\ missing \subseteq Files
  BY DEF IInv, Typed, TypeOK, Files
<1>3. ASSUME stage' \in {"ended", "lost"}, report' = "aborted", UNCHANGED inst PROVE IInv'
  BY <1>1, <1>2, <1>3, StopInv
<1>4. CASE stage = "mods" /\ import.platform = "Flame" /\ Finish("aborted")
  BY <1>1, <1>2, <1>4, FinishInv DEF IInv, Typed
<1> QED BY <1>3, <1>4 DEF Abort, AbortMods

LEMMA RemoveOldFilesInv == ASSUME PackAssumption, IInv, RemoveOldFiles PROVE IInv'
<1>1. /\ stage = "remove" /\ override /\ stage \in Merging
      /\ UNCHANGED <<import, made, taskVars, staged>>
      /\ report \in {"none", "succeeded", "failed", "aborted"}
      /\ report' \in {report, "succeeded", "failed"} /\ (report' = "aborted" <=> report = "aborted")
  BY DEF RemoveOldFiles, Merging, IInv, Updated, Typed, TypeOK
<1>2. /\ old' = old /\ new' = new /\ import' = import
      /\ \A p \in {old, new} : Content(p)' = Content(p)
  BY <1>1 DEF old, new, Content
<1>3. PICK gone \in SUBSET m_files_to_remove :
         /\ inst' = [inst EXCEPT !.files = @ \ gone]
         /\ stage' \in {"commit", "crashed", "ended"}
         /\ stage' = "commit" => gone = m_files_to_remove
  <2>1. m_files_to_remove \in SUBSET m_files_to_remove
    OBVIOUS
  <2> QED BY <2>1 DEF RemoveOldFiles
<1>4. /\ inst'.files = inst.files \ gone
      /\ inst' \in [files : SUBSET Files, versions : {"none", "old", "new"}, info : {"old", "new"}]
  BY <1>3 DEF IInv, Typed
<1>5. inst.files = Content(old)
  BY <1>1 DEF IInv, Updated
<1>6. report = "aborted" => import.platform = "Flame"
  BY <1>1 DEF IInv, Updated
<1>7. Typed'
  BY <1>1, <1>2, <1>3, <1>4 DEF IInv, Typed, TypeOK, ImportOK, taskVars
<1>8. Undecided' /\ Compared' /\ Prepared'
  <2>1. Undecided /\ Compared /\ Prepared
    BY DEF IInv
  <2> QED BY <1>1, <1>2, <1>3, <2>1 DEF Undecided, Compared, Prepared, taskVars, Early, Unread, Asking,
                          Loading, Merging, Getting, Storing, Own, Stores
<1>9. Updated'
  BY <1>1, <1>2, <1>3, <1>4, <1>5 DEF Updated, taskVars, Early, Unread, Asking, Loading, Own, Getting,
                                      Storing
<1>10. Intact' /\ Complete'
  BY <1>1, <1>2, <1>3, <1>6 DEF Intact, Complete, taskVars
<1> QED BY <1>7, <1>8, <1>9, <1>10 DEF IInv

LEMMA CommitInv == ASSUME PackAssumption, IInv, Commit PROVE IInv'
<1>1. /\ stage = "commit" /\ stage \in Merging /\ stage' \in {"committed", "ended"}
      /\ UNCHANGED <<import, report, taskVars, staged>>
  BY DEF Commit, Merging
<1>2. /\ old' = old /\ new' = new /\ import' = import
      /\ \A p \in {old, new} : Content(p)' = Content(p)
  BY <1>1 DEF old, new, Content
<1>3. /\ staged \in [files : SUBSET Files, versions : {"none", "old", "new"}]
      /\ inst \in [files : SUBSET Files, versions : {"none", "old", "new"}, info : {"old", "new"}]
      /\ override \in BOOLEAN
  BY DEF IInv, Typed, TypeOK
<1>4. ~override => inst = Before
  BY DEF IInv, Intact
<1>5. Undecided' /\ Compared' /\ Prepared' /\ Updated'
  BY <1>1 DEF Undecided, Compared, Prepared, Updated, Early, Unread, Asking, Loading, Merging, Own,
              Getting, Storing
<1>6. CASE stage' = "ended"
  <2>1. UNCHANGED <<inst, made>>
    BY <1>6 DEF Commit
  <2>2. Typed'
    BY <1>1, <1>2, <1>6, <2>1 DEF IInv, Typed, TypeOK, ImportOK, taskVars
  <2>3. Intact' /\ Complete'
    BY <1>1, <1>2, <1>6, <2>1 DEF IInv, Intact, Complete, Before, taskVars
  <2> QED BY <1>5, <2>2, <2>3 DEF IInv
<1>7. CASE stage' = "committed"
  <2>1. /\ report = "succeeded"
        /\ override => inst' = [inst EXCEPT !.files = @ \union staged.files, !.versions = staged.versions]
        /\ ~override => made' = staged /\ UNCHANGED inst
    BY <1>7 DEF Commit
  <2>2. /\ inst' \in [files : SUBSET Files, versions : {"none", "old", "new"}, info : {"old", "new"}]
        /\ override => /\ inst'.files = inst.files \union staged.files
                       /\ inst'.versions = staged.versions
    BY <1>3, <2>1
  <2>3. Typed'
    BY <1>1, <1>2, <1>7, <2>2 DEF IInv, Typed, TypeOK, ImportOK, taskVars
  <2>4. Intact'
    BY <1>1, <1>2, <1>4, <1>7, <2>1 DEF Intact, Before, taskVars
  <2>5. /\ staged.files = (new.over \union new.client \union (m_files \ manual)) \ missing
        /\ import.platform \in Stores => missing \subseteq Overrides /\ ~override
        /\ staged.versions = "new" \/ (override /\ import.platform = "Modrinth")
        /\ m_files \subseteq new.mods /\ new.mods \ m_files \subseteq old.mods \ m_files_to_remove
        /\ ~override => m_files = new.mods
        /\ override => inst.files = Content(old) \ m_files_to_remove
        /\ override /\ known =>
             (old.mods \union old.over) \ m_files_to_remove \subseteq Content(new)
    BY <1>1, <2>1 DEF IInv, Prepared, Compared, Updated, Loading
  <2>6. CASE override
    <3>1. Content(new) \ (manual \union missing) \subseteq inst'.files
      BY <2>2, <2>5, <2>6 DEF Content
    <3>2. known => inst'.files \cap Content(old) \subseteq Content(new) \union old.client
      BY <2>2, <2>5, <2>6 DEF Content
    <3>3. Result' = inst'
      BY <1>1, <2>6 DEF Result, taskVars
    <3>4. Complete'
      BY <1>1, <1>2, <2>2, <2>5, <2>6, <3>1, <3>2, <3>3 DEF Complete, taskVars
    <3> QED BY <1>5, <2>3, <2>4, <3>4 DEF IInv
  <2>7. CASE ~override
    <3>1. Content(new) \ (manual \union missing) \subseteq staged.files
      BY <2>5, <2>7 DEF Content
    <3>2. Result' = staged
      BY <1>1, <2>1, <2>7 DEF Result, taskVars
    <3>3. import.platform \in Stores => new.mods \subseteq staged.files \union manual
      <4>1. new.mods \cap Overrides = {}
        BY ContentTyped DEF IInv, Typed
      <4> QED BY <2>5, <2>7, <4>1
    <3>4. Complete'
      BY <1>1, <1>2, <2>5, <2>7, <3>1, <3>2, <3>3 DEF Complete, taskVars
    <3> QED BY <1>5, <2>3, <2>4, <3>4 DEF IInv
  <2> QED BY <2>6, <2>7
<1> QED BY <1>1, <1>6, <1>7

-----------------------------------------------------------------------------
(* Packs of stores and bundles, and the copy of an instance.                 *)

\* What such an installation has decided and staged, and where it goes on.
LEMMA OwnInv ==
    ASSUME PackAssumption, IInv, stage \in Own, UNCHANGED <<import, inst, made>>,
           UNCHANGED <<m_abort, override, m_files_to_remove, known>>,
           m_files' = new.mods, manual' \subseteq Mods, missing' \subseteq Files,
           staged' \in [files : SUBSET Files, versions : {"none", "old", "new"}],
           \/ stage' = "resolve" /\ import.platform = "FTB" /\ report' = "none"
           \/ stage' = "archive" /\ import.platform = "ATLauncher" /\ report' = "none"
           \/ stage' \in Storing /\ import.platform \in Stores /\ report' = "none"
           \/ stage' = "commit" /\ report' = "succeeded",
           stage' \in {"resolve", "archive"} => manual' = {} /\ missing' = {} /\ staged'.files = {},
           stage' = "fetch" => missing' \subseteq Overrides,
           stage' \in Storing => staged'.files = new.over \ missing',
           stage' = "commit" =>
             /\ import.platform \in Stores => missing' \subseteq Overrides
             /\ staged'.versions = "new"
             /\ staged'.files = (new.over \union new.client \union (new.mods \ manual')) \ missing'
    PROVE  IInv'
<1>1. /\ override = FALSE /\ m_files_to_remove = {} /\ known /\ override' = FALSE /\ known'
      /\ m_files_to_remove' = {} /\ inst = Before /\ new.mods \subseteq Mods
  BY ContentTyped DEF IInv, Undecided, Updated, Typed
<1>2. /\ old' = old /\ new' = new /\ import' = import /\ inst' = Before'
      /\ \A p \in {old, new} : Content(p)' = Content(p)
  BY <1>1 DEF old, new, Content, Before
<1>3. Typed'
  BY <1>1, <1>2 DEF IInv, Typed, TypeOK, ImportOK, Files, Storing
<1>4. ImportOK
  BY DEF IInv, Typed
<1>5. Undecided'
  BY <1>1, <1>2 DEF Undecided, Early, Unread, Asking, Loading, Getting, Storing, Own, Stores
<1>6. Compared'
  BY <1>1, <1>2 DEF Compared, Loading, Merging, Storing
<1>7. Prepared'
  BY <1>1, <1>2, <1>4 DEF Prepared, ImportOK, Loading, Merging, Storing
<1>8. Updated' /\ Intact' /\ Complete'
  BY <1>1, <1>2 DEF Updated, Intact, Complete, Early, Unread, Asking, Loading, Getting, Storing, Own
<1> QED BY <1>3, <1>5, <1>6, <1>7, <1>8 DEF IInv

LEMMA ManifestEndsInv == ASSUME PackAssumption, IInv, ManifestEnds PROVE IInv'
<1>1. /\ stage = "manifest" /\ stage \in Own /\ Keeps
      /\ import.platform \in Stores /\ manual = {} /\ missing = {} /\ staged.files = {}
      /\ report = "none"
  BY DEF ManifestEnds, Own, Getting, IInv, Undecided, Prepared, Updated
<1>2. CASE stage' = "silent" /\ UNCHANGED <<report, taskVars, staged>>
  BY <1>1, <1>2, WaitInv DEF Keeps
<1>3. CASE /\ m_files' = new.mods
           /\ stage' = CASE import.platform = "FTB" -> "resolve"
                         [] import.platform = "ATLauncher" /\ new.over # {} -> "archive"
                         [] OTHER -> "fetch"
           /\ UNCHANGED <<report, m_abort, override, versions, m_files_to_remove, manual,
                          missing, known, staged>>
  <2>1. \/ stage' = "resolve" /\ import.platform = "FTB"
        \/ stage' = "archive" /\ import.platform = "ATLauncher"
        \/ stage' = "fetch" /\ new.over = {}
    BY <1>1, <1>3 DEF IInv, Typed, ImportOK, Stores
  <2>2. staged \in [files : SUBSET Files, versions : {"none", "old", "new"}]
    BY DEF IInv, Typed
  <2> QED BY <1>1, <1>3, <2>1, <2>2, OwnInv DEF Keeps, Storing
<1> QED BY <1>1, <1>2, <1>3, FailInv DEF ManifestEnds

LEMMA UnpackEndsInv == ASSUME PackAssumption, IInv, UnpackEnds PROVE IInv'
<1>1. /\ stage = "unpack" /\ stage \in Own /\ Keeps /\ report = "none" /\ manual = {}
      /\ ~override /\ m_files = new.mods /\ import.platform \in Bundles \union {"ATLauncher"}
  BY DEF UnpackEnds, Own, Getting, IInv, Undecided, Compared, Updated
<1>2. /\ new.over \subseteq Overrides /\ new.mods \cap Overrides = {}
      /\ new.client = {} /\ (import.platform \in Bundles => new.mods = {})
  BY <1>1, ContentTyped DEF IInv, Typed, ImportOK, Bundles
<1>3. CASE ~Fail
  <2>1. PICK lost \in {{}, new.over} :
           /\ missing' = lost
           /\ \/ /\ import.platform = "ATLauncher" /\ stage' = "fetch"
                 /\ staged' = [staged EXCEPT !.files = new.over \ lost] /\ UNCHANGED report
              \/ import.platform # "ATLauncher" /\ Installed(new.over \ lost)
    BY <1>3 DEF UnpackEnds, Unextracted
  <2>2. /\ \/ import.platform = "ATLauncher" /\ stage' = "fetch" /\ UNCHANGED report
           \/ /\ import.platform # "ATLauncher" /\ stage' = "commit" /\ report' = "succeeded"
              /\ staged' = [files |-> new.over \ missing', versions |-> "new"]
        /\ UNCHANGED <<m_abort, override, versions, m_files, m_files_to_remove, manual, known>>
    BY <1>3, <2>1 DEF UnpackEnds, Installed
  <2>3. /\ staged' \in [files : SUBSET Files, versions : {"none", "old", "new"}]
        /\ staged'.files = new.over \ missing' /\ missing' \subseteq Overrides
    BY <1>2, <2>1, <2>2 DEF Files, IInv, Typed
  <2>4. stage' = "commit" =>
          /\ import.platform \in Stores => missing' \subseteq Overrides
          /\ staged'.versions = "new"
          /\ staged'.files = (new.over \union new.client \union (new.mods \ manual')) \ missing'
    BY <1>1, <1>2, <2>1, <2>2, <2>3
  <2> QED BY <1>1, <2>2, <2>3, <2>4, OwnInv DEF Keeps, Storing, Files, Stores
<1> QED BY <1>1, <1>3, FailInv

LEMMA FetchEndsInv == ASSUME PackAssumption, IInv, FetchEnds PROVE IInv'
<1>1. /\ stage = "fetch" /\ stage \in Own /\ stage \in Storing /\ Keeps /\ report = "none"
      /\ ~override /\ m_files = new.mods /\ m_files \subseteq Mods /\ manual \subseteq Mods
      /\ import.platform \in Stores /\ missing \subseteq Overrides
      /\ staged.files = new.over \ missing
      /\ staged \in [files : SUBSET Files, versions : {"none", "old", "new"}]
  BY DEF FetchEnds, Own, Storing, IInv, Undecided, Compared, Prepared, Updated, Typed, TypeOK
<1>2. new.over \subseteq Overrides /\ Overrides \cap Mods = {}
  BY ContentTyped DEF IInv, Typed
<1>3. CASE ~Fail
  <2>1. /\ manual' \in IF import.platform = "ATLauncher" THEN SUBSET m_files ELSE {manual}
        /\ stage' = "copy"
        /\ UNCHANGED <<report, m_abort, override, versions, m_files, m_files_to_remove, known, staged>>
    BY <1>3 DEF FetchEnds
  <2>2. PICK lost \in SUBSET (m_files \ manual') : missing' = missing \union lost
    BY <1>3 DEF FetchEnds
  <2>3. manual' \subseteq Mods
    BY <1>1, <2>1
  <2>4. missing' \subseteq Files /\ staged'.files = new.over \ missing'
    BY <1>1, <1>2, <2>1, <2>2 DEF Files
  <2> QED BY <1>1, <2>1, <2>3, <2>4, OwnInv DEF Keeps, Storing
<1> QED BY <1>1, <1>3, FailInv

LEMMA CopyEndsInv == ASSUME PackAssumption, IInv, CopyEnds PROVE IInv'
<1>1. /\ stage = "copy" /\ stage \in Own /\ stage \in Storing /\ Keeps /\ report = "none"
      /\ ~override /\ m_files = new.mods /\ m_files \subseteq Mods /\ manual \subseteq Mods
      /\ import.platform \in Stores /\ missing \subseteq Files
      /\ staged.files = new.over \ missing
      /\ staged \in [files : SUBSET Files, versions : {"none", "old", "new"}]
  BY DEF CopyEnds, Own, Storing, IInv, Undecided, Compared, Prepared, Updated, Typed, TypeOK, Files
<1>2. new.client = {} /\ m_abort \in BOOLEAN
  BY <1>1 DEF IInv, Typed, TypeOK, ImportOK, Stores
<1>3. CASE /\ missing \cap Mods = {}
           /\ Installed(staged.files \union (m_files \ manual)) /\ UNCHANGED taskVars
  <2>1. missing \subseteq Overrides /\ m_files \cap missing = {}
    BY <1>1, <1>3 DEF Files
  <2>2. /\ staged'.files = (new.over \union new.client \union (new.mods \ manual)) \ missing
        /\ staged' \in [files : SUBSET Files, versions : {"none", "old", "new"}]
        /\ staged'.versions = "new" /\ stage' = "commit" /\ report' = "succeeded"
    BY <1>1, <1>2, <1>3, <2>1 DEF Files, Installed
  <2>3. UNCHANGED <<m_abort, override, m_files, m_files_to_remove, manual, missing, known>>
    BY <1>3 DEF taskVars
  <2> QED BY <1>1, <1>3, <2>1, <2>2, <2>3, OwnInv DEF Keeps, Storing
<1>4. CASE stage' = "crashed" /\ UNCHANGED <<report, taskVars, staged>>
  BY <1>1, <1>2, <1>4, StopInv DEF Keeps, taskVars
<1> QED BY <1>1, <1>3, <1>4, FailInv DEF CopyEnds

LEMMA CloneEndsInv == ASSUME PackAssumption, IInv, CloneEnds PROVE IInv'
<1>1. /\ stage = "clone" /\ stage \in Own /\ Keeps /\ report = "none" /\ manual = {} /\ m_files = {}
      /\ import.platform = "Copy"
  BY DEF CloneEnds, Own, Getting, IInv, Undecided, Updated
<1>2. new.over \subseteq Overrides /\ new.client = {} /\ new.mods = {}
  BY <1>1, ContentTyped DEF IInv, Typed, ImportOK
<1>3. CASE ~Fail
  <2>1. PICK lost \in SUBSET new.over :
           missing' = lost /\ Installed(new.over \ lost)
    BY <1>3 DEF CloneEnds
  <2>2. /\ stage' = "commit" /\ report' = "succeeded"
        /\ staged' = [files |-> new.over \ missing', versions |-> "new"]
        /\ UNCHANGED <<m_abort, override, versions, m_files, m_files_to_remove, manual, known>>
    BY <1>3, <2>1 DEF CloneEnds, Installed
  <2>3. /\ staged' \in [files : SUBSET Files, versions : {"none", "old", "new"}]
        /\ staged'.versions = "new" /\ missing' \subseteq Overrides
        /\ staged'.files = (new.over \union new.client \union (new.mods \ manual')) \ missing'
    BY <1>2, <2>1, <2>2 DEF Files
  <2> QED BY <1>1, <1>2, <2>2, <2>3, OwnInv DEF Keeps, Storing, Files
<1> QED BY <1>1, <1>3, FailInv

LEMMA AbortInstallInv == ASSUME PackAssumption, IInv, AbortInstall PROVE IInv'
<1>1. /\ stage \in Early \union Own /\ stage' \in {"ended", "crashed"}
      /\ report' \in {"failed", "aborted"} /\ UNCHANGED <<import, inst, made, staged, taskVars>>
  BY DEF AbortInstall, Early, Loading, Own, Getting, Storing
<1>2. m_abort \in BOOLEAN /\ manual \subseteq Mods
  BY DEF IInv, Typed, TypeOK
<1> QED BY <1>1, <1>2, StopInv DEF taskVars

-----------------------------------------------------------------------------
LEMMA Invariance == ASSUME PackAssumption, IInv, [Next]_vars PROVE IInv'
<1>1. CASE UNCHANGED vars
  <2>1. Typed'
    BY <1>1 DEF vars, taskVars, IInv, Typed, TypeOK, ImportOK, Content, old, new
  <2>2. Undecided' /\ Compared' /\ Prepared'
    BY <1>1 DEF vars, taskVars, IInv, Undecided, Compared, Prepared, Content, old, new, Stores
  <2>3. Updated' /\ Intact' /\ Complete'
    BY <1>1 DEF vars, taskVars, IInv, Updated, Intact, Complete, Before, Result, Content, old, new
  <2> QED BY <2>1, <2>2, <2>3 DEF IInv
<1> QED BY <1>1, DownloadEndsInv, ExtractEndsInv, QuestionInv, NoIndexInv, InfoEndsInv, ResolveEndsInv,
           CheckEndsInv, BlockedModsInv, ModsEndInv, RemoveOldFilesInv, CommitInv, AbortInv,
           ManifestEndsInv, UnpackEndsInv, FetchEndsInv, CopyEndsInv, CloneEndsInv, AbortInstallInv
        DEF Next

\* For any files and versions: an instance that is there is touched only by an
\* update its user asked for, whose downloads have ended, and whatever fails or is
\* aborted before leaves it as it was.
THEOREM ImportTouchesOnlyUpdates == Spec => []PackSound
<1>1. Init => IInv
  BY PackAssumption, InitInv
<1>2. IInv /\ [Next]_vars => IInv'
  BY PackAssumption, Invariance
<1>3. IInv => PackSound
  BY DEF IInv, Typed, PackSound
<1> QED BY <1>1, <1>2, <1>3, PTL DEF Spec

\* For any files and versions, also when files are neither downloaded nor removed
\* because both versions have them: what is committed has all the new files.
THEOREM CommitIsComplete == Spec => []Complete
<1>1. Init => IInv
  BY PackAssumption, InitInv
<1>2. IInv /\ [Next]_vars => IInv'
  BY PackAssumption, Invariance
<1>3. IInv => Complete
  BY DEF IInv
<1> QED BY <1>1, <1>2, <1>3, PTL DEF Spec
===============================================================================
