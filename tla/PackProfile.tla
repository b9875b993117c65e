---------------------------- MODULE PackProfile ----------------------------
(* The component list of an instance: minecraft/PackProfile.cpp with its     *)
(* rows (Component.cpp), the task that loads their metadata and resolves     *)
(* their dependencies (ComponentUpdateTask.cpp) and the metadata entities it *)
(* waits for (meta/BaseEntity.cpp).  Everything runs on the GUI thread: the  *)
(* phases "load", "resolve" and "inject" are points inside one synchronous   *)
(* call, at which nothing else happens; at "idle" and "wait" anything may.   *)
EXTENDS Integers, Sequences, FiniteSets, SequencesExt

CONSTANTS UidOrder,    \* the uids of all packages, in alphabetical order
          Versions,    \* version numbers; 0 stands for "none"
          Info,        \* uid, version -> what the version file says
          Minecraft,   \* the uid net.minecraft
          HardCoded,   \* uid -> version taken when nothing suggests one, or 0
          Served,      \* <<uid, version>> the metadata server knows
          MetaIndex,   \* the entity of meta/Index.cpp
          OnDisk,      \* entities that have a good local file at start
          FirstLists,  \* what mmc-pack.json may say at start
          Undeletable, \* uids whose patch file cannot be removed
          DiskFails,   \* may reading or writing mmc-pack.json fail?
          MaxEdits     \* bound: operations of the user on the list

Uids == ToSet(UidOrder)
Maybe == Versions \union {0}
Require == [uid : Uids, equals : Maybe, suggests : Maybe]
Entities == {MetaIndex} \union (Uids \X Maybe)

\* A row of mmc-pack.json, and what a Component keeps of it and adds to it.
Row == [uid : Uids, version : Maybe, dependencyOnly : BOOLEAN,
        important : BOOLEAN, disabled : BOOLEAN, cachedVersion : Maybe,
        cachedRequires : SUBSET Require, cachedVolatile : BOOLEAN]
Component == [row : Row, loaded : BOOLEAN, file : Maybe, meta : Maybe]

ASSUME UidAssumption == IsInjective(UidOrder) /\ Minecraft \in Uids
ASSUME VersionAssumption ==
    Versions \subseteq Nat \ {0} /\ 1 \in Versions /\ IsFiniteSet(Versions)
ASSUME InfoAssumption ==
    Info \in [Uids -> [Versions -> [requires : SUBSET Require, volatile : BOOLEAN]]]
ASSUME HardCodedAssumption == HardCoded \in [Uids -> Maybe]
ASSUME ServerAssumption == Served \subseteq Uids \X Versions
ASSUME DiskAssumption ==
    /\ MetaIndex \notin Uids \X Maybe
    /\ OnDisk \subseteq {MetaIndex} \union Served
ASSUME FirstAssumption ==
    \A list \in FirstLists :
        /\ list \in Seq(Row)
        /\ \A i, j \in DOMAIN list : list[i].uid = list[j].uid => i = j
ASSUME FaultAssumption ==
    Undeletable \subseteq Uids /\ DiskFails \in BOOLEAN /\ MaxEdits \in Nat

VARIABLES
    components,  \* the rows in order
    indexed,     \* domain of componentIndex
    loaded,      \* PackProfileData::loaded
    dirty,       \* PackProfileData::dirty, while it holds the save timer runs
    disk,        \* rows of mmc-pack.json
    lost,        \* history: the last write of mmc-pack.json failed
    patches,     \* patch files: uid -> version that was customized (0: no file)
    m_profile,   \* the cached launch profile: none or one
    known,       \* entities with isLoaded()
    local,       \* entities with a good file in the metadata folder
    inProgress,  \* entities with UpdateStatus::InProgress
    phase,       \* of the update task; "idle": m_updateTask is null
    netmode,     \* its Net::Mode
    checkOnly,   \* argument of the next resolveDependencies()
    slots,       \* unfinished remote loads: entity and row (0: the index)
    remoteOk,    \* remoteLoadSuccessful
    todo,        \* components resolveDependencies() still has to insert
    dangling,    \* entities whose download still reports to a task that is gone
    disturbed,   \* history: a row was moved, removed or reverted while the task waited,
                 \* and the list was not read again since
    signal,      \* terminal signal of the update task that is being delivered
    edits        \* operations of the user so far

packVars == <<components, indexed, loaded, dirty, disk, lost, patches, m_profile,
              known, local, inProgress, phase, netmode, checkOnly, slots, remoteOk, todo,
              dangling, disturbed, signal, edits>>
metaVars == <<known, local, inProgress>>
loadVars == <<netmode, checkOnly, slots, remoteOk, todo, dangling>>
taskVars == <<loadVars, disturbed>>
fileVars == <<disk, lost>>

NoProfile == {}
Rows == DOMAIN components
Persist(cs) == [i \in DOMAIN cs |-> cs[i].row]

Init == /\ components = << >> /\ indexed = {}
        /\ loaded = FALSE /\ dirty = FALSE
        /\ disk \in FirstLists /\ lost = FALSE
        /\ patches = [u \in Uids |-> 0]
        /\ m_profile = NoProfile
        /\ known = {} /\ local = OnDisk /\ inProgress = {}
        /\ phase = "idle" /\ netmode = "Offline" /\ checkOnly = FALSE
        /\ slots = {} /\ remoteOk = TRUE /\ todo = {}
        /\ dangling = {} /\ disturbed = FALSE
        /\ signal = "none" /\ edits = 0

\* No call is under way: the event loop may deliver something else.
Quiet == phase \in {"idle", "wait"} /\ signal = "none"

-----------------------------------------------------------------------------
(* One component: Component.cpp.                                             *)

\* canBeDisabled(), isEnabled(), isCustom()
CanBeDisabled(r) == ~r.important /\ ~r.dependencyOnly
IsEnabled(r) == ~CanBeDisabled(r) \/ ~r.disabled
IsCustom(c) == c.file # 0

Entity(r) == <<r.uid, r.version>>
MetaOf(c) == <<c.row.uid, c.meta>>

\* getVersionFile(): the version whose file the component shows; 0: no file.
VersionFile(c, kn) ==
    IF c.meta = 0 THEN c.file ELSE IF MetaOf(c) \in kn THEN c.meta ELSE 0

\* getVersionFile() asks for the metadata it lacks.
Asked(cs) == {MetaOf(cs[i]) : i \in {j \in DOMAIN cs : cs[j].meta # 0}} \ known

\* BaseEntity::load() for a set of entities: local files first, then the network.
LoadedBy(es) == known \union (es \intersect local)
StartedBy(es, online) == inProgress \union (IF online THEN es ELSE {})
FetchOnline(es) == /\ known' = LoadedBy(es)
                   /\ inProgress' = StartedBy(es, TRUE)
                   /\ UNCHANGED local

\* updateCachedData()
UpdateCachedData(c, kn) ==
    LET v == VersionFile(c, kn)
        u == c.row.uid
    IN  IF v = 0 THEN [c EXCEPT !.row.cachedRequires = {}]
        ELSE [c EXCEPT !.row.cachedVersion = v,
                       !.row.cachedRequires = Info[u][v].requires,
                       !.row.cachedVolatile = Info[u][v].volatile]

\* The metadata a reset component takes from memory, or waits for.
Rebase(c) == IF Entity(c.row) \in known
             THEN [c EXCEPT !.meta = c.row.version]
             ELSE [c EXCEPT !.meta = 0, !.loaded = FALSE]

\* setVersion()
SetVersion(c, v) ==
    LET named == [c EXCEPT !.row.version = v]
    IN  IF v = c.row.version THEN c
        ELSE IF c.loaded /\ ~IsCustom(c)
        THEN UpdateCachedData(Rebase([named EXCEPT !.row.cachedVersion = v]), known)
        ELSE named

\* revert(), once the patch file is gone
Reverted(c) == IF IsCustom(c) THEN Rebase([c EXCEPT !.file = 0]) ELSE c

\* componentFromJsonV1(): reads "volatile" where componentToJsonV1() wrote
\* "cachedVolatile", and setEnabled() refuses what cannot be disabled.
FromJson(r) ==
    [row |-> [r EXCEPT !.cachedVolatile = FALSE,
                       !.disabled = r.disabled /\ CanBeDisabled(r)],
     loaded |-> FALSE, file |-> 0, meta |-> 0]

\* new Component(parent, uid) of the given version
NewComponent(u, v, dep, imp) ==
    [row |-> [uid |-> u, version |-> v, dependencyOnly |-> dep, important |-> imp,
              disabled |-> FALSE, cachedVersion |-> 0, cachedRequires |-> {},
              cachedVolatile |-> FALSE],
     loaded |-> FALSE, file |-> 0, meta |-> 0]

-----------------------------------------------------------------------------
(* Saving and loading: PackProfile.cpp.                                      *)

ScheduleSave == dirty' = (dirty \/ loaded)

\* save_internal(): the flag is reset whether the write succeeded or not.
SaveInternal == /\ dirty' = FALSE
                /\ \/ disk' = Persist(components) /\ lost' = FALSE
                   \/ DiskFails /\ lost' = TRUE /\ UNCHANGED disk

SaveNow == IF dirty THEN SaveInternal ELSE UNCHANGED <<dirty, disk, lost>>

\* The save timer fires.
SaveTimer ==
    /\ Quiet /\ dirty
    /\ SaveInternal
    /\ UNCHANGED <<components, indexed, loaded, patches, m_profile, phase, signal,
                   edits, metaVars, taskVars>>

\* A task goes. Its lambdas have no context object: the downloads that it waits for
\* go on calling it.
LeftBehind == dangling' = dangling \union {s[1] : s \in slots}

\* resolve(): a new update task, started at once. It takes the place of one that waits.
Resolve(net) == /\ phase' = "load" /\ netmode' = net /\ checkOnly' = (net = "Offline")
                /\ slots' = {} /\ remoteOk' = TRUE /\ todo' = {}
                /\ LeftBehind

\* reload(): flush what is scheduled, read the list, resolve it.
ReloadFlushed(net) ==
    \/ LET file == disk'
       IN  /\ components' = [i \in DOMAIN file |-> FromJson(file[i])]
           /\ indexed' = {file[i].uid : i \in DOMAIN file}
           /\ loaded' = TRUE /\ disturbed' = FALSE
           /\ Resolve(net)
    \/ DiskFails /\ UNCHANGED <<components, indexed, loaded, phase, taskVars>>
Reload(net) ==
    /\ \/ /\ phase = "idle"
          /\ SaveNow
          /\ m_profile' = NoProfile
          /\ ReloadFlushed(net)
       \/ /\ phase # "idle"
          /\ UNCHANGED <<components, indexed, loaded, dirty, fileVars, m_profile,
                         phase, taskVars>>
    /\ UNCHANGED <<patches, metaVars, signal>>

\* getProfile(): applies the enabled components, unless it is cached.
Applied(cs, kn) ==
    [i \in DOMAIN cs |-> <<cs[i].row.uid, IsEnabled(cs[i].row), VersionFile(cs[i], kn)>>]
GetProfile == /\ FetchOnline(Asked(components))
              /\ m_profile' = IF m_profile = NoProfile
                              THEN {Applied(components, LoadedBy(Asked(components)))}
                              ELSE m_profile

-----------------------------------------------------------------------------
(* The user: ui/pages/instance/VersionPage.cpp, whose constructor starts an  *)
(* online reload and leaves its controls enabled while the loads wait.       *)

MayEdit == Quiet /\ loaded /\ edits < MaxEdits

Edited == edits' = edits + 1 /\ UNCHANGED signal

\* The row numbers, or the state, that a waiting task relies on may be wrong now.
Disturbs == /\ disturbed' = (disturbed \/ (phase = "wait" /\ components' # components))
            /\ UNCHANGED loadVars

\* Faulty variant of RemoveRow: the save is forgotten.
RemoveRowUnsaved(i) ==
    /\ components' = RemoveAt(components, i)
    /\ indexed' = indexed \ {components[i].row.uid}
    /\ patches' = [patches EXCEPT ![components[i].row.uid] = 0]
    /\ m_profile' = NoProfile
    /\ UNCHANGED dirty

\* remove(): the patch file goes first, then the row; a jar mod that cannot
\* be deleted stops it in between.
RemoveRow(i) ==
    LET u == components[i].row.uid
    IN  \/ /\ components[i].row.important \/ (u \in Undeletable /\ patches[u] # 0)
           /\ UNCHANGED <<components, indexed, patches, m_profile, dirty>>
        \/ /\ ~components[i].row.important
           /\ u \in Undeletable /\ IsCustom(components[i])
           /\ patches' = [patches EXCEPT ![u] = 0]
           /\ UNCHANGED <<components, indexed, m_profile, dirty>>
        \/ /\ ~components[i].row.important /\ u \notin Undeletable
           /\ components' = RemoveAt(components, i)
           /\ indexed' = indexed \ {u}
           /\ patches' = [patches EXCEPT ![u] = 0]
           /\ m_profile' = NoProfile
           /\ ScheduleSave

RemoveComponent(i) ==
    /\ MayEdit /\ Edited
    /\ RemoveRow(i)
    /\ FetchOnline(Asked(<<components[i]>>))
    /\ Disturbs
    /\ UNCHANGED <<loaded, fileVars, phase>>

\* The Reload button, and what the page does after a removal.
ReloadPage ==
    /\ Quiet /\ edits < MaxEdits /\ Edited
    /\ Reload("Online")

\* move(): swaps with a neighbour, the first row moves up to the end.
Move(i, up) ==
    LET j == IF up THEN (IF i = 1 THEN Len(components) ELSE i - 1)
             ELSE (IF i = Len(components) THEN i ELSE i + 1)
    IN  /\ MayEdit /\ Edited
        /\ i # j
        /\ components' = [components EXCEPT ![i] = components[j], ![j] = components[i]]
        /\ m_profile' = NoProfile
        /\ ScheduleSave /\ Disturbs
        /\ UNCHANGED <<indexed, loaded, fileVars, patches, metaVars, phase>>

\* customize(): the version file becomes a patch file of the instance.
Customize(i) ==
    LET c == components[i]
        v == VersionFile(c, LoadedBy(Asked(<<c>>)))
    IN  /\ MayEdit /\ Edited
        /\ c.meta # 0 /\ v # 0
        /\ patches' = [patches EXCEPT ![c.row.uid] = v]
        /\ components' = [components EXCEPT ![i].file = v, ![i].meta = 0]
        /\ m_profile' = NoProfile
        /\ ScheduleSave
        /\ FetchOnline(Asked(<<c>>))
        /\ UNCHANGED <<indexed, loaded, fileVars, phase, taskVars>>

\* revertToBase()
RevertToBase(i) ==
    LET c == components[i]
    IN  /\ MayEdit /\ Edited
        /\ IsCustom(c) /\ (c.row.uid \in Undeletable => patches[c.row.uid] = 0)
        /\ patches' = [patches EXCEPT ![c.row.uid] = 0]
        /\ components' = [components EXCEPT ![i] = Reverted(c)]
        /\ m_profile' = NoProfile
        /\ ScheduleSave /\ Disturbs
        /\ UNCHANGED <<indexed, loaded, fileVars, metaVars, phase>>

\* setComponentVersion() and the resolve() that follows it on the page.
ChangeVersion(i, v, important) ==
    LET c == SetVersion(Reverted(components[i]), v)
    IN  /\ IsCustom(components[i]) => components[i].row.uid \notin Undeletable
        /\ patches' = [patches EXCEPT ![c.row.uid] =
                          IF IsCustom(components[i]) THEN 0 ELSE @]
        /\ components' = [components EXCEPT ![i] = [c EXCEPT !.row.important = important]]
        /\ UNCHANGED indexed
AddComponent(u, v, important) ==
    /\ u \notin indexed
    /\ components' = Append(components, NewComponent(u, v, FALSE, important))
    /\ indexed' = indexed \union {u}
    /\ UNCHANGED patches
SetComponentVersion(u, v, important) ==
    /\ MayEdit /\ Edited
    /\ <<u, v>> \in Served
    /\ \/ \E i \in Rows : components[i].row.uid = u /\ ChangeVersion(i, v, important)
       \/ AddComponent(u, v, important)
    /\ IF components' = components THEN UNCHANGED dirty ELSE ScheduleSave
    /\ Resolve("Online")
    /\ UNCHANGED <<loaded, fileVars, m_profile, metaVars, disturbed>>

\* installEmpty(), installJarMods(), installCustomJar(): a patch file of the
\* user's own, of version 1, and a row that shows it.
InstallPatch(u) ==
    /\ MayEdit /\ Edited
    /\ u \notin indexed
    /\ patches' = [patches EXCEPT ![u] = 1]
    /\ components' = Append(components,
          [NewComponent(u, 0, FALSE, FALSE) EXCEPT !.row.cachedVersion = 1,
                                                   !.file = 1, !.loaded = TRUE])
    /\ indexed' = indexed \union {u}
    /\ m_profile' = NoProfile
    /\ ScheduleSave
    /\ UNCHANGED <<loaded, fileVars, metaVars, phase, taskVars>>

\* setData() of the check box: the cached launch profile stays as it is.
SetEnabled(i) ==
    /\ MayEdit /\ Edited
    /\ CanBeDisabled(components[i].row)
    /\ components' = [components EXCEPT ![i].row.disabled = ~@]
    /\ ScheduleSave
    /\ UNCHANGED <<indexed, loaded, fileVars, patches, m_profile, metaVars, phase, taskVars>>

\* Pages and dialogs ask for the launch profile whenever they like.
AskProfile ==
    /\ Quiet /\ loaded /\ m_profile = NoProfile
    /\ GetProfile
    /\ UNCHANGED <<components, indexed, loaded, dirty, fileVars, patches, phase,
                   taskVars, signal, edits>>

Edit == \/ \E i \in Rows :
              \/ RemoveComponent(i) \/ Customize(i) \/ RevertToBase(i) \/ SetEnabled(i)
              \/ \E up \in BOOLEAN : Move(i, up)
        \/ \E u \in Uids : InstallPatch(u)
        \/ ReloadPage \/ AskProfile
NewVersion == \E u \in Uids, v \in Versions : SetComponentVersion(u, v, u = Minecraft)

-----------------------------------------------------------------------------
(* The update task: ComponentUpdateTask.cpp.                                 *)

\* updateSucceeded() / updateFailed() of the profile come first, then the
\* other listeners of the task see the signal.
Finish(result) == /\ phase' = "idle" /\ m_profile' = NoProfile
                  /\ signal' = result /\ slots' = {}
                  /\ UNCHANGED <<netmode, checkOnly, remoteOk, todo>>

\* loadComponent(): what one component is after the attempt.
Needed == {i \in Rows : /\ ~components[i].loaded
                        /\ patches[components[i].row.uid] = 0
                        /\ Entity(components[i].row) \notin known}
LoadComponent(i, kn, remote) ==
    LET c == components[i]
        u == c.row.uid
        based == IF c.loaded THEN c
                 ELSE IF patches[u] # 0
                 THEN [c EXCEPT !.file = patches[u], !.loaded = TRUE]
                 ELSE [c EXCEPT !.meta = c.row.version, !.loaded = i \notin Needed]
    IN  IF i \in remote \/ VersionFile(based, kn) = 0 THEN based
        ELSE UpdateCachedData(based, kn)

\* loadComponents(): all rows and the index; the worst result decides.
LoadComponents ==
    LET online  == netmode = "Online"
        wanted  == {Entity(components[i].row) : i \in Needed}
                   \union ({MetaIndex} \ known)
        kn      == LoadedBy(wanted)
        started == StartedBy(wanted, online)
        remote  == {i \in Needed : Entity(components[i].row) \in started}
        lacking == {i \in Needed \ remote : Entity(components[i].row) \notin kn}
        waits   == {<<Entity(components[i].row), i>> : i \in remote}
                   \union {<<MetaIndex, 0>> : x \in {MetaIndex} \intersect (started \ known)}
    IN  /\ phase = "load"
        /\ known' = kn /\ inProgress' = started /\ UNCHANGED local
        /\ components' = [i \in Rows |-> LoadComponent(i, kn, remote)]
        /\ IF Persist(components') = Persist(components) THEN UNCHANGED dirty
           ELSE ScheduleSave
        /\ \/ /\ lacking # {}
              /\ Finish("Failed") /\ dangling' = dangling \union {s[1] : s \in waits}
           \/ /\ lacking = {} /\ waits # {}
              /\ phase' = "wait" /\ slots' = waits /\ remoteOk' = TRUE
              /\ UNCHANGED <<netmode, checkOnly, todo, m_profile, signal, dangling>>
           \/ /\ lacking = {} /\ waits = {}
              /\ phase' = "resolve"
              /\ checkOnly' = (netmode = "Offline")
              /\ UNCHANGED <<netmode, slots, remoteOk, todo, m_profile, signal, dangling>>
        /\ UNCHANGED <<indexed, loaded, fileVars, patches, disturbed, edits>>

\* Faulty variant of RemoteLoadsEnded: a failed load is as good as any.
RemoteLoadsEndedAnyhow(left, ok) ==
    /\ IF left = {} THEN phase' = "resolve" /\ checkOnly' = FALSE
       ELSE UNCHANGED <<phase, checkOnly>>
    /\ slots' = left /\ remoteOk' = ok
    /\ UNCHANGED <<netmode, todo, m_profile, signal>>

\* checkIfAllFinished()
RemoteLoadsEnded(left, ok) ==
    \/ /\ left # {}
       /\ slots' = left /\ remoteOk' = ok
       /\ UNCHANGED <<phase, netmode, checkOnly, todo, m_profile, signal>>
    \/ /\ left = {} /\ ok
       /\ phase' = "resolve" /\ checkOnly' = FALSE
       /\ slots' = {} /\ remoteOk' = TRUE
       /\ UNCHANGED <<netmode, todo, m_profile, signal>>
    \/ /\ left = {} /\ ~ok
       /\ Finish("Failed")

\* Faulty variant of Arrived: what was cached of the version stays.
ArrivedUncached(rows, kn) ==
    [i \in Rows |-> IF i \in rows THEN [components[i] EXCEPT !.loaded = TRUE]
                   ELSE components[i]]

\* remoteLoadSucceeded() takes the components that are in the rows now.
Arrived(rows, kn) ==
    [i \in Rows |-> IF i \in rows
                   THEN UpdateCachedData([components[i] EXCEPT !.loaded = TRUE], kn)
                   ELSE components[i]]

\* The rows that the result of an entity goes to; one may be there no more.
Awaiting(e) == {s \in slots : s[1] = e}
Target(e) == {s[2] : s \in Awaiting(e)} \ {0}

\* The download of a metadata entity ends: BaseEntity's own slot, then
\* remoteLoadSucceeded() / remoteLoadFailed() of a task that waits for it.
MetaEnds(e, ok) ==
    LET rows  == IF ok THEN Target(e) ELSE {}
        asked == Asked([i \in rows |-> components[i]]) \ {e}
    IN  /\ Quiet /\ e \in inProgress
        /\ ok => e = MetaIndex \/ e \in Served
        /\ rows \subseteq Rows
        /\ local' = IF ok THEN local \union {e} ELSE local
        /\ known' = known \union (IF ok THEN {e} ELSE {}) \union (asked \intersect local)
        /\ inProgress' = (inProgress \ {e}) \union asked
        /\ components' = Arrived(rows, known')
        /\ IF Persist(components') = Persist(components) THEN UNCHANGED dirty
           ELSE ScheduleSave
        /\ dangling' = dangling \ {e}
        /\ IF phase = "wait" /\ Awaiting(e) # {}
           THEN RemoteLoadsEnded(slots \ Awaiting(e), remoteOk /\ ok)
           ELSE UNCHANGED <<phase, netmode, checkOnly, slots, remoteOk, todo, m_profile, signal>>
        /\ UNCHANGED <<indexed, loaded, fileVars, patches, disturbed, edits>>

\* gatherRequirementsFromComponents()
Requires(i) == components[i].row.cachedRequires
Required == UNION {{r.uid : r \in Requires(i)} : i \in Rows}
Dependees(u) == {i \in Rows : \E r \in Requires(i) : r.uid = u}
AskedFor(u) == UNION {{r \in Requires(i) : r.uid = u} : i \in Rows}
EqualsVersion(u) == {r.equals : r \in AskedFor(u)} \ {0}
Suggests(u) == Max({r.suggests : r \in AskedFor(u)})
Conflict == \E u \in Required : Cardinality(EqualsVersion(u)) > 1

\* getTrivialRemovals()
Orphans == {i \in Rows : /\ components[i].row.dependencyOnly
                         /\ components[i].row.cachedVolatile
                         /\ components[i].row.uid \notin Required}

\* getTrivialComponentChanges()
ToAdd == Required \ indexed
Differing == {i \in Rows : LET u == components[i].row.uid
                           IN  /\ u \in Required
                               /\ EqualsVersion(u) # {}
                               /\ components[i].row.cachedVersion \notin EqualsVersion(u)}
\* Faulty variant of Locked: nothing is.
LockedNever == {}
Locked == {i \in Differing : \/ IsCustom(components[i])
                             \/ ~components[i].row.dependencyOnly}
ExactVersion(u) == CHOOSE v \in EqualsVersion(u) : TRUE

\* What is inserted for a missing uid, before its first dependee.
Addition(u) ==
    [uid |-> u, at |-> Min(Dependees(u)),
     version |-> IF EqualsVersion(u) # {} THEN ExactVersion(u)
                 ELSE IF Suggests(u) # 0 THEN Suggests(u) ELSE HardCoded[u]]

\* resolveDependencies(), first loop: what nobody needs any more goes.
RemoveOrphan ==
    /\ phase = "resolve" /\ ~Conflict
    /\ \E i \in Orphans :
          /\ \A j \in Orphans : i <= j
          /\ RemoveRow(i)
          /\ FetchOnline(Asked(<<components[i]>>))
    /\ UNCHANGED <<loaded, fileVars, phase, taskVars, signal, edits>>

\* Conflicting or locked versions, or something to do where only a check is
\* allowed.
ResolveFailed ==
    /\ phase = "resolve"
    /\ \/ Conflict
       \/ /\ Orphans = {}
          /\ Locked # {} \/ (checkOnly /\ (ToAdd # {} \/ Differing # {}))
    /\ Finish("Failed")
    /\ UNCHANGED <<components, indexed, loaded, dirty, fileVars, patches, metaVars,
                   dangling, disturbed, edits>>

ResolveSucceeded ==
    /\ phase = "resolve" /\ ~Conflict /\ Orphans = {}
    /\ ToAdd = {} /\ Differing = {}
    /\ Finish("Succeeded")
    /\ UNCHANGED <<components, indexed, loaded, dirty, fileVars, patches, metaVars,
                   dangling, disturbed, edits>>

\* Versions of dependencies change, missing ones are lined up for insertion.
ResolveChanges ==
    /\ phase = "resolve" /\ ~checkOnly /\ ~Conflict /\ Orphans = {} /\ Locked = {}
    /\ ToAdd # {} \/ Differing # {}
    /\ components' = [i \in Rows |->
           IF i \in Differing
           THEN SetVersion(components[i], ExactVersion(components[i].row.uid))
           ELSE components[i]]
    /\ IF Differing = {} THEN UNCHANGED dirty ELSE ScheduleSave
    /\ todo' = {Addition(u) : u \in ToAdd}
    /\ phase' = "inject"
    /\ UNCHANGED <<indexed, loaded, fileVars, patches, m_profile, metaVars,
                   netmode, checkOnly, slots, remoteOk, dangling, disturbed, signal, edits>>

\* insertComponent() of one missing dependency, in the order of RequireExSet.
Place(u) == CHOOSE n \in DOMAIN UidOrder : UidOrder[n] = u
InsertDependency ==
    /\ phase = "inject"
    /\ \E add \in todo :
          /\ \A other \in todo : Place(add.uid) <= Place(other.uid)
          /\ todo' = todo \ {add}
          /\ IF add.uid \in indexed
             THEN UNCHANGED <<components, dirty>>
             ELSE /\ components' = InsertAt(components, add.at,
                                      NewComponent(add.uid, add.version, TRUE, FALSE))
                  /\ ScheduleSave
          /\ indexed' = indexed \union {add.uid}
    /\ UNCHANGED <<loaded, fileVars, patches, m_profile, metaVars, phase, netmode,
                   checkOnly, slots, remoteOk, dangling, disturbed, signal, edits>>

\* Everything was inserted: load again.
LoadAgain ==
    /\ phase = "inject" /\ todo = {}
    /\ phase' = "load"
    /\ UNCHANGED <<components, indexed, loaded, dirty, fileVars, patches, m_profile,
                   metaVars, taskVars, signal, edits>>

Task == \/ LoadComponents \/ RemoveOrphan \/ ResolveFailed \/ ResolveSucceeded
        \/ ResolveChanges \/ InsertDependency \/ LoadAgain

Metadata == \E e \in inProgress, ok \in BOOLEAN : MetaEnds(e, ok)

\* Nothing of the launcher is left but the files.
Gone == /\ components' = << >> /\ indexed' = {} /\ loaded' = FALSE
        /\ m_profile' = NoProfile
        /\ known' = {} /\ inProgress' = {}
        /\ phase' = "idle" /\ slots' = {} /\ remoteOk' = TRUE
        /\ dangling' = {} /\ disturbed' = FALSE
        /\ UNCHANGED <<patches, netmode, checkOnly, todo, signal>>

\* The launcher ends, in order (the destructor saves) or not, and starts anew.
Restart ==
    /\ Quiet /\ loaded /\ edits < MaxEdits /\ edits' = edits + 1
    /\ SaveNow \/ (dirty' = FALSE /\ UNCHANGED fileVars)
    /\ Gone /\ UNCHANGED local

\* The launcher crashes at the end of a download: it calls a task that was deleted
\* (which may also do nothing, see MetaEnds), or remoteLoadSucceeded() looks for a
\* row that is no longer there and uses the null pointer.
Crash(e, ok) ==
    /\ Quiet /\ e \in inProgress
    /\ ok => e = MetaIndex \/ e \in Served
    /\ e \in dangling \/ (ok /\ ~(Target(e) \subseteq Rows))
    /\ local' = IF ok THEN local \union {e} ELSE local
    /\ dirty' = FALSE
    /\ Gone /\ UNCHANGED <<fileVars, edits>>

-----------------------------------------------------------------------------
(* Correctness of the list.                                                  *)

PackTypeOK ==
    /\ components \in Seq(Component)
    /\ indexed \subseteq Uids
    /\ loaded \in BOOLEAN /\ dirty \in BOOLEAN /\ lost \in BOOLEAN
    /\ disk \in Seq(Row)
    /\ patches \in [Uids -> Maybe]
    /\ known \subseteq Entities /\ local \subseteq Entities /\ inProgress \subseteq Entities
    /\ phase \in {"idle", "load", "wait", "resolve", "inject"}
    /\ netmode \in {"Online", "Offline"} /\ checkOnly \in BOOLEAN
    /\ slots \subseteq Entities \X Nat
    /\ remoteOk \in BOOLEAN
    /\ todo \subseteq [uid : Uids, at : Nat, version : Maybe]
    /\ dangling \subseteq Entities /\ disturbed \in BOOLEAN
    /\ signal \in {"none", "Succeeded", "Failed"}
    /\ edits \in 0..MaxEdits

\* The rows have distinct uids and the index knows exactly those: what is
\* looked up by uid and what is looked up by row is the same component,
\* through insertion, removal, reload and resolution.
UniqueRows == \A i, j \in Rows : components[i].row.uid = components[j].row.uid => i = j
ListConsistent == UniqueRows /\ indexed = {components[i].row.uid : i \in Rows}

\* What a row means to the next reader of the file.
Meaning(r) == [r EXCEPT !.cachedVolatile = FALSE, !.disabled = ~IsEnabled(r)]

\* When no save is scheduled mmc-pack.json says what the list in memory says,
\* unless the write failed: no operation forgets to schedule its save.
CleanMeansSaved ==
    loaded /\ ~dirty /\ ~lost =>
        /\ DOMAIN disk = Rows
        /\ \A i \in Rows : Meaning(disk[i]) = Meaning(components[i].row)

\* List, index and file agree: each of the many operations on the list keeps all
\* three in step.
ListKept == ListConsistent /\ CleanMeansSaved

\* Every unfinished remote load is under way, and it belongs to the row it was
\* started for, unless the user disturbed the rows (ComponentUpdateTask.cpp:256).
SlotsFitRows ==
    \A s \in slots :
        /\ phase = "wait" /\ s[1] \in inProgress
        /\ disturbed \/ s[2] = 0 \/ (s[2] \in Rows /\ s[1] = Entity(components[s[2]].row))

\* Does a row say of its requirements what the metadata it shows says?
SaysWhatItShows(c) ==
    c.meta # 0 => LET said == Info[c.row.uid][c.meta]
                  IN  /\ c.row.cachedVersion = c.meta
                      /\ c.row.cachedRequires = said.requires
                      /\ c.row.cachedVolatile = said.volatile

\* The update task succeeds only with what the right metadata says in every row, so
\* that no dependency was resolved from the data of another component or an older
\* version: whatever arrived in which order, and was customized, installed, inserted or
\* given another version meanwhile (ComponentUpdateTask.cpp:659). The exception is what
\* the code breaks it with: a row moved, removed or reverted while the task waited.
ResultsFiled ==
    signal = "Succeeded" /\ ~disturbed => \A i \in Rows : SaysWhatItShows(components[i])

\* Every requirement of every row is met by a row, of the version it asks for.
DependenciesMet ==
    \A i \in Rows : \A r \in components[i].row.cachedRequires :
        \E j \in Rows : /\ components[j].row.uid = r.uid
                        /\ r.equals \in {0, components[j].row.cachedVersion}

\* The update task leaves alone what the user chose: it removes only a mere
\* dependency that no row requires any more (with its patch file, if the user
\* customized it), and gives another version only to a dependency without a
\* patch file.
ChosenKept ==
    \A i \in Rows :
        LET c     == components[i]
            after == {j \in DOMAIN components' : components'[j].row.uid = c.row.uid}
        IN  /\ after = {} => c.row.dependencyOnly /\ c.row.uid \notin Required
            /\ ~c.row.dependencyOnly \/ IsCustom(c) =>
                   \A j \in after : components'[j].row.version = c.row.version
=============================================================================
