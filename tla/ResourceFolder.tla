---------------------------- MODULE ResourceFolder ----------------------------
(* ResourceFolderModel.cpp with ModFolderModel.cpp: the folder of mods and   *)
(* its index of metadata, the list that is read from both, and the tasks of  *)
(* the global thread pool that read them: one update task at a time and one  *)
(* parse task per mod.  Their signals are queued: the main thread handles    *)
(* the end of a task after it posted it, and after anything else in between. *)
EXTENDS Integers, Sequences, FiniteSets, SequencesExt

CONSTANTS
    Mods,        \* mods: a file name without ".disabled", a name of metadata
    Slugs,       \* those whose metadata is called what the mod calls itself
    MaxOps,      \* bound: operations of the user
    MaxForeign   \* bound: changes other programs make

ASSUME FolderAssumption == IsFiniteSet(Mods) /\ Slugs \subseteq Mods
ASSUME FolderBounds == MaxOps \in Nat /\ MaxForeign \in Nat

\* A file: "x.jar" is <<x, TRUE>>, "x.jar.disabled" is <<x, FALSE>>.
Files == Mods \X BOOLEAN
Enabled(m) == <<m, TRUE>>
Toggled(f) == <<f[1], ~f[2]>>

VARIABLES
    folder,      \* when each file was changed last; 0: there is none
    index,       \* the mods with a file of metadata
    clock,       \* the last time stamp
    m_resources, \* rows: file, stamp, whether there is metadata, what was parsed;
                 \* doubtful, a history: the details may be those of another file
    m_resources_index,
    m_is_watching,
    noticed,     \* a directoryChanged() is pending
    m_first_folder_load,
    task,        \* m_current_update_task
    m_scheduled_update,
    m_active_parse_tasks, \* by ticket
    m_next_resolution_ticket, \* the last ticket; 0 again when no task has one
    misfiled,    \* history: two rows have one name, or the index has a name no row has
    downloading, \* mods whose metadata a ModDownloadTask wrote, and whose file it fetches
    ops, foreign \* counters of the bounds

listVars == <<m_resources, m_resources_index, misfiled>>
updateVars == <<task, m_scheduled_update, m_first_folder_load>>
diskVars == <<folder, index, clock, noticed>>
envVars == <<downloading, ops, foreign>>
parseVars == <<m_active_parse_tasks, m_next_resolution_ticket>>
folderVars == <<diskVars, listVars, m_is_watching, updateVars, parseVars, envVars>>

NoTask == [state |-> "none", clean |-> FALSE, meta |-> << >>, result |-> << >>, orphans |-> {}]
There(f) == folder[f] # 0

FolderInit ==
    /\ folder \in [Files -> {0, 1}] /\ index \in SUBSET Mods /\ clock = 1
    /\ m_resources = << >> /\ m_resources_index = << >> /\ misfiled = FALSE
    /\ m_is_watching = FALSE /\ noticed = FALSE /\ m_first_folder_load = TRUE
    /\ task = NoTask /\ m_scheduled_update = FALSE /\ m_active_parse_tasks = << >>
    /\ m_next_resolution_ticket = 0 /\ downloading = {} /\ ops = 0 /\ foreign = 0

\* The watcher sees the folder and the index, while the page is open.
Notice == noticed' = (noticed \/ m_is_watching)

-----------------------------------------------------------------------------
(* The update task.                                                          *)

\* update(), which createUpdateTask() follows when none is under way.
Update ==
    IF task.state # "none"
    THEN m_scheduled_update' = TRUE /\ UNCHANGED <<task, m_first_folder_load>>
    ELSE /\ task' = [NoTask EXCEPT !.state = "started", !.clean = m_first_folder_load]
         /\ m_first_folder_load' = FALSE
         /\ UNCHANGED m_scheduled_update

\* The pool thread.  Metadata names the enabled file, which is looked at now.
ReadIndex ==
    /\ task.state = "started"
    /\ task' = [task EXCEPT !.state = "indexed",
                            !.meta = [f \in {Enabled(m) : m \in index} |-> folder[f]]]
    /\ UNCHANGED <<diskVars, listVars, m_is_watching, m_scheduled_update, m_first_folder_load,
                   parseVars, envVars>>

\* A disabled file takes the metadata, and the enabled one leaves the result.
Taken(meta) == {f \in DOMAIN meta : There(Toggled(f))}
Result(meta) ==
    [f \in ({g \in Files : There(g)} \union DOMAIN meta) \ Taken(meta) |->
        [stamp |-> IF f \in DOMAIN meta THEN meta[f] ELSE folder[f],
         meta |-> f \in DOMAIN meta \/ Toggled(f) \in Taken(meta)]]
NotInstalled(meta) == {f \in DOMAIN meta \ Taken(meta) : ~There(f)}

ReadFolder ==
    /\ task.state = "indexed"
    /\ task' = [NoTask EXCEPT !.state = "read", !.result = Result(task.meta),
                              !.orphans = IF task.clean THEN NotInstalled(task.meta) ELSE {}]
    /\ UNCHANGED <<diskVars, listVars, m_is_watching, m_scheduled_update, m_first_folder_load,
                   parseVars, envVars>>

\* Metadata without a file goes, and so does what is at the file's path by now.
CleanOrphans ==
    /\ task.state = "read"
    /\ task' = [NoTask EXCEPT !.state = "succeeded",
                              !.result = [f \in DOMAIN task.result \ task.orphans |-> task.result[f]]]
    /\ index' = index \ {f[1] : f \in task.orphans}
    /\ folder' = [f \in Files |-> IF f \in task.orphans THEN 0 ELSE folder[f]]
    /\ IF task.orphans # {} THEN Notice ELSE UNCHANGED noticed
    /\ UNCHANGED <<clock, listVars, m_is_watching, m_scheduled_update, m_first_folder_load,
                   parseVars, envVars>>

-----------------------------------------------------------------------------
(* Parse tasks.                                                              *)

\* resolveResource() of a new row: it has a ticket, and there is a task that reads
\* its file.  The end of the task is handled under the name the resource has by then.
\* Histories: the resource was renamed under the task (renamed); it was dropped when
\* the end of the task was queued already, or was not waited for any more (late).
Resolving(f, t) ==
    [file |-> f, stamp |-> task.result[f].stamp, known |-> task.result[f].stamp # 0,
     meta |-> task.result[f].meta, details |-> 0,
     m_is_resolving |-> TRUE, m_resolution_ticket |-> t, doubtful |-> FALSE]
ParseTask(f) ==
    [path |-> f, known |-> task.result[f].stamp # 0, res |-> f, state |-> "started",
     aborted |-> FALSE, details |-> 0, renamed |-> FALSE, late |-> FALSE]

\* The pool thread reads the file it was told, if that is still there; what was
\* not there when the task was made has no type, and nothing is read of it.
Parse(t) ==
    LET p == m_active_parse_tasks[t]
    IN  /\ p.state = "started"
        /\ m_active_parse_tasks' =
               [m_active_parse_tasks EXCEPT ![t] =
                   IF p.aborted THEN [p EXCEPT !.state = "finished"]
                   ELSE [p EXCEPT !.state = "succeeded",
                                  !.details = IF p.known THEN folder[p.path] ELSE 0]]
        /\ UNCHANGED <<m_next_resolution_ticket, diskVars, listVars, m_is_watching, updateVars, envVars>>

RowsNamed(f) == {r \in DOMAIN m_resources : m_resources[r].file = f}

\* onParseSucceeded(): m_resources_index[id] makes an entry for row 0 if there is
\* none.  The details replace those that had the metadata.  The resource of a late
\* end is freed memory: its name is what that holds.
ParseSucceeded(t) ==
    LET p == m_active_parse_tasks[t]
    IN  /\ p.state = "succeeded"
        /\ m_active_parse_tasks' = [m_active_parse_tasks EXCEPT ![t].state = "finished"]
        /\ UNCHANGED m_next_resolution_ticket
        /\ \E id \in IF p.late THEN Files ELSE {p.res} :
              LET first == CHOOSE r \in RowsNamed(id) : \A s \in RowsNamed(id) : r <= s
              IN  /\ m_resources_index' = [f \in DOMAIN m_resources_index \union {id} |->
                                              IF f \in DOMAIN m_resources_index THEN m_resources_index[f] ELSE 1]
                  /\ misfiled' = (misfiled \/ (p.late /\ RowsNamed(id) = {}))
                  /\ m_resources' = IF RowsNamed(id) = {} THEN m_resources
                                    ELSE [m_resources EXCEPT ![first].details = p.details,
                                                             ![first].m_is_resolving = FALSE,
                                                             ![first].meta = FALSE,
                                                             ![first].doubtful = p.renamed \/ p.late]
        /\ UNCHANGED <<diskVars, m_is_watching, updateVars, envVars>>

ParseFinished(t) ==
    /\ m_active_parse_tasks[t].state = "finished"
    /\ m_active_parse_tasks' = [u \in DOMAIN m_active_parse_tasks \ {t} |-> m_active_parse_tasks[u]]
    /\ m_resources' = [r \in DOMAIN m_resources |->
                          IF m_resources[r].m_resolution_ticket = t
                          THEN [m_resources[r] EXCEPT !.m_resolution_ticket = 0] ELSE m_resources[r]]
    /\ m_next_resolution_ticket' = IF DOMAIN m_active_parse_tasks = {t} THEN 0
                                   ELSE m_next_resolution_ticket
    /\ UNCHANGED <<diskVars, m_resources_index, misfiled, m_is_watching, updateVars, envVars>>

-----------------------------------------------------------------------------
(* The main thread takes over what the update task found.                    *)

Current == DOMAIN m_resources_index
Found == DOMAIN task.result
At(f) == m_resources_index[f]

\* A row that is kept is replaced when its time stamp changed.
Changed == {f \in Current \intersect Found :
               At(f) \in DOMAIN m_resources /\ m_resources[At(f)].stamp # task.result[f].stamp}
\* The rows that stay: the row that the index gives is erased, whatever it holds,
\* from the last to the first; an entry that ParseSucceeded made is another for row 0.
Gone == Current \ Found
NotErased == {r \in DOMAIN m_resources : r = 1 \/ r \notin {At(f) : f \in Gone}}
Staying ==
    LET ones == Cardinality({f \in Gone : At(f) = 1})
        Place(r) == Cardinality({s \in NotErased : s <= r}) - ones
        stay == {r \in NotErased : Place(r) > 0}
    IN  [k \in 1..Cardinality(stay) |-> CHOOSE r \in stay : Place(r) = k]

\* The row of a task is replaced or erased.
Dropped(r) == r \in {At(f) : f \in Changed} \/ r \notin {Staying[k] : k \in DOMAIN Staying}
RowOf(t) == {r \in DOMAIN m_resources : m_resources[r].m_resolution_ticket = t}

\* Faulty variant of Aborts: that of a row that is erased goes on.
AbortsKept(t) == \E r \in RowOf(t) :
    m_resources[r].m_is_resolving /\ r \in {At(f) : f \in Changed}
\* Its task is aborted while the row is resolving, which does not call its end back.
Aborts(t) == \E r \in RowOf(t) : m_resources[r].m_is_resolving /\ Dropped(r)
ComesLate(t) == \E r \in RowOf(t) :
    /\ Dropped(r)
    /\ ~m_resources[r].m_is_resolving \/ m_active_parse_tasks[t].state = "succeeded"

\* The index that is built again; the last of several rows of one file has it.
Indexed(rows) == [f \in {rows[r].file : r \in DOMAIN rows} |->
                     CHOOSE r \in DOMAIN rows :
                         /\ rows[r].file = f
                         /\ \A s \in DOMAIN rows : rows[s].file = f => s <= r]

\* Each new resource has a ticket of its own.
ApplyUpdates ==
    LET added == SetToSeq(Found \ Current)
        ticket == m_next_resolution_ticket + Len(m_resources)
        kept == [k \in DOMAIN Staying |->
                    IF \E f \in Changed : At(f) = Staying[k]
                    THEN Resolving(CHOOSE f \in Changed : At(f) = Staying[k],
                                   m_next_resolution_ticket + Staying[k])
                    ELSE m_resources[Staying[k]]]
        new == [k \in DOMAIN added |-> Resolving(added[k], ticket + k)]
        started == {<<m_next_resolution_ticket + At(f), f>> : f \in Changed}
                       \union {<<ticket + k, added[k]>> : k \in DOMAIN added}
    IN  /\ m_resources' = kept \o new
        /\ m_resources_index' = Indexed(m_resources')
        /\ UNCHANGED misfiled
        /\ m_active_parse_tasks' =
               [t \in DOMAIN m_active_parse_tasks \union {s[1] : s \in started} |->
                   IF t \in DOMAIN m_active_parse_tasks
                   THEN [m_active_parse_tasks[t] EXCEPT !.aborted = @ \/ Aborts(t),
                                                        !.late = @ \/ ComesLate(t)]
                   ELSE ParseTask((CHOOSE s \in started : s[1] = t)[2])]
        /\ m_next_resolution_ticket' = IF DOMAIN m_active_parse_tasks' = {} THEN m_next_resolution_ticket
                                       ELSE ticket + Len(added)

\* onUpdateSucceeded()
UpdateSucceeded ==
    /\ task.state = "succeeded"
    /\ ApplyUpdates
    /\ task' = [NoTask EXCEPT !.state = "applied"]
    /\ UNCHANGED <<diskVars, m_is_watching, m_scheduled_update, m_first_folder_load, envVars>>

\* Faulty variant of UpdateFinished: the request for an update stays.
UpdateFinishedAgain ==
    /\ task.state = "applied"
    /\ task' = IF m_scheduled_update
               THEN [NoTask EXCEPT !.state = "started", !.clean = m_first_folder_load] ELSE NoTask
    /\ m_first_folder_load' = (m_first_folder_load /\ ~m_scheduled_update)
    /\ UNCHANGED <<m_scheduled_update, diskVars, listVars, m_is_watching, parseVars, envVars>>

\* The lambda of Task::finished: an update that was asked for meanwhile follows.
UpdateFinished ==
    /\ task.state = "applied"
    /\ IF m_scheduled_update
       THEN /\ task' = [NoTask EXCEPT !.state = "started", !.clean = m_first_folder_load]
            /\ m_scheduled_update' = FALSE /\ m_first_folder_load' = FALSE
       ELSE task' = NoTask /\ UNCHANGED <<m_scheduled_update, m_first_folder_load>>
    /\ UNCHANGED <<diskVars, listVars, m_is_watching, parseVars, envVars>>

\* directoryChanged()
DirectoryChanged ==
    /\ noticed /\ noticed' = FALSE
    /\ Update
    /\ UNCHANGED <<folder, index, clock, listVars, m_is_watching, parseVars, envVars>>

-----------------------------------------------------------------------------
(* The user, on the page of the folder, and the rest of the launcher.        *)

\* A download has a modal dialog, under which the page takes no other operation.
Operation == /\ ops < MaxOps /\ ops' = ops + 1 /\ UNCHANGED foreign
             /\ downloading = {}

\* startWatching(): the next update cleans up.
Open ==
    /\ ~m_is_watching /\ m_is_watching' = TRUE
    /\ IF task.state # "none"
       THEN m_scheduled_update' = TRUE /\ m_first_folder_load' = TRUE /\ UNCHANGED task
       ELSE /\ task' = [NoTask EXCEPT !.state = "started", !.clean = TRUE]
            /\ m_first_folder_load' = FALSE /\ UNCHANGED m_scheduled_update
    /\ UNCHANGED <<diskVars, listVars, parseVars, envVars>>

Close ==
    /\ m_is_watching /\ m_is_watching' = FALSE
    /\ Operation
    /\ noticed' = FALSE
    /\ UNCHANGED <<folder, index, clock, listVars, updateVars, parseVars, downloading>>

\* ScanModFolders, a step of a launch.
Scan == /\ ops < MaxOps /\ ops' = ops + 1
        /\ Update
        /\ UNCHANGED <<diskVars, listVars, m_is_watching, parseVars, downloading, foreign>>

\* setResourceEnabled() of a row: the file is renamed, the row keeps its place, its
\* details and its parse task, and has the time stamp of what it renamed.
Toggle(r) ==
    LET row == m_resources[r]
        f == row.file
        g == Toggled(f)
    IN  /\ m_is_watching /\ Operation
        /\ row.known /\ There(f) /\ ~There(g)
        /\ folder' = [folder EXCEPT ![f] = 0, ![g] = folder[f]]
        /\ m_resources' = [m_resources EXCEPT ![r].file = g, ![r].stamp = folder[f],
                                              ![r].doubtful = @ \/ row.stamp # folder[f]]
        /\ misfiled' = (misfiled \/ RowsNamed(g) # {})
        /\ m_resources_index' = [h \in (DOMAIN m_resources_index \ {f}) \union {g} |->
                                    IF h = g THEN r ELSE m_resources_index[h]]
        /\ m_active_parse_tasks' = [t \in DOMAIN m_active_parse_tasks |->
                                       IF row.m_resolution_ticket = t
                                       THEN [m_active_parse_tasks[t] EXCEPT !.res = g, !.renamed = TRUE]
                                       ELSE m_active_parse_tasks[t]]
        /\ Notice
        /\ UNCHANGED <<m_next_resolution_ticket, index, clock, m_is_watching, updateVars, downloading>>

\* deleteMods() of a row: metadata that the row does not know any more is looked
\* for under the name of the mod.
DeleteMod(r) ==
    LET f == m_resources[r].file
    IN  /\ m_is_watching /\ Operation
        /\ index' = IF m_resources[r].meta \/ f[1] \in Slugs THEN index \ {f[1]} ELSE index
        /\ folder' = [folder EXCEPT ![f] = 0]
        /\ m_resources' = [m_resources EXCEPT ![r].known = FALSE]
        /\ Notice /\ Update
        /\ UNCHANGED <<clock, m_resources_index, misfiled, m_is_watching, parseVars, downloading>>

\* installResource(): what is installed already is replaced; where there is only
\* the disabled file nothing can be removed, and nothing is installed.
Install(m) ==
    /\ Operation
    /\ (There(Enabled(m)) \/ ~There(<<m, FALSE>>))
    /\ clock' = clock + 1 /\ folder' = [folder EXCEPT ![Enabled(m)] = clock + 1]
    /\ Notice
    /\ IF m_is_watching THEN UNCHANGED updateVars ELSE Update
    /\ UNCHANGED <<index, listVars, m_is_watching, parseVars, downloading>>

\* ModDownloadTask: LocalModUpdateTask writes the metadata, then the file comes,
\* or does not.
Download(m) ==
    /\ m_is_watching /\ Operation
    /\ index' = index \union {m} /\ downloading' = {m}
    /\ Notice
    /\ UNCHANGED <<folder, clock, listVars, m_is_watching, updateVars, parseVars>>

DownloadEnds ==
    /\ downloading # {} /\ downloading' = {}
    /\ \/ UNCHANGED <<folder, clock, noticed>>
       \/ /\ clock' = clock + 1
          /\ folder' = [f \in Files |-> IF f[2] /\ f[1] \in downloading THEN clock + 1 ELSE folder[f]]
          /\ Notice
    /\ UNCHANGED <<index, listVars, m_is_watching, updateVars, parseVars, ops, foreign>>

\* Another program puts a file there, or takes one away.
Foreign(f) ==
    /\ foreign < MaxForeign /\ foreign' = foreign + 1
    /\ \/ clock' = clock + 1 /\ folder' = [folder EXCEPT ![f] = clock + 1]
       \/ There(f) /\ folder' = [folder EXCEPT ![f] = 0] /\ UNCHANGED clock
    /\ Notice
    /\ UNCHANGED <<index, listVars, m_is_watching, updateVars, parseVars, downloading, ops>>

User == \/ Open \/ Close \/ Scan
        \/ \E r \in DOMAIN m_resources : Toggle(r) \/ DeleteMod(r)
        \/ \E m \in Mods : Install(m) \/ Download(m)
Pool == ReadIndex \/ ReadFolder \/ CleanOrphans \/ \E t \in DOMAIN m_active_parse_tasks : Parse(t)
Events == \/ UpdateSucceeded \/ UpdateFinished \/ DirectoryChanged \/ DownloadEnds
          \/ \E t \in DOMAIN m_active_parse_tasks : ParseSucceeded(t) \/ ParseFinished(t)

FolderNext == User \/ Pool \/ Events \/ \E f \in Files : Foreign(f)
FolderSpec == FolderInit /\ [][FolderNext]_folderVars
\* The pool runs what was started and the event loop handles what was posted.
FairFolderSpec == /\ FolderSpec
                  /\ WF_folderVars(Pool) /\ WF_folderVars(Events)

-----------------------------------------------------------------------------
(* Properties.                                                               *)

\* An enabled file is not listed next to a disabled one that took its metadata.
Shadowed(f) == f[2] /\ f[1] \in index /\ There(Toggled(f))
\* Every file has one row, every other row has metadata; the index gives the row
\* of each; and the details of a row are those of its file.
RowsFollow ==
    /\ \A f \in Files : There(f) => Shadowed(f) \/ \E r \in DOMAIN m_resources : m_resources[r].file = f
    /\ \A r \in DOMAIN m_resources :
          LET f == m_resources[r].file
          IN  /\ There(f) \/ (f[2] /\ f[1] \in index)
              /\ f \in Current /\ m_resources_index[f] = r
              /\ m_resources[r].stamp = folder[f]
              /\ There(f) => m_resources[r].doubtful \/ m_resources[r].details = folder[f]
    /\ Current = {m_resources[r].file : r \in DOMAIN m_resources}
Settled == task.state = "none" /\ ~noticed /\ DOMAIN m_active_parse_tasks = {}

\* While the page is open, and once nothing is under way, the list is that of
\* the folder, whatever was changed by whom while updates and parsers ran
\* (ResourceFolderModel::update, applyUpdates, onParseSucceeded), but for what the
\* code lets happen.  A row may have wrong details (doubtful) that was toggled while
\* it was parsed, or after its file had changed unseen, or that the end of the parser
\* of a dropped resource was taken for.  Nothing is claimed (misfiled) once such an
\* end met a name without a row, or a file was renamed to the name of another row.
FolderShown == m_is_watching /\ Settled => misfiled \/ RowsFollow

\* Updates that ask for updates come to an end, and the open page shows the
\* folder from then on, but for the same (ResourceFolderModel::update, the queued
\* lambda).
Settles == <>[](Settled /\ (m_is_watching => misfiled \/ RowsFollow))
=============================================================================
