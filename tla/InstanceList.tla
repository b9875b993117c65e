----------------------------- MODULE InstanceList -----------------------------
(* InstanceList.cpp: the folder of instances, the list that is read from it, *)
(* the groups and their file, the trash, and the staging of a new instance,  *)
(* which is committed with retries (class InstanceStaging).  The progress    *)
(* dialog of a staging is modal: the user cannot do anything else meanwhile, *)
(* but other programs can.                                                   *)
EXTENDS Integers, Sequences, FiniteSets

CONSTANTS
    Ids,         \* names of folders in m_instDir, which are the ids of instances
    Things,      \* what is in the folders: instances, whatever they are called
    Fresh,       \* Fresh[n]: the folder names tried in turn for a new instance
    Restored,    \* Restored[i]: the names tried in turn when i is taken from the trash
    Group,       \* a name of a group
    Absent,      \* no entry; no file
    Before,      \* bound: where the things may be when the launcher is first looked at
    FirstRun,    \* may the launcher never have run here: no file of groups yet
    TrashFails,  \* bound: may moving to the trash fail
    MaxOps,      \* bound: operations of the user
    MaxForeign   \* bound: changes other programs make

ASSUME NamesAssumption ==
    /\ Fresh \in Seq(Ids) /\ Restored \in [Ids -> Seq(Ids)]
    /\ \A i \in Ids : Restored[i] # << >> /\ Restored[i][1] = i
ASSUME InstanceBounds ==
    /\ Before \subseteq [Things -> Ids \union {"unborn"}]
    /\ {FirstRun, TrashFails} \subseteq BOOLEAN /\ MaxOps \in Nat /\ MaxForeign \in Nat

\* Elsewhere: not made yet, in a staging folder that a task works in, in one that
\* nobody works in any more, in the trash, deleted.
Places == {"unborn", "staged", "left", "trash", "gone"}
NoGroup == "none"             \* the empty group name
ASSUME NoConfusion ==
    Ids \intersect Places = {} /\ Group \notin {NoGroup, Absent} /\ Absent # NoGroup
Entry == {Group, NoGroup, Absent}
Limit == 5                    \* attempts of a commit: sleeps of 1, 2, 4, 8 and 16

VARIABLES
    place,       \* where each thing is: an id, or one of Places
    m_instances, \* the ids on the list; instanceSet has the same
    m_instanceGroupIndex,
    m_groupsLoaded,
    instgroups,  \* instgroups.json: Absent, or the group of each id
    m_trashHistory,
    noticed,     \* a directoryChanged() of m_watcher is pending
    missed,      \* one was dropped by a WatchLock since the folder was last read
    saved,       \* the ids the file of groups speaks of: the list when it was written
    task,        \* the InstanceStaging of the progress dialog
    ops, foreign \* counters of the bounds

groupVars == <<m_instanceGroupIndex, m_groupsLoaded, instgroups, saved>>
listVars == <<m_instances, noticed, missed>>
vars == <<place, listVars, groupVars, m_trashHistory, task, ops, foreign>>

Folders(at) == {at[t] : t \in Things} \intersect Ids
NoTask == [phase |-> "none", thing |-> Absent, group |-> Absent, tries |-> 0,
           timer |-> FALSE, report |-> "none"]

-----------------------------------------------------------------------------
(* Reading and writing.                                                      *)

\* saveGroupList() with the index and the list as they are then: only instances
\* of the list, only groups with a name.
Listed(groups, ids) ==
    [i \in Ids |-> IF i \in ids /\ groups[i] = Group THEN Group ELSE Absent]
SaveGroupList(groups, ids) == instgroups' = Listed(groups, ids) /\ saved' = ids

\* loadList(): the first instance that is new to the list reads the groups, if
\* they were not read before, over what the index has.
LoadList(groups, at, file) ==
    /\ m_instances' = Folders(at)
    /\ IF ~m_groupsLoaded /\ file # Absent /\ ~(Folders(at) \subseteq m_instances)
       THEN m_groupsLoaded' = TRUE /\ m_instanceGroupIndex' = file
       ELSE UNCHANGED m_groupsLoaded /\ m_instanceGroupIndex' = groups
    /\ missed' = FALSE

\* A WatchLock drops what the watcher has not delivered yet, or does not.
Watched == \/ UNCHANGED <<noticed, missed>>
           \/ noticed /\ noticed' = FALSE /\ missed' = TRUE

\* The first of the names that is free, and whether there is one within bounds.
Free(names, at) == {k \in DOMAIN names : names[k] \notin Folders(at)}
FirstFree(names, at) ==
    names[CHOOSE k \in Free(names, at) : \A l \in Free(names, at) : k <= l]

-----------------------------------------------------------------------------
(* The launcher starts: Application reads the list.                          *)

Started(at, file) ==
    LET read == file # Absent /\ Folders(at) # {}
    IN  /\ m_instances' = Folders(at)
        /\ m_groupsLoaded' = read
        /\ m_instanceGroupIndex' = IF read THEN file ELSE [i \in Ids |-> Absent]
        /\ m_trashHistory' = << >> /\ task' = NoTask
        /\ noticed' = FALSE /\ missed' = FALSE /\ saved' = m_instances'

Init == \E at \in Before :
          \E file \in {Absent} \union {Listed(g, Ids) : g \in [Ids -> {Group, Absent}]} :
            /\ \A t, u \in Things : at[t] = at[u] /\ at[t] \in Ids => t = u
            /\ file = Absent => FirstRun /\ Folders(at) = {}
            /\ file # Absent => Folders(at) # {} /\ \A i \in Ids \ Folders(at) : file[i] = Absent
            /\ place = at /\ instgroups = file
            /\ m_instances = Folders(at)
            /\ m_groupsLoaded = (file # Absent)
            /\ m_instanceGroupIndex = (IF file # Absent THEN file ELSE [i \in Ids |-> Absent])
            /\ m_trashHistory = << >> /\ task = NoTask
            /\ noticed = FALSE /\ missed = FALSE /\ saved = m_instances
            /\ ops = 0 /\ foreign = 0

\* A crash or an exit, and a new start.  What was staged stays where it is.
Restart ==
    /\ task.phase # "none" \/ m_trashHistory # << >> \/ saved # m_instances \/ missed
    /\ place' = [t \in Things |-> IF place[t] = "staged" THEN "left" ELSE place[t]]
    /\ Started(place', instgroups)
    /\ UNCHANGED <<instgroups, ops, foreign>>

-----------------------------------------------------------------------------
(* The user, while no progress dialog is open.                               *)

Operation == task.phase = "none" /\ ops < MaxOps /\ ops' = ops + 1

SetInstanceGroup(i, g) ==
    /\ Operation /\ i \in m_instances /\ m_instanceGroupIndex[i] # g
    /\ m_instanceGroupIndex' = [m_instanceGroupIndex EXCEPT ![i] = g]
    /\ SaveGroupList(m_instanceGroupIndex', m_instances) /\ Watched
    /\ UNCHANGED <<place, m_instances, m_groupsLoaded, m_trashHistory, task, foreign>>

\* deleteGroup(): the instances of the list that are in the group leave it.
DeleteGroup ==
    LET left == {i \in m_instances : m_instanceGroupIndex[i] = Group}
    IN  /\ Operation /\ left # {}
        /\ m_instanceGroupIndex' =
               [i \in Ids |-> IF i \in left THEN Absent ELSE m_instanceGroupIndex[i]]
        /\ SaveGroupList(m_instanceGroupIndex', m_instances) /\ Watched
        /\ UNCHANGED <<place, m_instances, m_groupsLoaded, m_trashHistory, task, foreign>>

\* on_GroupStateChanged(): the groups are written as they are.
GroupStateChanged ==
    /\ Operation
    /\ SaveGroupList(m_instanceGroupIndex, m_instances) /\ Watched
    /\ UNCHANGED <<place, m_instances, m_instanceGroupIndex, m_groupsLoaded,
                   m_trashHistory, task, foreign>>

\* refreshInstances().
Refresh == /\ Operation
           /\ LoadList(m_instanceGroupIndex, place, instgroups)
           /\ UNCHANGED <<place, noticed, instgroups, saved, m_trashHistory, task, foreign>>

At(i) == {t \in Things : place[t] = i}

\* What trashInstance() and deleteInstance() do to the groups before they touch
\* the folder, and to the watcher after it.  trashInstance() looks the group up
\* with operator[], which makes an entry.
Ungrouped(i, had) ==
    /\ m_instanceGroupIndex' = [m_instanceGroupIndex EXCEPT ![i] = Absent]
    /\ IF had THEN SaveGroupList(m_instanceGroupIndex', m_instances)
              ELSE UNCHANGED <<instgroups, saved>>
    /\ UNCHANGED <<m_instances, m_groupsLoaded, task, foreign>>

TrashInstance(i) ==
    LET g == IF m_instanceGroupIndex[i] = Absent THEN NoGroup ELSE m_instanceGroupIndex[i]
    IN  /\ Operation /\ i \in m_instances
        /\ Ungrouped(i, TRUE)
        /\ \/ \E t \in At(i) :
                /\ place' = [place EXCEPT ![t] = "trash"]
                /\ m_trashHistory' = Append(m_trashHistory, [id |-> i, thing |-> t, group |-> g])
                /\ noticed' = TRUE /\ UNCHANGED missed
           \/ /\ TrashFails \/ At(i) = {}   \* the folder may be gone already
              /\ Watched /\ UNCHANGED <<place, m_trashHistory>>

\* deleteInstance(), after the trash has failed and the user confirmed.
DeleteInstance(i) ==
    /\ TrashFails /\ Operation /\ i \in m_instances
    /\ Ungrouped(i, m_instanceGroupIndex[i] # Absent)
    /\ \/ /\ place' = [t \in Things |-> IF place[t] = i THEN "gone" ELSE place[t]]
          /\ noticed' = TRUE /\ UNCHANGED missed
       \/ place' = place /\ Watched
    /\ UNCHANGED m_trashHistory

\* Faulty variant of UndoTrash: the name is not looked at.
UndoTrashBlindly ==
    LET top == m_trashHistory[Len(m_trashHistory)]
        groups == [m_instanceGroupIndex EXCEPT ![top.id] = top.group]
    IN  /\ Operation /\ m_trashHistory # << >>
        /\ m_trashHistory' = SubSeq(m_trashHistory, 1, Len(m_trashHistory) - 1)
        /\ place' = [place EXCEPT ![top.thing] = IF @ = "trash" THEN top.id ELSE @]
        /\ SaveGroupList(groups, m_instances)
        /\ noticed' \in BOOLEAN /\ LoadList(groups, place', instgroups')
        /\ UNCHANGED <<task, foreign>>

\* undoTrashInstance(): under a free name the thing returns from the trash, if it
\* is still there.  The groups are saved before the list is read, and with a list
\* that has not got the instance.
UndoTrash ==
    LET top == m_trashHistory[Len(m_trashHistory)]
        names == Restored[top.id]
        id == FirstFree(names, place)
        groups == [m_instanceGroupIndex EXCEPT ![id] = top.group]
    IN  /\ Operation /\ m_trashHistory # << >> /\ Free(names, place) # {}
        /\ m_trashHistory' = SubSeq(m_trashHistory, 1, Len(m_trashHistory) - 1)
        /\ place' = [place EXCEPT ![top.thing] = IF @ = "trash" THEN id ELSE @]
        /\ SaveGroupList(groups, m_instances)
        /\ noticed' \in BOOLEAN /\ LoadList(groups, place', instgroups')
        /\ UNCHANGED <<task, foreign>>

-----------------------------------------------------------------------------
(* The staging of a new instance.                                            *)

\* wrapInstanceTask() and start(): copy, vanilla instance, import of a pack.
StartTask(t, g) ==
    /\ Operation /\ place[t] = "unborn"
    /\ place' = [place EXCEPT ![t] = "staged"]
    /\ task' = [phase |-> "child", thing |-> t, group |-> g, tries |-> 0,
                timer |-> FALSE, report |-> "none"]
    /\ UNCHANGED <<listVars, groupVars, m_trashHistory, foreign>>

\* The name a commit uses is the first free one, found before the watcher is
\* locked; the staging folder has to be there.
Target == FirstFree(Fresh, place)

\* Faulty variant of Rename: the groups are saved before the list is read.
RenameSavingFirst ==
    LET groups == [m_instanceGroupIndex EXCEPT ![Target] = task.group]
    IN  /\ place[task.thing] = "staged" /\ Free(Fresh, place) # {}
        /\ place' = [place EXCEPT ![task.thing] = Target]
        /\ SaveGroupList(groups, m_instances)
        /\ LoadList(groups, place', instgroups)
        /\ noticed' \in {noticed, FALSE}
\* commitStagedInstance() of a new instance that can be moved.
Rename ==
    LET groups == [m_instanceGroupIndex EXCEPT ![Target] = task.group]
    IN  /\ place[task.thing] = "staged" /\ Free(Fresh, place) # {}
        /\ place' = [place EXCEPT ![task.thing] = Target]
        /\ LoadList(groups, place', instgroups)
        /\ SaveGroupList(m_instanceGroupIndex', m_instances')
        /\ noticed' \in {noticed, FALSE}

\* commitStagedInstance() of an update: the staged files are copied over those of
\* an instance, the staging folder stays.
Merge(i) ==
    /\ place[task.thing] = "staged" /\ i \in Folders(place)
    /\ place' = [place EXCEPT ![task.thing] = "left"]
    /\ LoadList(m_instanceGroupIndex, place', instgroups)
    /\ SaveGroupList(m_instanceGroupIndex', m_instances')
    /\ noticed' \in {noticed, FALSE}

Commit == Rename \/ \E i \in m_instances : Merge(i)

\* A commit that fails: something blocks the folder, or it is not there.
CommitFails ==
    Watched /\ UNCHANGED <<place, m_instances, groupVars>>

\* Faulty variant of ChildSucceeded: a failed commit waits for ever.
ChildSucceededPatiently ==
    \/ /\ Commit
       /\ task' = [task EXCEPT !.phase = "ended", !.report = "Succeeded"]
    \/ /\ CommitFails
       /\ task' = [task EXCEPT !.phase = "retry", !.timer = TRUE,
                               !.tries = IF @ = Limit THEN 1 ELSE @ + 1]

\* childSucceded(), called by the child and by every tick of the timer.
ChildSucceeded ==
    \/ /\ Commit
       /\ task' = [task EXCEPT !.phase = "ended", !.report = "Succeeded"]
    \/ /\ CommitFails
       /\ IF task.tries + 1 = Limit
          THEN task' = [task EXCEPT !.phase = "ended", !.report = "Failed", !.tries = Limit]
          ELSE task' = [task EXCEPT !.phase = "retry", !.timer = TRUE, !.tries = @ + 1]

ChildFailed ==
    /\ place' = [place EXCEPT ![task.thing] = "gone"]   \* destroyStagingPath()
    /\ task' = [task EXCEPT !.phase = "ended", !.report = "Failed"]
    /\ UNCHANGED <<listVars, groupVars>>

ChildEnds == /\ task.phase = "child"
             /\ ChildSucceeded \/ ChildFailed
             /\ UNCHANGED <<m_trashHistory, ops, foreign>>

Tick == /\ task.phase = "retry"
        /\ ChildSucceeded
        /\ UNCHANGED <<m_trashHistory, ops, foreign>>

\* abort(), by the button of the dialog: of the child that works, or, during the
\* retries, of a child that has succeeded and still says it can be aborted.  The
\* staging folder stays, the timer runs on.
Abort == /\ task.phase \in {"child", "retry"}
         /\ task' = [task EXCEPT !.phase = "ended", !.report = "Aborted"]
         /\ UNCHANGED <<place, listVars, groupVars, m_trashHistory, ops, foreign>>

\* The timer repeats and nobody stops it: a tick may come before the object is
\* deleted, and commit what was reported as failed or aborted.
LateTick == /\ task.phase = "ended" /\ task.timer
            /\ Commit \/ CommitFails
            /\ task' = [task EXCEPT !.timer = FALSE]
            /\ UNCHANGED <<m_trashHistory, ops, foreign>>

\* The dialog is closed and the task deleted.
DeleteTask ==
    /\ task.phase = "ended"
    /\ task' = NoTask
    /\ place' = [t \in Things |-> IF place[t] = "staged" THEN "left" ELSE place[t]]
    /\ UNCHANGED <<listVars, groupVars, m_trashHistory, ops, foreign>>

-----------------------------------------------------------------------------
(* Other programs, and the watcher.                                          *)

Foreign == foreign < MaxForeign /\ foreign' = foreign + 1
           /\ noticed' = TRUE /\ UNCHANGED <<missed, m_instances, groupVars, m_trashHistory, task, ops>>

Appears(t, i) == Foreign /\ place[t] = "unborn" /\ i \notin Folders(place)
                 /\ place' = [place EXCEPT ![t] = i]
Disappears(t) == Foreign /\ place[t] \in Ids \union {"trash"}
                 /\ place' = [place EXCEPT ![t] = "gone"]

\* instanceDirContentsChanged(), providerUpdated().
DirectoryChanged ==
    /\ noticed /\ noticed' = FALSE
    /\ LoadList(m_instanceGroupIndex, place, instgroups)
    /\ UNCHANGED <<place, instgroups, saved, m_trashHistory, task, ops, foreign>>

Next == \/ \E i \in Ids, g \in {Group, NoGroup} : SetInstanceGroup(i, g)
        \/ DeleteGroup \/ GroupStateChanged \/ Refresh
        \/ \E i \in Ids : TrashInstance(i) \/ DeleteInstance(i)
        \/ UndoTrash
        \/ \E t \in Things, g \in {Group, NoGroup} : StartTask(t, g)
        \/ ChildEnds \/ Tick \/ Abort \/ LateTick \/ DeleteTask
        \/ \E t \in Things, i \in Ids : Appears(t, i)
        \/ \E t \in Things : Disappears(t)
        \/ DirectoryChanged \/ Restart

Spec == Init /\ [][Next]_vars

\* A child ends some day (that of the import of a pack is in PackInstall.tla),
\* timers run out, and what has ended is deleted.
FairSpec == Spec /\ WF_vars(ChildEnds) /\ WF_vars(Tick) /\ WF_vars(DeleteTask)

-----------------------------------------------------------------------------
(* Correctness.                                                              *)

TypeOK == /\ place \in [Things -> Ids \union Places]
          /\ m_instances \subseteq Ids /\ saved \subseteq Ids
          /\ m_instanceGroupIndex \in [Ids -> Entry]
          /\ instgroups = Absent \/ instgroups \in [Ids -> {Group, Absent}]
          /\ {m_groupsLoaded, noticed, missed} \subseteq BOOLEAN
          /\ task.phase \in {"none", "child", "retry", "ended"}
          /\ task.tries \in 0..Limit

\* No two instances share a folder, whatever was created, restored or put there;
\* what a task stages is not committed twice.
OneHome == \A t, u \in Things : place[t] = place[u] /\ place[t] \in Ids => t = u

\* The list is the folder, unless the watcher has something to say or a WatchLock
\* took it away from it.
ListFollowsFolder == m_instances = Folders(place) \/ noticed \/ missed

\* The file of groups agrees with the index on every instance it was written
\* for.  (undoTrashInstance() writes it before the instance is on the list, so
\* the restored group is lost if the launcher ends before the next save.)
GroupsFollow ==
    instgroups # Absent => \A i \in m_instances \intersect saved :
           m_instanceGroupIndex[i] = Group <=> instgroups[i] = Group

ListSound == TypeOK /\ OneHome /\ ListFollowsFolder /\ GroupsFollow

\* An instance that was created, and reported so, is on the list, and in the group the
\* user chose, on the list and in the file; unless the file of groups exists
\* and was not read yet, which is read over the choice.
CreationLands ==
    [][task.report = "none" /\ task'.report = "Succeeded" =>
         \/ place'[task.thing] = "left"
         \/ LET i == place'[task.thing]
            IN  /\ i \in m_instances'
                /\ m_groupsLoaded \/ instgroups = Absent =>
                     /\ m_instanceGroupIndex'[i] = task.group
                     /\ (instgroups'[i] = Group) <=> (task.group = Group)]_vars

\* A task that was started ends: after five attempts at the latest.
StagingEnds == (task.phase # "none") ~> (task.phase = "none")
=============================================================================
