-------------------------- MODULE InstanceList_proofs --------------------------
(* Theorems about InstanceList for any folders, names and bounds.            *)
EXTENDS InstanceList, TLAPS, WellFoundedInduction, SequenceTheorems

Spots == Ids \union Places
Choice == {Group, NoGroup}
GroupFile == [Ids -> {Group, Absent}]
Trashed == [id : Ids, thing : Things, group : Choice]

\* Every thing is somewhere, and no two share a folder.
Disk == place \in [Things -> Spots] /\ OneHome

Lists == m_instances \subseteq Ids /\ {noticed, missed} \subseteq BOOLEAN /\ ListFollowsFolder

\* The file agrees with the index on all it speaks of, on the list or not.
Groups ==
    /\ m_instanceGroupIndex \in [Ids -> Entry] /\ m_groupsLoaded \in BOOLEAN
    /\ instgroups = Absent \/ instgroups \in GroupFile
    /\ saved \subseteq Ids
    /\ instgroups # Absent =>
         \A i \in saved : m_instanceGroupIndex[i] = Group <=> instgroups[i] = Group

Trash == m_trashHistory \in Seq(Trashed)

\* The folder of a child that works is there; a commit was tried during the retries.
Staging ==
    /\ task \in [phase : {"none", "child", "retry", "ended"}, thing : Things \union {Absent},
                 group : Entry, tries : 0..Limit, timer : BOOLEAN,
                 report : {"none", "Succeeded", "Failed", "Aborted"}]
    /\ task.phase # "none" => task.thing \in Things /\ task.group \in Choice
    /\ task.phase = "child" => task.tries = 0 /\ place[task.thing] = "staged"
    /\ task.phase = "retry" => task.tries \in 1..(Limit - 1)

IInv == Disk /\ Lists /\ Groups /\ Trash /\ Staging

-----------------------------------------------------------------------------
(* What the helpers return.                                                  *)

\* The first free name is a name, and free.
LEMMA FirstFreeIsFree ==
    ASSUME NEW names \in Seq(Ids), NEW at, Free(names, at) # {}
    PROVE  FirstFree(names, at) \in Ids \ Folders(at)
<1> DEFINE R == OpToRel(<, Nat)
           T == Free(names, at)
<1>1. T \subseteq Nat /\ T # {}
  BY DEF Free
<1>2. IsWellFoundedOn(R, Nat)
  BY NatLessThanWellFounded
<1>3. PICK k \in T : \A l \in T : ~ (<<l, k>> \in R)
  <2> HIDE DEF R, T
  <2> QED BY <1>1, <1>2, WFMin
<1>4. \A l \in T : k <= l
  <2> HIDE DEF T
  <2>1. k \in Nat /\ \A l \in T : l \in Nat /\ ~ (l < k)
    BY <1>1, <1>3 DEF OpToRel
  <2> QED BY <2>1
<1>5. PICK n \in T : FirstFree(names, at) = names[n]
  BY <1>3, <1>4 DEF FirstFree
<1>6. n \in DOMAIN names /\ names[n] \notin Folders(at)
  BY <1>5 DEF Free
<1> QED BY <1>5, <1>6

\* Moving a thing between places that are no folders leaves the folders alone.
LEMMA FoldersKept ==
    ASSUME NEW at \in [Things -> Spots], NEW t \in Things, at[t] \notin Ids, NEW p \in Places
    PROVE  /\ Folders([at EXCEPT ![t] = p]) = Folders(at)
           /\ [at EXCEPT ![t] = p] \in [Things -> Spots]
<1>1. p \notin Ids /\ p \in Spots
  BY NoConfusion DEF Spots
<1>2. \A u \in Things : [at EXCEPT ![t] = p][u] = IF u = t THEN p ELSE at[u]
  OBVIOUS
<1> QED BY <1>1, <1>2 DEF Folders

\* So does leaving all that is staged behind.
LEMMA FoldersLeft ==
    ASSUME NEW at \in [Things -> Spots],
           NEW after, after = [t \in Things |-> IF at[t] = "staged" THEN "left" ELSE at[t]]
    PROVE  /\ Folders(after) = Folders(at)
           /\ after \in [Things -> Spots]
           /\ \A t \in Things : after[t] \in Ids => after[t] = at[t]
<1>1. "staged" \notin Ids /\ "left" \notin Ids /\ "left" \in Spots
  BY NoConfusion DEF Places, Spots
<1>2. \A t \in Things : after[t] = IF at[t] = "staged" THEN "left" ELSE at[t]
  OBVIOUS
<1> QED BY <1>1, <1>2 DEF Folders

\* What is written agrees with what it was written from.
LEMMA SavedFollows ==
    ASSUME NEW groups \in [Ids -> Entry], NEW ids \in SUBSET Ids
    PROVE  /\ Listed(groups, ids) \in GroupFile
           /\ \A i \in ids : groups[i] = Group <=> Listed(groups, ids)[i] = Group
BY NoConfusion DEF Listed, GroupFile

\* Reading the list leaves the index or puts the file in its place.
LEMMA Loaded ==
    ASSUME NEW groups \in [Ids -> Entry], NEW at, NEW file, file = Absent \/ file \in GroupFile,
           m_groupsLoaded \in BOOLEAN, LoadList(groups, at, file)
    PROVE  /\ m_instances' = Folders(at) /\ m_instances' \subseteq Ids
           /\ missed' = FALSE /\ m_groupsLoaded' \in BOOLEAN
           /\ m_instanceGroupIndex' \in [Ids -> Entry]
           /\ m_instanceGroupIndex' = groups \/ (file # Absent /\ m_instanceGroupIndex' = file)
           /\ m_groupsLoaded \/ file = Absent => m_instanceGroupIndex' = groups
<1>1. GroupFile \subseteq [Ids -> Entry]
  BY DEF GroupFile, Entry
<1>2. Folders(at) \subseteq Ids
  BY DEF Folders
<1>3. CASE ~m_groupsLoaded /\ file # Absent /\ ~(Folders(at) \subseteq m_instances)
  BY <1>1, <1>2, <1>3 DEF LoadList
<1>4. CASE ~(~m_groupsLoaded /\ file # Absent /\ ~(Folders(at) \subseteq m_instances))
  BY <1>2, <1>4 DEF LoadList
<1> QED BY <1>3, <1>4

\* The groups are written as they are.
LEMMA GroupsWritten ==
    ASSUME m_instanceGroupIndex' \in [Ids -> Entry], m_groupsLoaded' \in BOOLEAN,
           NEW ids \in SUBSET Ids, SaveGroupList(m_instanceGroupIndex', ids)
    PROVE  Groups'
BY SavedFollows DEF SaveGroupList, Groups

\* The list is read, the file is not touched.
LEMMA GroupsRead ==
    ASSUME Groups, NEW at, LoadList(m_instanceGroupIndex, at, instgroups),
           UNCHANGED <<instgroups, saved>>
    PROVE  Groups'
<1>1. /\ m_instanceGroupIndex \in [Ids -> Entry] /\ m_groupsLoaded \in BOOLEAN
      /\ instgroups = Absent \/ instgroups \in GroupFile
  BY DEF Groups
<1>2. /\ m_groupsLoaded' \in BOOLEAN /\ m_instanceGroupIndex' \in [Ids -> Entry]
      /\ \/ m_instanceGroupIndex' = m_instanceGroupIndex
         \/ instgroups # Absent /\ m_instanceGroupIndex' = instgroups
  BY <1>1, Loaded
<1> QED BY <1>2 DEF Groups

\* After a read the list is the folder.
LEMMA ListsRead ==
    ASSUME m_instances' = Folders(place'), {noticed', missed'} \subseteq BOOLEAN
    PROVE  Lists'
BY DEF Lists, Folders, ListFollowsFolder

\* What a WatchLock drops is owed to the list.
LEMMA ListsWatched ==
    ASSUME Lists, Watched, m_instances' = m_instances, Folders(place') = Folders(place)
    PROVE  Lists'
BY DEF Lists, Watched, ListFollowsFolder

LEMMA ListsKept ==
    ASSUME Lists, UNCHANGED listVars, Folders(place') = Folders(place)
    PROVE  Lists'
BY DEF Lists, listVars, ListFollowsFolder

\* A pending event of the watcher excuses the list.
LEMMA ListsNoticed ==
    ASSUME Lists, noticed' = TRUE, UNCHANGED <<missed, m_instances>>
    PROVE  Lists'
BY DEF Lists, ListFollowsFolder

LEMMA GroupsKept == ASSUME Groups, UNCHANGED groupVars PROVE Groups'
BY DEF Groups, groupVars

\* A thing moves where no other is, or out of the folders.
LEMMA DiskMoved ==
    ASSUME Disk, NEW t \in Things, NEW p \in Spots, p \notin Folders(place),
           place' = [place EXCEPT ![t] = p]
    PROVE  Disk'
<1>1. \A u \in Things : place'[u] = IF u = t THEN p ELSE place[u]
  BY DEF Disk
<1>2. \A u \in Things : place[u] \in Ids => place[u] # p
  BY DEF Folders
<1>3. place' \in [Things -> Spots]
  BY DEF Disk
<1>4. OneHome'
  BY <1>1, <1>2 DEF Disk, OneHome
<1> QED BY <1>3, <1>4 DEF Disk

\* Things leave the folders.
LEMMA DiskThinned ==
    ASSUME Disk, place' \in [Things -> Spots],
           \A t \in Things : place'[t] \in Ids => place'[t] = place[t]
    PROVE  Disk'
<1>1. OneHome'
  BY DEF Disk, OneHome
<1> QED BY <1>1 DEF Disk

LEMMA NotAFolder == \A p \in Places : p \in Spots /\ \A at : p \notin Folders(at)
BY NoConfusion DEF Folders, Spots

\* What waits for no child does not look at the folders.
LEMMA StagingKept ==
    ASSUME Staging, UNCHANGED task,
           task.phase = "child" => place'[task.thing] = place[task.thing]
    PROVE  Staging'
BY DEF Staging

LEMMA NoStaging == task' = NoTask => Staging'
BY DEF Staging, NoTask, Entry, Limit

-----------------------------------------------------------------------------
(* The commit of a staged instance.                                          *)

\* A new instance gets a folder of its own, and the list and the file know it.
LEMMA RenameLands ==
    ASSUME IInv, task.phase # "none", Rename
    PROVE  /\ Disk' /\ Lists' /\ Groups'
           /\ place'[task.thing] = Target /\ Target \in m_instances' /\ Target \in Ids
           /\ m_groupsLoaded \/ instgroups = Absent =>
                /\ m_instanceGroupIndex'[Target] = task.group
                /\ (instgroups'[Target] = Group) <=> (task.group = Group)
<1> DEFINE groups == [m_instanceGroupIndex EXCEPT ![Target] = task.group]
<1>1. Target \in Ids \ Folders(place)
  <2>1. Fresh \in Seq(Ids)
    BY NamesAssumption
  <2> QED BY <2>1, FirstFreeIsFree DEF Rename, Target
<1>2. task.thing \in Things /\ task.group \in Entry
  BY DEF IInv, Staging, Choice, Entry
<1>3. place \in [Things -> Spots] /\ Target \in Spots
  BY <1>1 DEF IInv, Disk, Spots
<1>4. Disk' /\ place'[task.thing] = Target
  BY <1>1, <1>2, <1>3, DiskMoved DEF Rename, IInv
<1>5. /\ groups \in [Ids -> Entry] /\ groups[Target] = task.group
      /\ m_groupsLoaded \in BOOLEAN
      /\ instgroups = Absent \/ instgroups \in GroupFile
  BY <1>1, <1>2 DEF IInv, Groups
<1>6. /\ m_instances' = Folders(place') /\ m_instances' \subseteq Ids
      /\ missed' = FALSE /\ m_groupsLoaded' \in BOOLEAN
      /\ m_instanceGroupIndex' \in [Ids -> Entry]
      /\ m_groupsLoaded \/ instgroups = Absent => m_instanceGroupIndex' = groups
  <2>1. LoadList(groups, place', instgroups)
    BY DEF Rename
  <2> HIDE DEF groups
  <2> QED BY <1>5, <2>1, Loaded
<1>7. Lists'
  <2>1. noticed' \in BOOLEAN
    BY DEF Rename, IInv, Lists
  <2> QED BY <1>6, <2>1, ListsRead
<1>8. Groups'
  BY <1>6, GroupsWritten DEF Rename
<1>9. Target \in m_instances'
  BY <1>1, <1>2, <1>4, <1>6 DEF Folders
<1>10. instgroups'[Target] = Group <=> m_instanceGroupIndex'[Target] = Group
  <2>1. instgroups' = Listed(m_instanceGroupIndex', m_instances')
    BY DEF Rename, SaveGroupList
  <2> QED BY <1>6, <1>9, <2>1, SavedFollows
<1> QED BY <1>1, <1>4, <1>5, <1>6, <1>7, <1>8, <1>9, <1>10

\* An update is copied into an instance, the staging folder stays behind.
LEMMA MergeKeeps ==
    ASSUME IInv, task.phase # "none", NEW i, Merge(i)
    PROVE  Disk' /\ Lists' /\ Groups' /\ place'[task.thing] = "left"
<1>1. task.thing \in Things /\ place \in [Things -> Spots]
  BY DEF IInv, Staging, Disk
<1>2. "left" \in Places
  BY DEF Places
<1>3. Disk' /\ place'[task.thing] = "left"
  BY <1>1, <1>2, NotAFolder, DiskMoved DEF Merge, IInv
<1>4. LoadList(m_instanceGroupIndex, place', instgroups)
  BY DEF Merge
<1>5. /\ m_instanceGroupIndex \in [Ids -> Entry] /\ m_groupsLoaded \in BOOLEAN
      /\ instgroups = Absent \/ instgroups \in GroupFile
  BY DEF IInv, Groups
<1>6. /\ m_instances' = Folders(place') /\ m_instances' \subseteq Ids /\ missed' = FALSE
      /\ m_groupsLoaded' \in BOOLEAN /\ m_instanceGroupIndex' \in [Ids -> Entry]
  BY <1>4, <1>5, Loaded
<1>7. Lists'
  <2>1. noticed' \in BOOLEAN
    BY DEF Merge, IInv, Lists
  <2> QED BY <1>6, <2>1, ListsRead
<1>8. Groups'
  BY <1>6, GroupsWritten DEF Merge
<1> QED BY <1>3, <1>7, <1>8

LEMMA CommitKeeps ==
    ASSUME IInv, task.phase # "none", Commit
    PROVE  Disk' /\ Lists' /\ Groups'
BY RenameLands, MergeKeeps DEF Commit

LEMMA CommitFailsKeeps ==
    ASSUME IInv, CommitFails
    PROVE  Disk' /\ Lists' /\ Groups'
<1>1. Disk'
  BY DEF CommitFails, IInv, Disk, OneHome
<1>2. Lists'
  BY ListsWatched DEF CommitFails, IInv
<1>3. Groups'
  BY GroupsKept DEF CommitFails, IInv
<1> QED BY <1>1, <1>2, <1>3

\* The task ends, or counts an attempt and waits for the timer.
LEMMA Attempted ==
    ASSUME IInv, task.phase \in {"child", "retry"}, ChildSucceeded
    PROVE  Disk' /\ Lists' /\ Groups' /\ Staging'
<1>1. /\ task.thing \in Things /\ task.group \in Choice
      /\ task.tries \in 0..(Limit - 1)
      /\ task \in [phase : {"none", "child", "retry", "ended"}, thing : Things \union {Absent},
                 group : Entry, tries : 0..Limit, timer : BOOLEAN,
                 report : {"none", "Succeeded", "Failed", "Aborted"}]
  BY DEF IInv, Staging, Limit
<1>2. CASE Commit /\ task' = [task EXCEPT !.phase = "ended", !.report = "Succeeded"]
  <2>1. Staging'
    BY <1>1, <1>2 DEF Staging
  <2> QED BY <1>2, <2>1, CommitKeeps
<1>3. CASE CommitFails /\ task' = [task EXCEPT !.phase = "ended", !.report = "Failed", !.tries = Limit]
  <2>1. /\ task'.phase = "ended" /\ task'.thing = task.thing /\ task'.group = task.group
        /\ Limit \in 0..Limit
    BY <1>1, <1>3 DEF Limit
  <2>2. task' \in [phase : {"none", "child", "retry", "ended"}, thing : Things \union {Absent},
                 group : Entry, tries : 0..Limit, timer : BOOLEAN,
                 report : {"none", "Succeeded", "Failed", "Aborted"}]
    BY <1>1, <1>3, <2>1
  <2>3. Staging'
    BY <1>1, <2>1, <2>2 DEF Staging
  <2> QED BY <1>3, <2>3, CommitFailsKeeps
<1>4. CASE /\ CommitFails /\ task.tries + 1 # Limit
           /\ task' = [task EXCEPT !.phase = "retry", !.timer = TRUE, !.tries = @ + 1]
  <2>1. task.tries + 1 \in 1..(Limit - 1)
    BY <1>1, <1>4 DEF Limit
  <2>2. /\ task'.phase = "retry" /\ task'.thing = task.thing /\ task'.group = task.group
        /\ task'.tries = task.tries + 1
    BY <1>1, <1>4
  <2>3. 1..(Limit - 1) \subseteq 0..Limit
    BY DEF Limit
  <2>4. task' \in [phase : {"none", "child", "retry", "ended"}, thing : Things \union {Absent},
                 group : Entry, tries : 0..Limit, timer : BOOLEAN,
                 report : {"none", "Succeeded", "Failed", "Aborted"}]
    BY <1>1, <1>4, <2>1, <2>3
  <2>5. Staging'
    BY <1>1, <2>1, <2>2, <2>4 DEF Staging
  <2> QED BY <1>4, <2>5, CommitFailsKeeps
<1> QED BY <1>2, <1>3, <1>4 DEF ChildSucceeded

-----------------------------------------------------------------------------
(* The trash.                                                                *)

\* What comes back gets a free folder, and is on the list at once.
LEMMA UndoKeeps ==
    ASSUME IInv, UndoTrash
    PROVE  IInv'
<1> DEFINE top == m_trashHistory[Len(m_trashHistory)]
           id == FirstFree(Restored[top.id], place)
           groups == [m_instanceGroupIndex EXCEPT ![id] = top.group]
<1>1. /\ m_trashHistory \in Seq(Trashed) /\ m_trashHistory # << >>
      /\ task.phase = "none" /\ Free(Restored[top.id], place) # {}
  BY DEF UndoTrash, Operation, IInv, Trash
<1>2. top \in Trashed
  BY <1>1
<1>3. top.id \in Ids /\ top.thing \in Things /\ top.group \in Entry
  BY <1>2 DEF Trashed, Choice, Entry
<1>4. id \in Ids \ Folders(place)
  <2>1. Restored[top.id] \in Seq(Ids)
    BY <1>3, NamesAssumption
  <2> QED BY <1>1, <2>1, FirstFreeIsFree
<1>5. Trash'
  <2>1. m_trashHistory' = SubSeq(m_trashHistory, 1, Len(m_trashHistory) - 1)
    BY DEF UndoTrash
  <2>2. Len(m_trashHistory) \in Nat /\ Len(m_trashHistory) >= 1
    BY <1>1
  <2> QED BY <1>1, <2>1, <2>2, SubSeqProperties DEF Trash
<1>6. Disk'
  <2>1. place' = [place EXCEPT ![top.thing] = IF place[top.thing] = "trash" THEN id ELSE place[top.thing]]
    BY DEF UndoTrash
  <2>2. CASE place[top.thing] = "trash"
    BY <1>3, <1>4, <2>1, <2>2, DiskMoved DEF IInv, Spots
  <2>3. CASE place[top.thing] # "trash"
    <3>1. place' = place
      BY <1>3, <2>1, <2>3 DEF IInv, Disk
    <3> QED BY <3>1 DEF IInv, Disk, OneHome
  <2> QED BY <2>2, <2>3
<1>7. /\ groups \in [Ids -> Entry] /\ m_groupsLoaded \in BOOLEAN
      /\ m_instances \subseteq Ids
  BY <1>3, <1>4 DEF IInv, Groups, Lists
<1>8. /\ instgroups' = Listed(groups, m_instances) /\ saved' = m_instances
      /\ LoadList(groups, place', instgroups') /\ noticed' \in BOOLEAN
  BY DEF UndoTrash, SaveGroupList
<1> HIDE DEF id, top, groups
<1>9. /\ instgroups' \in GroupFile
      /\ \A i \in m_instances : groups[i] = Group <=> instgroups'[i] = Group
  BY <1>7, <1>8, SavedFollows
<1>10. /\ m_instances' = Folders(place') /\ missed' = FALSE
       /\ m_groupsLoaded' \in BOOLEAN /\ m_instanceGroupIndex' \in [Ids -> Entry]
       /\ m_instanceGroupIndex' = groups \/ m_instanceGroupIndex' = instgroups'
  BY <1>7, <1>8, <1>9, Loaded
<1>11. Lists'
  BY <1>8, <1>10, ListsRead
<1>12. Groups'
  BY <1>7, <1>8, <1>9, <1>10 DEF Groups
<1>13. Staging'
  BY <1>1, StagingKept DEF UndoTrash, IInv
<1> QED BY <1>5, <1>6, <1>11, <1>12, <1>13 DEF IInv

\* Trashing and deleting take the group before they touch the folder.
LEMMA UngroupedKeeps ==
    ASSUME IInv, NEW i \in Ids, NEW had \in BOOLEAN, Ungrouped(i, had),
           ~had => m_instanceGroupIndex[i] = Absent
    PROVE  Groups'
<1>1. /\ m_instanceGroupIndex' = [m_instanceGroupIndex EXCEPT ![i] = Absent]
      /\ m_groupsLoaded' = m_groupsLoaded
  BY DEF Ungrouped
<1>2. m_instanceGroupIndex' \in [Ids -> Entry] /\ m_groupsLoaded' \in BOOLEAN
  BY <1>1 DEF IInv, Groups, Entry
<1>3. CASE had
  <2>1. m_instances \in SUBSET Ids /\ SaveGroupList(m_instanceGroupIndex', m_instances)
    BY <1>3 DEF Ungrouped, IInv, Lists
  <2> QED BY <1>2, <2>1, GroupsWritten
<1>4. CASE ~had
  <2>1. m_instanceGroupIndex' = m_instanceGroupIndex
    BY <1>1, <1>4 DEF IInv, Groups
  <2>2. UNCHANGED <<instgroups, saved>>
    BY <1>4 DEF Ungrouped
  <2> QED BY <1>2, <2>1, <2>2 DEF IInv, Groups
<1> QED BY <1>3, <1>4

LEMMA TrashKeeps ==
    ASSUME IInv, NEW i \in Ids, TrashInstance(i)
    PROVE  IInv'
<1> DEFINE g == IF m_instanceGroupIndex[i] = Absent THEN NoGroup ELSE m_instanceGroupIndex[i]
<1>1. Ungrouped(i, TRUE) /\ task.phase = "none" /\ task' = task /\ m_instances' = m_instances
  BY DEF TrashInstance, Operation, Ungrouped
<1>2. g \in Choice
  BY DEF IInv, Groups, Entry, Choice
<1>3. Groups'
  BY <1>1, UngroupedKeeps
<1>4. Staging'
  BY <1>1, StagingKept DEF IInv
<1>5. CASE \E t \in At(i) :
             /\ place' = [place EXCEPT ![t] = "trash"]
             /\ m_trashHistory' = Append(m_trashHistory, [id |-> i, thing |-> t, group |-> g])
             /\ noticed' = TRUE /\ UNCHANGED missed
  <2>1. PICK t \in At(i) :
             /\ place' = [place EXCEPT ![t] = "trash"]
             /\ m_trashHistory' = Append(m_trashHistory, [id |-> i, thing |-> t, group |-> g])
             /\ noticed' = TRUE /\ UNCHANGED missed
    BY <1>5
  <2>2. t \in Things /\ "trash" \in Places
    BY DEF At, Places
  <2>3. Disk'
    BY <2>1, <2>2, NotAFolder, DiskMoved DEF IInv
  <2>4. Lists'
    BY <1>1, <2>1, ListsNoticed DEF IInv
  <2>5. [id |-> i, thing |-> t, group |-> g] \in Trashed
    BY <1>2, <2>2 DEF Trashed
  <2>6. Trash'
    BY <2>1, <2>5 DEF IInv, Trash
  <2> QED BY <1>3, <1>4, <2>3, <2>4, <2>6 DEF IInv
<1>6. CASE Watched /\ UNCHANGED <<place, m_trashHistory>>
  <2>1. Disk' /\ Trash'
    BY <1>6 DEF IInv, Disk, OneHome, Trash
  <2>2. Lists'
    BY <1>1, <1>6, ListsWatched DEF IInv
  <2> QED BY <1>3, <1>4, <2>1, <2>2 DEF IInv
<1> QED BY <1>5, <1>6 DEF TrashInstance

LEMMA DeleteKeeps ==
    ASSUME IInv, NEW i \in Ids, DeleteInstance(i)
    PROVE  IInv'
<1>1. /\ Ungrouped(i, m_instanceGroupIndex[i] # Absent)
      /\ task.phase = "none" /\ task' = task /\ m_instances' = m_instances
      /\ m_trashHistory' = m_trashHistory
  BY DEF DeleteInstance, Operation, Ungrouped
<1>2. Groups'
  BY <1>1, UngroupedKeeps
<1>3. Staging' /\ Trash'
  BY <1>1, StagingKept DEF IInv, Trash
<1>4. CASE /\ place' = [t \in Things |-> IF place[t] = i THEN "gone" ELSE place[t]]
           /\ noticed' = TRUE /\ UNCHANGED missed
  <2>1. "gone" \in Spots /\ "gone" \notin Ids
    BY NoConfusion DEF Places, Spots
  <2>2. Disk'
    BY <1>4, <2>1, DiskThinned DEF IInv, Disk
  <2>3. Lists'
    BY <1>1, <1>4, ListsNoticed DEF IInv
  <2> QED BY <1>2, <1>3, <2>2, <2>3 DEF IInv
<1>5. CASE place' = place /\ Watched
  <2>1. Disk'
    BY <1>5 DEF IInv, Disk, OneHome
  <2>2. Lists'
    BY <1>1, <1>5, ListsWatched DEF IInv
  <2> QED BY <1>2, <1>3, <2>1, <2>2 DEF IInv
<1> QED BY <1>4, <1>5 DEF DeleteInstance

-----------------------------------------------------------------------------
(* The other operations of the user.                                         *)

\* Operations on the groups write them as they are afterwards.
LEMMA RegroupKeeps ==
    ASSUME IInv, task.phase = "none", m_instanceGroupIndex' \in [Ids -> Entry],
           SaveGroupList(m_instanceGroupIndex', m_instances), Watched,
           UNCHANGED <<place, m_instances, m_groupsLoaded, m_trashHistory, task>>
    PROVE  IInv'
<1>1. Disk' /\ Trash'
  BY DEF IInv, Disk, OneHome, Trash
<1>2. Lists'
  BY ListsWatched DEF IInv
<1>3. Groups'
  <2>1. m_groupsLoaded' \in BOOLEAN /\ m_instances \in SUBSET Ids
    BY DEF IInv, Groups, Lists
  <2> QED BY <2>1, GroupsWritten
<1>4. Staging'
  BY StagingKept DEF IInv
<1> QED BY <1>1, <1>2, <1>3, <1>4 DEF IInv

\* The list is read at the user's word or the watcher's.
LEMMA ReadKeeps ==
    ASSUME IInv, LoadList(m_instanceGroupIndex, place, instgroups), noticed' \in BOOLEAN,
           UNCHANGED <<place, instgroups, saved, m_trashHistory, task>>
    PROVE  IInv'
<1>1. Disk' /\ Trash'
  BY DEF IInv, Disk, OneHome, Trash
<1>2. Groups'
  BY GroupsRead DEF IInv
<1>3. Lists'
  <2>1. m_instances' = Folders(place') /\ missed' = FALSE
    BY DEF LoadList
  <2> QED BY <2>1, ListsRead
<1>4. Staging'
  BY StagingKept DEF IInv
<1> QED BY <1>1, <1>2, <1>3, <1>4 DEF IInv

LEMMA StartKeeps ==
    ASSUME IInv, NEW t \in Things, NEW g \in Choice, StartTask(t, g)
    PROVE  IInv'
<1>1. /\ place[t] = "unborn" /\ place' = [place EXCEPT ![t] = "staged"]
      /\ UNCHANGED listVars /\ UNCHANGED groupVars /\ m_trashHistory' = m_trashHistory
      /\ task' = [phase |-> "child", thing |-> t, group |-> g, tries |-> 0,
                  timer |-> FALSE, report |-> "none"]
  BY DEF StartTask
<1>2. /\ place[t] \notin Ids /\ "staged" \in Places /\ place \in [Things -> Spots]
  BY <1>1, NoConfusion DEF Places, IInv, Disk
<1>3. Disk'
  BY <1>1, <1>2, NotAFolder, DiskMoved DEF IInv
<1>4. Lists' /\ Groups' /\ Trash'
  BY <1>1, <1>2, FoldersKept, ListsKept, GroupsKept DEF IInv, Trash
<1>5. Staging'
  <2>1. place'[t] = "staged"
    BY <1>1, <1>2
  <2>2. g \in Entry /\ 0 \in 0..Limit
    BY DEF Entry, Choice, Limit
  <2>3. task' \in [phase : {"none", "child", "retry", "ended"}, thing : Things \union {Absent},
                 group : Entry, tries : 0..Limit, timer : BOOLEAN,
                 report : {"none", "Succeeded", "Failed", "Aborted"}]
    BY <1>1, <2>2
  <2>4. task'.phase = "child" /\ task'.thing = t /\ task'.group = g /\ task'.tries = 0
    BY <1>1
  <2> QED BY <2>1, <2>3, <2>4 DEF Staging
<1> QED BY <1>3, <1>4, <1>5 DEF IInv

-----------------------------------------------------------------------------
(* The end of a staging.                                                     *)

LEMMA ChildEndsKeeps == ASSUME IInv, ChildEnds PROVE IInv'
<1>1. task.phase = "child" /\ Trash'
  BY DEF ChildEnds, IInv, Trash
<1>2. CASE ChildSucceeded
  BY <1>1, <1>2, Attempted DEF IInv
<1>3. CASE ChildFailed
  <2>1. /\ place' = [place EXCEPT ![task.thing] = "gone"]
        /\ task' = [task EXCEPT !.phase = "ended", !.report = "Failed"]
        /\ UNCHANGED listVars /\ UNCHANGED groupVars
    BY <1>3 DEF ChildFailed
  <2>2. /\ task.thing \in Things /\ task.group \in Choice /\ place[task.thing] \notin Ids
        /\ "gone" \in Places /\ place \in [Things -> Spots]
    BY <1>1, NoConfusion DEF IInv, Staging, Disk, Places
  <2>3. Disk'
    BY <2>1, <2>2, NotAFolder, DiskMoved DEF IInv
  <2>4. Lists' /\ Groups'
    BY <2>1, <2>2, FoldersKept, ListsKept, GroupsKept DEF IInv
  <2>5. Staging'
    BY <2>1, <2>2 DEF IInv, Staging
  <2> QED BY <1>1, <2>3, <2>4, <2>5 DEF IInv
<1> QED BY <1>2, <1>3 DEF ChildEnds

LEMMA TickKeeps == ASSUME IInv, Tick PROVE IInv'
<1>1. task.phase = "retry" /\ ChildSucceeded /\ Trash'
  BY DEF Tick, IInv, Trash
<1> QED BY <1>1, Attempted DEF IInv

LEMMA AbortKeeps == ASSUME IInv, Abort PROVE IInv'
<1>1. /\ place' = place /\ UNCHANGED listVars /\ UNCHANGED groupVars
      /\ m_trashHistory' = m_trashHistory
      /\ task' = [task EXCEPT !.phase = "ended", !.report = "Aborted"]
      /\ task.phase # "none"
  BY DEF Abort
<1>2. Disk' /\ Lists' /\ Groups' /\ Trash'
  BY <1>1, ListsKept, GroupsKept DEF IInv, Disk, OneHome, Trash
<1>3. Staging'
  BY <1>1 DEF IInv, Staging
<1> QED BY <1>2, <1>3 DEF IInv

LEMMA LateTickKeeps == ASSUME IInv, LateTick PROVE IInv'
<1>1. /\ task.phase = "ended" /\ task' = [task EXCEPT !.timer = FALSE]
      /\ m_trashHistory' = m_trashHistory /\ (Commit \/ CommitFails)
  BY DEF LateTick
<1>2. Disk' /\ Lists' /\ Groups' /\ Trash'
  BY <1>1, CommitKeeps, CommitFailsKeeps DEF IInv, Trash
<1>3. Staging'
  BY <1>1 DEF IInv, Staging
<1> QED BY <1>2, <1>3 DEF IInv

LEMMA DeleteTaskKeeps == ASSUME IInv, DeleteTask PROVE IInv'
<1>1. /\ task' = NoTask /\ UNCHANGED listVars /\ UNCHANGED groupVars
      /\ m_trashHistory' = m_trashHistory
      /\ place' = [t \in Things |-> IF place[t] = "staged" THEN "left" ELSE place[t]]
  BY DEF DeleteTask
<1>2. /\ Folders(place') = Folders(place) /\ place' \in [Things -> Spots]
      /\ \A t \in Things : place'[t] \in Ids => place'[t] = place[t]
  <2>1. place \in [Things -> Spots]
    BY DEF IInv, Disk
  <2> QED BY <1>1, <2>1, FoldersLeft
<1>3. Disk' /\ Lists' /\ Groups' /\ Trash'
  BY <1>1, <1>2, DiskThinned, ListsKept, GroupsKept DEF IInv, Trash
<1> QED BY <1>1, <1>3, NoStaging DEF IInv

\* A new launcher reads the list and, if there is an instance, the groups.
LEMMA RestartKeeps == ASSUME IInv, Restart PROVE IInv'
<1>1. /\ place' = [t \in Things |-> IF place[t] = "staged" THEN "left" ELSE place[t]]
      /\ Started(place', instgroups) /\ instgroups' = instgroups
  BY DEF Restart
<1>2. /\ place' \in [Things -> Spots]
      /\ \A t \in Things : place'[t] \in Ids => place'[t] = place[t]
  <2>1. place \in [Things -> Spots]
    BY DEF IInv, Disk
  <2> QED BY <1>1, <2>1, FoldersLeft
<1>3. /\ m_instances' = Folders(place') /\ saved' = Folders(place')
      /\ m_trashHistory' = << >> /\ task' = NoTask /\ noticed' = FALSE /\ missed' = FALSE
      /\ m_groupsLoaded' = (instgroups # Absent /\ Folders(place') # {})
  BY <1>1 DEF Started
<1>4. m_instanceGroupIndex' = IF instgroups # Absent /\ Folders(place') # {} THEN instgroups
                              ELSE [i \in Ids |-> Absent]
  BY <1>1 DEF Started
<1>5. Disk' /\ Lists' /\ Trash' /\ Staging'
  <2>1. Disk'
    BY <1>2, DiskThinned DEF IInv
  <2>2. Lists'
    BY <1>3, ListsRead
  <2>3. Trash'
    BY <1>3 DEF Trash
  <2> QED BY <1>3, <2>1, <2>2, <2>3, NoStaging
<1>6. Groups'
  <2>1. instgroups = Absent \/ instgroups \in GroupFile
    BY DEF IInv, Groups
  <2>2. m_instanceGroupIndex' \in [Ids -> Entry]
    BY <1>4, <2>1 DEF GroupFile, Entry
  <2>3. m_groupsLoaded' \in BOOLEAN /\ saved' \subseteq Ids
    BY <1>3 DEF Folders
  <2>4. instgroups' # Absent =>
          \A i \in saved' : m_instanceGroupIndex'[i] = Group <=> instgroups'[i] = Group
    BY <1>1, <1>3, <1>4
  <2> QED BY <1>1, <2>1, <2>2, <2>3, <2>4 DEF Groups
<1> QED BY <1>5, <1>6 DEF IInv

-----------------------------------------------------------------------------
(* Other programs.                                                           *)

LEMMA ForeignKeeps ==
    ASSUME IInv, Foreign, NEW t \in Things, NEW p \in Spots, p \notin Folders(place),
           place[t] # "staged", place' = [place EXCEPT ![t] = p]
    PROVE  IInv'
<1>1. /\ noticed' = TRUE /\ UNCHANGED <<missed, m_instances>> /\ UNCHANGED groupVars
      /\ m_trashHistory' = m_trashHistory /\ task' = task
  BY DEF Foreign
<1>2. Disk' /\ Lists' /\ Groups' /\ Trash'
  BY <1>1, DiskMoved, ListsNoticed, GroupsKept DEF IInv, Trash
<1>3. task.phase = "child" => place'[task.thing] = place[task.thing]
  BY DEF IInv, Staging, Disk
<1>4. Staging'
  BY <1>1, <1>3, StagingKept DEF IInv
<1> QED BY <1>2, <1>4 DEF IInv

-----------------------------------------------------------------------------
(* The invariant is inductive.                                               *)

LEMMA InitInv == Init => IInv
<1> SUFFICES ASSUME Init PROVE IInv
  OBVIOUS
<1>1. /\ place \in Before /\ OneHome
      /\ m_instances = Folders(place) /\ saved = m_instances
      /\ m_trashHistory = << >> /\ task = NoTask /\ noticed = FALSE /\ missed = FALSE
      /\ m_groupsLoaded = (instgroups # Absent)
      /\ m_instanceGroupIndex =
           (IF instgroups # Absent THEN instgroups ELSE [i \in Ids |-> Absent])
  BY DEF Init, OneHome
<1>2. instgroups = Absent \/ instgroups \in GroupFile
  BY DEF Init, Listed, GroupFile
<1>3. Disk
  <2>1. place \in [Things -> Ids \union {"unborn"}]
    BY <1>1, InstanceBounds
  <2>2. Ids \union {"unborn"} \subseteq Spots
    BY DEF Spots, Places
  <2> QED BY <1>1, <2>1, <2>2 DEF Disk
<1>4. Lists
  BY <1>1 DEF Lists, Folders, ListFollowsFolder
<1>5. Groups
  <2>1. m_instanceGroupIndex \in [Ids -> Entry]
    BY <1>1, <1>2 DEF GroupFile, Entry
  <2>2. m_groupsLoaded \in BOOLEAN /\ saved \subseteq Ids
    BY <1>1 DEF Folders
  <2> QED BY <1>1, <1>2, <2>1, <2>2 DEF Groups
<1>6. Trash
  BY <1>1 DEF Trash
<1>7. Staging
  BY <1>1 DEF Staging, NoTask, Entry, Limit
<1> QED BY <1>3, <1>4, <1>5, <1>6, <1>7 DEF IInv

LEMMA StepInv == IInv /\ [Next]_vars => IInv'
<1> SUFFICES ASSUME IInv, [Next]_vars PROVE IInv'
  OBVIOUS
<1>1. CASE UNCHANGED vars
  <2>1. /\ place' = place /\ task' = task /\ m_trashHistory' = m_trashHistory
        /\ UNCHANGED listVars /\ UNCHANGED groupVars
    BY <1>1 DEF vars
  <2>2. Disk' /\ Lists' /\ Groups' /\ Trash' /\ Staging'
    BY <2>1, ListsKept, GroupsKept, StagingKept DEF IInv, Disk, OneHome, Trash
  <2> QED BY <2>2 DEF IInv
<1>2. ASSUME NEW i \in Ids, NEW g \in Choice, SetInstanceGroup(i, g) PROVE IInv'
  <2>1. m_instanceGroupIndex' \in [Ids -> Entry]
    BY <1>2 DEF SetInstanceGroup, IInv, Groups, Entry, Choice
  <2> QED BY <1>2, <2>1, RegroupKeeps DEF SetInstanceGroup, Operation
<1>3. CASE DeleteGroup
  <2>1. m_instanceGroupIndex' \in [Ids -> Entry]
    BY <1>3 DEF DeleteGroup, IInv, Groups, Entry
  <2> QED BY <1>3, <2>1, RegroupKeeps DEF DeleteGroup, Operation
<1>4. CASE GroupStateChanged
  <2>1. m_instanceGroupIndex' = m_instanceGroupIndex
    BY <1>4 DEF GroupStateChanged
  <2>2. m_instanceGroupIndex' \in [Ids -> Entry]
    BY <2>1 DEF IInv, Groups
  <2> QED BY <1>4, <2>1, <2>2, RegroupKeeps DEF GroupStateChanged, Operation
<1>5. CASE Refresh
  <2>1. noticed' \in BOOLEAN
    BY <1>5 DEF Refresh, IInv, Lists
  <2> QED BY <1>5, <2>1, ReadKeeps DEF Refresh
<1>6. CASE DirectoryChanged
  <2>1. noticed' \in BOOLEAN
    BY <1>6 DEF DirectoryChanged
  <2> QED BY <1>6, <2>1, ReadKeeps DEF DirectoryChanged
<1>7. ASSUME NEW t \in Things, NEW i \in Ids, Appears(t, i) PROVE IInv'
  <2>1. /\ place[t] = "unborn" /\ i \notin Folders(place) /\ i \in Spots
        /\ place' = [place EXCEPT ![t] = i] /\ Foreign
    BY <1>7 DEF Appears, Spots
  <2> QED BY <2>1, ForeignKeeps
<1>8. ASSUME NEW t \in Things, Disappears(t) PROVE IInv'
  <2>1. /\ place[t] # "staged" /\ "gone" \in Places
        /\ place' = [place EXCEPT ![t] = "gone"] /\ Foreign
    BY <1>8, NoConfusion DEF Disappears, Places
  <2> QED BY <2>1, NotAFolder, ForeignKeeps
<1> QED BY <1>1, <1>2, <1>3, <1>4, <1>5, <1>6, <1>7, <1>8, TrashKeeps, DeleteKeeps, UndoKeeps,
           StartKeeps, ChildEndsKeeps, TickKeeps, AbortKeeps, LateTickKeeps, DeleteTaskKeeps,
           RestartKeeps DEF Next, Choice

LEMMA AlwaysInv == Spec => []IInv
BY InitInv, StepInv, PTL DEF Spec

-----------------------------------------------------------------------------
\* No two instances ever share a folder, the list is the folder unless the watcher
\* owes it an event, and instgroups.json agrees with the groups of the list
\* (InstanceList.cpp: loadList(), saveGroupList(), commitStagedInstance()).
THEOREM ListStaysSound == Spec => []ListSound
<1>1. IInv => ListSound
  <2> SUFFICES ASSUME IInv PROVE ListSound
    OBVIOUS
  <2>1. TypeOK
    BY DEF IInv, Disk, Lists, Groups, Staging, Spots, GroupFile, TypeOK
  <2>2. GroupsFollow
    BY DEF IInv, Groups, GroupsFollow
  <2> QED BY <2>1, <2>2 DEF IInv, Disk, Lists, ListSound
<1> QED BY <1>1, AlwaysInv, PTL

\* A creation that reports success has put the instance on the list and into its
\* group (InstanceStaging::childSucceded()).
THEOREM CreationIsListed == Spec => CreationLands
<1> DEFINE Landed ==
      \/ place'[task.thing] = "left"
      \/ LET i == place'[task.thing]
         IN  /\ i \in m_instances'
             /\ m_groupsLoaded \/ instgroups = Absent =>
                  /\ m_instanceGroupIndex'[i] = task.group
                  /\ (instgroups'[i] = Group) <=> (task.group = Group)
<1>1. ASSUME IInv, Commit, task.phase # "none" PROVE Landed
  BY <1>1, RenameLands, MergeKeeps DEF Commit
<1>2. ASSUME IInv, [Next]_vars, task.report = "none", task'.report = "Succeeded"
      PROVE  Landed
  <2>1. task' # task
    BY <1>2
  <2>2. CASE ChildEnds \/ Tick
    <3>1. task.phase # "none" /\ (ChildSucceeded \/ ChildFailed)
      BY <2>2 DEF ChildEnds, Tick
    <3>2. CASE ChildFailed
      <4>1. task'.report = "Failed"
        BY <1>2, <3>2 DEF ChildFailed, IInv, Staging
      <4> QED BY <1>2, <4>1
    <3>3. CASE ChildSucceeded
      <4>1. Commit \/ task'.report \in {"Failed", task.report}
        BY <1>2, <3>3 DEF ChildSucceeded, IInv, Staging
      <4> QED BY <1>1, <1>2, <3>1, <4>1
    <3> QED BY <3>1, <3>2, <3>3
  <2>3. CASE Abort \/ LateTick
    <3>1. task'.report \in {"Aborted", task.report}
      BY <1>2, <2>3 DEF Abort, LateTick, IInv, Staging
    <3> QED BY <1>2, <3>1
  <2>4. CASE DeleteTask \/ Restart
    <3>1. task' = NoTask
      BY <2>4 DEF DeleteTask, Restart, Started
    <3> QED BY <1>2, <3>1 DEF NoTask
  <2>5. ASSUME NEW t \in Things, NEW g \in Choice, StartTask(t, g) PROVE Landed
    <3>1. task'.report = "none"
      BY <2>5 DEF StartTask
    <3> QED BY <1>2, <3>1
  <2>6. ChildEnds \/ Tick \/ Abort \/ LateTick \/ DeleteTask \/ Restart
        \/ \E t \in Things, g \in Choice : StartTask(t, g)
    BY <1>2, <2>1 DEF Next, Choice, vars, SetInstanceGroup, DeleteGroup, GroupStateChanged,
       Refresh, TrashInstance, DeleteInstance, Ungrouped, UndoTrash, Appears, Disappears,
       Foreign, DirectoryChanged
  <2> QED BY <2>2, <2>3, <2>4, <2>5, <2>6
<1>3. IInv /\ [Next]_vars =>
        [task.report = "none" /\ task'.report = "Succeeded" => Landed]_vars
  BY <1>2
<1> QED BY <1>3, AlwaysInv, PTL DEF Spec, CreationLands
=============================================================================
