------------------------------- MODULE Updater -------------------------------
(* The launcher's own update: updater/UpdateChecker.cpp asks for it,          *)
(* updater/DownloadTask.cpp and GoUpdate.cpp prepare it, UpdateController.cpp *)
(* installs it and rolls back, and Application.cpp counts the launches and    *)
(* windows that decide whether it may begin and when the process ends.        *)
(* Everything runs on the GUI thread. installUpdates() blocks it: its steps   *)
(* (Busy) are interleaved with nothing.                                       *)
EXTENDS Integers, Sequences, FiniteSets, SequencesExt

CONSTANTS Paths,      \* files of the installation
          Names,      \* names of files in the two flat folders of an update
          Flats,      \* the ways QString::replace('/', '_') may name the paths: two
                      \* paths may share a name
          Mirrors,    \* bound: how many http sources a list may give for a path
          Instances,  \* the instances
          NoFile      \* no file at a path

ASSUME FlatAssumption == Flats \subseteq [Paths -> Names]
ASSUME MirrorsAssumption == Mirrors \in [Paths -> SUBSET Nat]
ASSUME FilesAssumption == /\ IsFiniteSet(Paths)
                          /\ \A p \in Paths : NoFile # <<"kept", p>> /\ NoFile # <<"fresh", p>>

VARIABLES
    Flat,             \* the flat names of the paths, which never change
    m_chanListLoaded, m_chanListLoading, m_checkUpdateWaiting, m_updateChecking,
    m_channels,       \* no channel, channels without a repository to ask, or with one
    phase,            \* where MainWindow::updateAvailable() stands
    newVersion,       \* the file list of the new version
    current,          \* the file list of the current version, as far as it was loaded
    sources,          \* the http sources of each entry
    m_operations,     \* what DownloadTask says is to be done
    next,             \* index of the operation under way
    disk, tmp, backup,    \* files: installed, downloaded, moved away
    m_replace_backups, m_delete_backups, revertOK,
    m_updateRunning,
    m_runningInstances, m_openWindows,
    controllers,      \* instances with a LaunchController
    windows,          \* instances with a window of their own
    m_mainWindow,     \* there is a main window
    before,           \* history: the files when the installation began
    ended             \* why the process ended, if it did

checker == <<m_chanListLoaded, m_chanListLoading, m_checkUpdateWaiting, m_channels>>
lists == <<newVersion, current, sources, m_operations>>
backups == <<m_replace_backups, m_delete_backups>>
install == <<lists, next, disk, tmp, backup, backups, revertOK, before>>
desk == <<m_runningInstances, m_openWindows, controllers, windows, m_mainWindow>>
vars == <<Flat, checker, m_updateChecking, phase, install, m_updateRunning, desk, ended>>

Content == {"kept", "fresh"} \X Paths   \* of the user's version, of the new one
Kept(p) == <<"kept", p>>
Fresh(p) == <<"fresh", p>>

Dialogs == {"offer", "none", "failed", "notStarted"}
Downloads == {"lists", "files", "hung"}
Busy == {"begin", "operate", "start", "rollback", "returned"}
Phases == {"idle"} \union Dialogs \union Downloads \union Busy
Alive == ended = "no"

Init == /\ Flat \in Flats
        /\ disk \in {d \in [Paths -> Content \union {NoFile}] :
                       \A p \in Paths : d[p] \in {NoFile, Kept(p), Fresh(p)}}
        /\ m_chanListLoaded = FALSE /\ m_chanListLoading = FALSE
        /\ m_checkUpdateWaiting = FALSE /\ m_updateChecking = FALSE
        /\ m_channels = "none"
        /\ phase = "idle"
        /\ newVersion = {} /\ current = {}
        /\ sources = [p \in Paths |-> 0]
        /\ m_operations = << >> /\ next = 1
        /\ tmp = [n \in Names |-> NoFile] /\ backup = [n \in Names |-> NoFile]
        /\ m_replace_backups = << >> /\ m_delete_backups = << >>
        /\ revertOK = TRUE
        /\ m_updateRunning = FALSE
        /\ m_runningInstances = 0 /\ m_openWindows = 0
        /\ controllers = {} /\ windows = {} /\ m_mainWindow = FALSE
        /\ before = disk
        /\ ended = "no"

-----------------------------------------------------------------------------
(* UpdateChecker.                                                            *)

\* checkForUpdate() with the given channels, (not) loaded and (not) being loaded: it
\* is deferred and asks for the list, is ignored, finds nothing to ask, or asks.
CheckForUpdate(loaded, loading, channels) ==
    /\ m_checkUpdateWaiting' = (m_checkUpdateWaiting \/ ~loaded)
    /\ m_chanListLoading' = (loading \/ ~loaded)
    /\ m_updateChecking' = (m_updateChecking \/ (loaded /\ channels = "usable"))
    /\ m_chanListLoaded' = loaded
    /\ m_channels' = channels

\* The menu entry, which is disabled while an instance runs.
CheckForUpdates ==
    /\ Alive /\ phase = "idle" /\ m_mainWindow
    /\ m_runningInstances = 0
    /\ CheckForUpdate(m_chanListLoaded, m_chanListLoading, m_channels)
    /\ UNCHANGED <<phase, install, m_updateRunning, desk, ended>>

\* The settings load the channels when there are none.
OpenSettings ==
    /\ Alive /\ phase = "idle" /\ m_mainWindow
    /\ m_channels = "none"
    /\ m_chanListLoading' = TRUE
    /\ UNCHANGED <<m_chanListLoaded, m_checkUpdateWaiting, m_channels, m_updateChecking,
                   phase, install, m_updateRunning, desk, ended>>

\* chanListDownloadFinished(): a check that was ever deferred is made now. A list
\* that cannot be parsed, as one that was given up, only ends the loading.
ChanListDownloadFinished ==
    /\ Alive /\ phase \notin Busy
    /\ m_chanListLoading
    /\ \/ /\ m_chanListLoading' = FALSE
          /\ UNCHANGED <<m_chanListLoaded, m_checkUpdateWaiting, m_channels, m_updateChecking>>
       \/ \E found \in {"none", "foreign", "usable"} :
             \/ /\ m_checkUpdateWaiting
                /\ CheckForUpdate(TRUE, FALSE, found)
             \/ /\ ~m_checkUpdateWaiting
                /\ m_chanListLoading' = FALSE /\ m_chanListLoaded' = TRUE
                /\ m_channels' = found
                /\ UNCHANGED <<m_checkUpdateWaiting, m_updateChecking>>
    /\ UNCHANGED <<phase, install, m_updateRunning, desk, ended>>

\* Faulty variant of UpdateCheckFinished: an unusable index leaves the flag set.
UpdateCheckFinishedStuck ==
    /\ Alive /\ phase = "idle" /\ m_updateChecking
    /\ \/ UNCHANGED <<phase, m_updateChecking>>
       \/ /\ m_mainWindow
          /\ phase' = IF m_runningInstances = 0 THEN "offer" ELSE "none"
          /\ UNCHANGED m_updateChecking
    /\ UNCHANGED <<checker, install, m_updateRunning, desk, ended>>

\* updateCheckFinished(): the build number it compares with is never set, so every
\* index that can be read has an update. The signal is handled in the call: the
\* dialogs, the download and the installation all happen before it returns.
UpdateCheckFinished ==
    /\ Alive /\ phase = "idle" /\ m_updateChecking
    /\ \/ /\ m_updateChecking' = FALSE
          /\ UNCHANGED phase
       \/ /\ m_mainWindow
          /\ phase' = IF m_runningInstances = 0 THEN "offer" ELSE "none"
          /\ UNCHANGED m_updateChecking
    /\ UNCHANGED <<checker, install, m_updateRunning, desk, ended>>

-----------------------------------------------------------------------------
(* The dialogs and the download.                                             *)

\* The slot returns to updateCheckFinished(), which ends the check; what lived on
\* the stack is gone.
Return ==
    /\ phase' = "idle"
    /\ m_updateChecking' = FALSE
    /\ newVersion' = {} /\ current' = {}
    /\ sources' = [p \in Paths |-> 0]
    /\ m_operations' = << >> /\ next' = 1
    /\ tmp' = [n \in Names |-> NoFile]
    /\ m_replace_backups' = << >> /\ m_delete_backups' = << >>
    /\ revertOK' = TRUE
    /\ before' = disk

\* UpdateDialog: now or later; downloadUpdates() asks again whether it may.
OfferAnswered ==
    /\ Alive /\ phase = "offer"
    /\ \/ /\ m_runningInstances = 0
          /\ phase' = "lists"
          /\ UNCHANGED <<m_updateChecking, install>>
       \/ /\ Return
          /\ UNCHANGED <<disk, backup>>
    /\ UNCHANGED <<checker, m_updateRunning, desk, ended>>

NoneRead ==
    /\ Alive /\ phase = "none"
    /\ Return
    /\ UNCHANGED <<checker, disk, backup, m_updateRunning, desk, ended>>

\* A file is downloaded unless the one in place has the sum of the new version.
NeedsUpgrade(p) == p \in newVersion' /\ disk[p] # Fresh(p)
DeleteOp(p) == [type |-> "delete", path |-> p]
CopyOp(p) == [type |-> "replace", path |-> p]

\* processFileLists(): deletions first, then one copy for every http source.
ProcessFileLists ==
    LET gone == {p \in current' \ newVersion' : disk[p] # NoFile}
    IN  \E d \in SetToSeqs(gone), u \in SetToSeqs({p \in newVersion' : NeedsUpgrade(p)}) :
           m_operations' = [i \in DOMAIN d |-> DeleteOp(d[i])] \o
               FlattenSeq([i \in DOMAIN u |-> [j \in 1..sources'[u[i]] |-> CopyOp(u[i])]])

\* processDownloadedVersionInfo(): the list of the new version is needed, that of
\* the current one is not; a file that cannot be read or written ends it.
ListsArrive ==
    /\ Alive /\ phase = "lists"
    /\ \/ /\ newVersion' \in SUBSET Paths /\ current' \in SUBSET Paths
          /\ sources' \in [Paths -> UNION {Mirrors[p] : p \in Paths}]
          /\ \A p \in Paths : sources'[p] \in Mirrors[p]
          /\ ProcessFileLists
          /\ phase' = "files"
          /\ UNCHANGED <<m_updateChecking, next, tmp, backups, revertOK, before>>
       \/ Return
    /\ UNCHANGED <<checker, disk, backup, m_updateRunning, desk, ended>>

Wanted == {m_operations[i].path : i \in {k \in DOMAIN m_operations :
                                           m_operations[k].type = "replace"}}

\* fileDownloadFinished(): NetJob also reports success with downloads it gave up,
\* and of two downloads to one name the last one stays. MainWindow installs.
FilesArrive ==
    /\ Alive /\ phase = "files"
    /\ \E arrived \in SUBSET Wanted :
          tmp' \in {t \in [Names -> {Fresh(p) : p \in arrived} \union {NoFile}] :
                      \A n \in Names :
                         IF \E p \in arrived : Flat[p] = n
                         THEN \E p \in arrived : Flat[p] = n /\ t[n] = Fresh(p)
                         ELSE t[n] = NoFile}
    /\ phase' = "begin"
    /\ m_updateRunning' = TRUE
    /\ UNCHANGED <<checker, m_updateChecking, lists, next, disk, backup, backups,
                   revertOK, before, desk, ended>>

\* A download whose file cannot be opened reports nothing: the job never ends.
FilesHang ==
    /\ Alive /\ phase = "files"
    /\ phase' = "hung"
    /\ UNCHANGED <<checker, m_updateChecking, install, m_updateRunning, desk, ended>>

\* Escape closes the progress dialog, and the task is destroyed as it runs.
Escape ==
    /\ Alive /\ phase \in Downloads
    /\ Return
    /\ UNCHANGED <<checker, disk, backup, m_updateRunning, desk, ended>>

-----------------------------------------------------------------------------
(* UpdateController.                                                         *)

\* The backup folder is emptied, but for what cannot be removed; without it nothing
\* is done.
Begin ==
    /\ Alive /\ phase = "begin"
    /\ before' = disk
    /\ \/ phase' = "operate"
       \/ phase' = "returned"
    /\ \E left \in SUBSET Names :
          backup' = [n \in Names |-> IF n \in left THEN backup[n] ELSE NoFile]
    /\ UNCHANGED <<checker, m_updateChecking, lists, next, disk, tmp, backups, revertOK,
                   m_updateRunning, desk, ended>>

Op == m_operations[next]
Fail(kind) == phase' = kind /\ UNCHANGED next
Done == next' = next + 1 /\ UNCHANGED phase

\* Faulty variant of CanMove: a rename that replaces what is there.
CanMoveOver(from, to) == from # NoFile

\* QFile::rename() does not replace a file, and may fail for reasons of its own.
CanMove(from, to) == from # NoFile /\ to = NoFile

\* OP_REPLACE: the file in place goes to the backup folder, the new one in.
Replace ==
    LET p == Op.path
        n == Flat[p]
        clear == [disk EXCEPT ![p] = NoFile]
        Away == /\ backup' = [backup EXCEPT ![n] = disk[p]]
                /\ m_replace_backups' = Append(m_replace_backups, p)
    IN  /\ Op.type = "replace"
        /\ \/ /\ disk[p] # NoFile
              /\ Fail("failed")
              /\ UNCHANGED <<disk, tmp, backup, m_replace_backups>>
           \/ /\ CanMove(disk[p], backup[n])
              /\ Away
              /\ disk' = clear
              /\ Fail("failed")
              /\ UNCHANGED tmp
           \/ /\ disk[p] = NoFile
              /\ Fail("failed")
              /\ UNCHANGED <<disk, tmp, backup, m_replace_backups>>
           \/ /\ CanMove(disk[p], backup[n]) /\ CanMove(tmp[n], clear[p])
              /\ Away
              /\ disk' = [disk EXCEPT ![p] = tmp[n]]
              /\ tmp' = [tmp EXCEPT ![n] = NoFile]
              /\ Done
           \/ /\ disk[p] = NoFile /\ CanMove(tmp[n], disk[p])
              /\ disk' = [disk EXCEPT ![p] = tmp[n]]
              /\ tmp' = [tmp EXCEPT ![n] = NoFile]
              /\ Done
              /\ UNCHANGED <<backup, m_replace_backups>>
        /\ UNCHANGED m_delete_backups

\* OP_DELETE: the file goes to the backup folder.
Delete ==
    LET p == Op.path
        n == Flat[p]
    IN  /\ Op.type = "delete"
        /\ \/ /\ disk[p] = NoFile
              /\ Done
              /\ UNCHANGED <<disk, backup, m_delete_backups>>
           \/ /\ disk[p] # NoFile
              /\ Fail("failed")
              /\ UNCHANGED <<disk, backup, m_delete_backups>>
           \/ /\ CanMove(disk[p], backup[n])
              /\ backup' = [backup EXCEPT ![n] = disk[p]]
              /\ disk' = [disk EXCEPT ![p] = NoFile]
              /\ m_delete_backups' = Append(m_delete_backups, p)
              /\ Done
        /\ UNCHANGED <<tmp, m_replace_backups>>

Operate ==
    /\ Alive /\ phase = "operate"
    /\ \/ /\ next <= Len(m_operations)
          /\ Replace \/ Delete
       \/ /\ next > Len(m_operations)
          /\ phase' = "start"
          /\ UNCHANGED <<next, disk, tmp, backup, backups>>
    /\ UNCHANGED <<checker, m_updateChecking, lists, revertOK, before,
                   m_updateRunning, desk, ended>>

\* The new launcher is started and has 2.5 s to show that it lives.
StartNew ==
    /\ Alive /\ phase = "start"
    /\ \/ ended' = "updated" /\ UNCHANGED phase
       \/ phase' = "notStarted" /\ UNCHANGED ended
    /\ UNCHANGED <<checker, m_updateChecking, install, m_updateRunning, desk>>

\* fail(): a failed start asks whether to roll back, the others only tell.
FailureRead ==
    /\ Alive
    /\ \/ /\ phase \in {"failed", "notStarted"}
          /\ phase' = "rollback"
          /\ UNCHANGED ended
       \/ /\ phase = "notStarted"
          /\ ended' = "left"
          /\ UNCHANGED phase
    /\ UNCHANGED <<checker, m_updateChecking, install, m_updateRunning, desk>>

\* rollback(), one replaced file: the new file goes back to the folder of the
\* update, then the old one comes back; if the first move fails the second is skipped.
RestoreReplaced ==
    LET p == Head(m_replace_backups)
        n == Flat[p]
    IN  /\ m_replace_backups # << >>
        /\ m_replace_backups' = Tail(m_replace_backups)
        /\ UNCHANGED m_delete_backups
        /\ \/ /\ revertOK' = FALSE
              /\ UNCHANGED <<disk, tmp, backup>>
           \/ /\ CanMove(disk[p], tmp[n])
              /\ tmp' = [tmp EXCEPT ![n] = disk[p]]
              /\ \/ /\ disk' = [disk EXCEPT ![p] = NoFile]
                    /\ revertOK' = FALSE
                    /\ UNCHANGED backup
                 \/ /\ backup[n] # NoFile
                    /\ disk' = [disk EXCEPT ![p] = backup[n]]
                    /\ backup' = [backup EXCEPT ![n] = NoFile]
                    /\ UNCHANGED revertOK

\* rollback(), one deleted file.
RestoreDeleted ==
    LET p == Head(m_delete_backups)
        n == Flat[p]
    IN  /\ m_replace_backups = << >> /\ m_delete_backups # << >>
        /\ m_delete_backups' = Tail(m_delete_backups)
        /\ \/ /\ revertOK' = FALSE
              /\ UNCHANGED <<disk, backup>>
           \/ /\ CanMove(backup[n], disk[p])
              /\ disk' = [disk EXCEPT ![p] = backup[n]]
              /\ backup' = [backup EXCEPT ![n] = NoFile]
              /\ UNCHANGED revertOK
        /\ UNCHANGED <<tmp, m_replace_backups>>

\* A rollback that failed is told, and the launcher quits.
Rollback ==
    /\ Alive /\ phase = "rollback"
    /\ \/ /\ RestoreReplaced \/ RestoreDeleted
          /\ UNCHANGED <<phase, ended>>
       \/ /\ m_replace_backups = << >> /\ m_delete_backups = << >>
          /\ \/ revertOK /\ phase' = "returned" /\ UNCHANGED ended
             \/ ~revertOK /\ ended' = "broken" /\ UNCHANGED phase
          /\ UNCHANGED <<disk, tmp, backup, backups, revertOK>>
    /\ UNCHANGED <<checker, m_updateChecking, lists, next, before, m_updateRunning, desk>>

\* installUpdates() has returned to downloadUpdates().
Returned ==
    /\ Alive /\ phase = "returned"
    /\ m_updateRunning' = FALSE
    /\ Return
    /\ UNCHANGED <<checker, disk, backup, desk, ended>>

-----------------------------------------------------------------------------
(* Application: launches, windows and the end of the process.                *)

\* shouldExitNow(), with the windows and launches that are left.
ExitIfIdle(open, running) ==
    ended' = IF open = 0 /\ running = 0 THEN "idle" ELSE ended

\* launch(), from a window or by a message of another process, which arrives
\* under any dialog: refused while an update is installed or the game runs. (A
\* message to launch what is in preparation would destroy the controller under its
\* own dialog, which has no defined outcome.)
Launch(i) ==
    /\ Alive /\ phase \notin Busy
    /\ ~m_updateRunning
    /\ i \notin controllers
    /\ controllers' = controllers \union {i}
    /\ m_runningInstances' = m_runningInstances + 1
    /\ UNCHANGED <<checker, m_updateChecking, phase, install, m_updateRunning,
                   m_openWindows, windows, m_mainWindow, ended>>

\* showInstanceWindow(): by the user, for the console of a launch, or by a message
\* to launch what runs already or cannot be launched.
ShowInstanceWindow(i) ==
    /\ Alive /\ phase \notin Busy
    /\ i \notin windows
    /\ windows' = windows \union {i}
    /\ m_openWindows' = m_openWindows + 1
    /\ UNCHANGED <<checker, m_updateChecking, phase, install, m_updateRunning,
                   m_runningInstances, controllers, m_mainWindow, ended>>

\* showMainWindow(): at the start, by a message, at the end of a game. A new main
\* window asks for an update if it may.
ShowMainWindow ==
    /\ Alive /\ phase \notin Busy
    /\ ~m_mainWindow
    /\ m_mainWindow' = TRUE
    /\ m_openWindows' = m_openWindows + 1
    /\ \/ /\ m_runningInstances = 0
          /\ CheckForUpdate(m_chanListLoaded, m_chanListLoading, m_channels)
       \/ UNCHANGED <<checker, m_updateChecking>>
    /\ UNCHANGED <<phase, install, m_updateRunning, m_runningInstances, controllers,
                   windows, ended>>

\* on_windowClose(): the dialogs of an update block the windows.
CloseWindow ==
    /\ Alive /\ phase = "idle"
    /\ m_openWindows' = m_openWindows - 1
    /\ \/ \E i \in windows : windows' = windows \ {i} /\ UNCHANGED m_mainWindow
       \/ m_mainWindow /\ m_mainWindow' = FALSE /\ UNCHANGED windows
    /\ ExitIfIdle(m_openWindows', m_runningInstances)
    /\ UNCHANGED <<checker, m_updateChecking, phase, install, m_updateRunning,
                   m_runningInstances, controllers>>

\* controllerSucceeded() and controllerFailed(): the first may close the console.
ControllerEnds(i) ==
    /\ Alive /\ phase \notin Busy
    /\ i \in controllers
    /\ controllers' = controllers \ {i}
    /\ m_runningInstances' = m_runningInstances - 1
    /\ \/ UNCHANGED <<windows, m_openWindows>>
       \/ /\ i \in windows
          /\ windows' = windows \ {i}
          /\ m_openWindows' = m_openWindows - 1
    /\ ExitIfIdle(m_openWindows', m_runningInstances')
    /\ UNCHANGED <<checker, m_updateChecking, phase, install, m_updateRunning, m_mainWindow>>

\* The process is killed, or has ended, and another one begins with the files left.
Restart ==
    /\ m_chanListLoaded' = FALSE /\ m_chanListLoading' = FALSE
    /\ m_checkUpdateWaiting' = FALSE /\ m_channels' = "none"
    /\ Return
    /\ UNCHANGED <<disk, backup>>
    /\ m_updateRunning' = FALSE
    /\ m_runningInstances' = 0 /\ m_openWindows' = 0
    /\ controllers' = {} /\ windows' = {} /\ m_mainWindow' = FALSE
    /\ ended' = "no"

-----------------------------------------------------------------------------
(* The specification.                                                        *)

Reading == OfferAnswered \/ NoneRead \/ FailureRead
Installing == Begin \/ Operate \/ StartNew \/ Rollback \/ Returned

Next == /\ UNCHANGED Flat
        /\ \/ CheckForUpdates
           \/ OpenSettings
           \/ ChanListDownloadFinished
           \/ UpdateCheckFinished
           \/ OfferAnswered
           \/ NoneRead
           \/ ListsArrive
           \/ FilesArrive
           \/ FilesHang
           \/ Escape
           \/ Begin
           \/ Operate
           \/ StartNew
           \/ FailureRead
           \/ Rollback
           \/ Returned
           \/ \E i \in Instances : Launch(i)
           \/ \E i \in Instances : ShowInstanceWindow(i)
           \/ ShowMainWindow
           \/ CloseWindow
           \/ \E i \in Instances : ControllerEnds(i)
           \/ Restart

\* Jobs end, the dialogs are answered, and installUpdates() goes on.
Fairness == /\ WF_vars(UNCHANGED Flat /\ ChanListDownloadFinished)
            /\ WF_vars(UNCHANGED Flat /\ UpdateCheckFinished)
            /\ WF_vars(UNCHANGED Flat /\ (ListsArrive \/ FilesArrive))
            /\ WF_vars(UNCHANGED Flat /\ Reading)
            /\ WF_vars(UNCHANGED Flat /\ Installing)
Spec == Init /\ [][Next]_vars /\ Fairness

-----------------------------------------------------------------------------
(* Correctness.                                                              *)

\* The variables keep the types of the members they stand for.
TypeOK == /\ {m_chanListLoaded, m_chanListLoading, m_checkUpdateWaiting, m_updateChecking,
              revertOK, m_updateRunning, m_mainWindow} \subseteq BOOLEAN
          /\ m_channels \in {"none", "foreign", "usable"}
          /\ phase \in Phases
          /\ newVersion \subseteq Paths /\ current \subseteq Paths
          /\ m_operations \in Seq([type : {"replace", "delete"}, path : Paths])
          /\ disk \in [Paths -> Content \union {NoFile}]
          /\ {tmp, backup} \subseteq [Names -> Content \union {NoFile}]
          /\ {m_replace_backups, m_delete_backups} \subseteq Seq(Paths)
          /\ controllers \subseteq Instances /\ windows \subseteq Instances
          /\ ended \in {"no", "idle", "updated", "left", "broken"}

\* A launcher that hands over to its new version has all its files in place,
\* whatever downloads were given up, and none that only the old version had.
InstallComplete ==
    ended = "updated" =>
        /\ \A p \in newVersion : sources[p] > 0 => disk[p] = Fresh(p)
        /\ \A p \in current \ newVersion : disk[p] = NoFile

\* A launcher that goes on after a failed installation has every file it had.
RollbackHonest ==
    phase = "returned" => \A p \in Paths : before[p] # NoFile => disk[p] = before[p]

\* No file of the old version is overwritten, also when the rollback fails: it is
\* in its place or in the backup folder, from where it can be fetched by hand.
NothingLost ==
    phase \in Busy \union Dialogs =>
        \A p \in Paths : before[p] \in {NoFile, disk[p]} \union {backup[n] : n \in Names}

\* One update at a time: while it is shown, downloaded or installed a check is under
\* way, which makes others be ignored, and its main window stays open.
OneUpdate == Alive /\ phase # "idle" => m_updateChecking /\ m_mainWindow

\* The process ends by itself only when no launch and no window is left, and the
\* counts that decide are those of the launches and windows there are.
EndsWhenIdle ==
    /\ m_runningInstances = Cardinality(controllers)
    /\ m_openWindows = Cardinality(windows) + (IF m_mainWindow THEN 1 ELSE 0)
    /\ ended = "idle" => controllers = {} /\ windows = {} /\ ~m_mainWindow

\* An update is whole or undone, one at a time, and the process outlives its launches.
InstallSound ==
    /\ TypeOK /\ InstallComplete /\ RollbackHonest /\ NothingLost
    /\ OneUpdate /\ EndsWhenIdle

\* Checks end: loading of the channels, and a check with all that follows from it,
\* unless a download cannot open its file.
ChecksEnd ==
    /\ m_chanListLoading ~> (~m_chanListLoading \/ ~Alive)
    /\ m_updateChecking ~> (~m_updateChecking \/ ~Alive \/ phase = "hung")

\* What fail() tells the user before a rollback ("Changes will be reverted",
\* UpdateController.cpp:359): refuted by a new file that is missing.
RevertedOnFailure == [][phase = "rollback" => ended' # "broken"]_vars

\* "For now, we'll just use the first http one" (GoUpdate.cpp:175): refuted by an
\* entry with two sources.
FirstSource == \A i, j \in DOMAIN m_operations : i # j => m_operations[i] # m_operations[j]
=============================================================================
