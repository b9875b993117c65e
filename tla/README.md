# EnderForgeMC: a TLA+ development

EnderForgeMC is a Minecraft launcher in C++/Qt (a descendant of PolyMC and
MultiMC). This directory models the part of it that decides what happens when:
tasks and their containers, downloads and their cache, the launch of an
instance and what runs before it, the list of instances and how packs get into
it, the folder of mods, the accounts with their sign-in and background
refresh, and the launcher's update of itself. TLC checks the modules on small instances; TLAPS proves the results of
section 4 for every value of the constants. `PROJECT.json` maps each definition
to the lines it stands for and lists runs, mutants, hazards, findings and
theorems.

Paths below are relative to `src/launcher/` unless they start with `src/`.

    tlc -workers 2 -config accounts_safety.cfg MCAccountList     # one run
    tlapm Accounts_proofs.tla                                    # one proof

## 1. The system

Nearly all of the core runs on the GUI thread. Concurrency comes from the Qt
event loop: posted calls (`QMetaObject::invokeMethod(..., Qt::QueuedConnection)`),
replies of the network, timers, child processes, and modal dialogs that run the
event loop again in the middle of a function. A few jobs (scans of folders,
hashes, unpacking) run in threads of a pool and report back through the event
loop. An action of a module is one slot invocation or one event of that loop,
with every call it makes synchronously.

| component | state it keeps | operations | talks to | what is hard | when it is correct |
|---|---|---|---|---|---|
| Tasks (`tasks/`) | `m_state`; for containers the queue, `m_doing`, `m_done`, `m_failed`, `m_aborted` | start, abort, addTask, startNext, ends of the children | owner by signals; children by posted `start()` and their signals | posted calls outlive the state they were posted in; abort in every state; restart | every start is answered once; no child is lost, started twice or out of order |
| `NetJob` (`net/`) | as above and `m_try` | retries of what failed, its own abort | `Download` | retries with aborts and vanished downloads | three tries at most, nothing that succeeded is fetched again |
| `Download` and sinks (`net/`) | `m_state`, the reply, the save file, the cache entry | executeTask, readyRead, error, finished, abort, redirects | QNetworkReply, file system, validators, `HttpMetaCache` | faults of the disk, redirects in a half written body, abort inside a reply's own slots | one report; the target is only ever replaced by a complete body |
| HTTP cache (`net/HttpMetaCache.cpp`, `MetaCacheSink.cpp`) | entries shared with downloads, the index file, a 30 s save timer | resolve, update, evict, save, load | downloads, the disk, other writers of the file | stale time stamps, 304 replies, crashes before the save, eviction under a download | a hit is a genuine file |
| Launch pipeline (`launch/`, `minecraft/launch/`, `LoggedProcess`, `LaunchController`) | the steps, the current one, the process, the running flag | start, the end of each step, abort, kill, proceed, finalizeSteps | processes, profiler, dialogs, update, account | abort in any step, recursion of signals, dialogs between question and answer | steps in order, everything undone once, the flag outlives the process |
| Game update (`minecraft/MinecraftUpdate.cpp`, `update/`) | list of subtasks, current one, `m_abort` | next, subtask ends, abort | metadata, libraries, assets, `NetJob` | subtasks that end inside their own start; a list edited before the update reads it | each subtask done before success, on the profile that was resolved |
| Components (`PackProfile`, `ComponentUpdateTask`, `meta/`) | rows, their index, dirty flag and 5 s save timer, the cached profile, remote loads | load, merge, resolve, install, move, customize, revert, save | downloads, cache | row numbers kept across changes of the list, delayed save, loads shared by entities | list, index and file agree; resolution ends in versions that need nothing more |
| Instances (`BaseInstance`, `InstanceList`) | the list, groups, trash history, a staging and its backoff timer | create, copy, import, commit with retries, trash and undo, delete, save groups | file system, watcher, other programs | an external change during a commit, a timer that goes on, names in use again | the list is the folder, groups survive, what was created is listed |
| Packs (`InstanceImportTask`, `InstanceCopyTask`, `modplatform/`) | files to fetch and to remove, the override decision, the staging folder | download, extract, compare with an older version, resolve, fetch, remove, commit | `NetJob`, dialogs, the instance list | cancellation between phases, failures of single files, an instance that is in use | the instance that is there is touched only by an update that went through |
| Mods and resource folders (`minecraft/mod/`) | rows and their index, update task and its successor, parse tickets | open, update, parse, enable, install, delete, download | thread pool, watcher | results that arrive after the folder or the list changed | list, index of rows and folder agree when everything has ended |
| Accounts (`minecraft/auth/`) | list, default, refresh queue, two timers, activity count; per account its state, task, validity, use count | add, remove, set default, fillQueue, tryNext, requestRefresh, refresh, ends of a task, login, claim | `LaunchController`, `ClaimAccount`, the accounts page | replacement and removal under a running task, two refreshes at once, a login that waits | the schedule never stops, a login waits for what ends, no refresh under a game |
| Sign-in (`auth/steps`, `flows`, `src/libraries/katabasis`) | tokens in `AccountData`, the steps to come, the state of the flow | the chain of MSA, Xbox and Minecraft requests, device codes and polling | web services | steps that report and go on, replies after an expiry | tokens that worked are kept, a flow reports once |
| `Application` | running instances, windows, controllers, update lock | launch, kill, ends of controllers, windows opened and closed | everything | counts kept in step with controllers and windows | it exits when, and only when, nothing is left |
| Updater (`updater/`, `UpdateController.cpp`) | channels, flags of a check, the operations, moved files, what may be rolled back | check, load channels, download, install, roll back | `Application`, main window, `NetJob`, the disk, the new process | files that never came, moves that fail in the installation and in its rollback, leftovers, a check that spans dialogs | an update is whole or undone, no old file is lost, a check ends |
| Settings, Java, translations, icons, news, services, tools | small, local | get/set, probe, fetch | files, processes, network | overrides and gates; sequential otherwise | |
| Single instance (`src/libraries/LocalPeer`) | a lock file, a socket | isClient, send, receive | other processes | two launchers at once | at most one server |
| User interface (`ui/`) | widgets | | the core | modal dialogs | |
| Vendored libraries, build, resources, the Java launcher part | | | | | |

The hazards of this code, each at its line with the properties that watch it,
are in `PROJECT.json` under `hazards`.

## 2. Modules

| module | models | source |
|---|---|---|
| `TaskContract` | what a task promises the code that starts it | `tasks/Task.cpp` |
| `ConcurrentTask` | the four containers of tasks | `tasks/ConcurrentTask.cpp`, `SequentialTask.cpp`, `MultipleOptionsTask.cpp`, `net/NetJob.cpp` |
| `Download` | one download with its reply, sink and file | `net/Download.cpp`, `FileSink.cpp`, `ByteArraySink.h`, `MetaCacheSink.cpp` |
| `HttpMetaCache` | one cached resource, its downloads, its file and the index | `net/HttpMetaCache.cpp`, `MetaCacheSink.cpp`, `meta/BaseEntity.cpp` as a caller |
| `LaunchTask` | one launch from `createLaunchTask()` to the clean-up | `launch/`, `minecraft/launch/`, `LoggedProcess.cpp`, `LaunchController.cpp` |
| `PackProfile` | the component list of an instance and the task that resolves it | `minecraft/PackProfile.cpp`, `Component.cpp`, `ComponentUpdateTask.cpp`, `meta/` |
| `GameUpdate` | the game update over that list | `minecraft/MinecraftUpdate.cpp`, `MinecraftLoadAndCheck.cpp`, `minecraft/update/` |
| `InstanceList` | the instances, their groups, trash and staging | `InstanceList.cpp`, `WatchLock.h`, `InstanceTask.cpp` |
| `PackInstall` | the import of an archive or a pack, the update of an instance by it, packs from the pages of their platforms, and copies of instances | `InstanceImportTask.cpp`, `InstanceCreationTask.cpp`, `InstanceCopyTask.cpp`, `modplatform/` |
| `ResourceFolder` | the folder of mods, the list read from it and the tasks that read | `minecraft/mod/ResourceFolderModel.cpp`, `ModFolderModel.cpp`, `minecraft/mod/tasks/` |
| `AccountList` | the accounts, their refresh and the launches that use them | `minecraft/auth/AccountList.cpp`, `MinecraftAccount.cpp`, `LaunchController.cpp`, `ClaimAccount.cpp` |
| `AuthFlow` | the sign-in of one account | `minecraft/auth/flows`, `steps`, `AccountTask.cpp`, `Yggdrasil.cpp`, `src/libraries/katabasis` |
| `Updater` | the launcher's update, and the launches and windows around it | `updater/`, `UpdateController.cpp`, `Application.cpp`, `ui/MainWindow.cpp` |
| `..._proofs` | theorems about the module of that name; `Net_proofs` about `Download` and `HttpMetaCache`, `Accounts_proofs` about `AccountList` and `AuthFlow`, `GameUpdate_proofs` about `PackProfile` too, `Folders_proofs` about `Updater` and `ResourceFolder` | |
| `MC...` | values of the constants for TLC | |

`GameUpdate` EXTENDS `PackProfile` and is checked with it: the component task is
one of its subtasks. `ConcurrentTask` and `AuthFlow` are shown to implement
`TaskContract`. Two modules whose theorems are proved together share no name and no
variable: `HttpMetaCache` has `CacheSpec`, `AuthFlow` has `AuthSpec`,
`ResourceFolder` has `FolderSpec`. The other modules use each other's results: the `update` step of
`LaunchTask` promises what `GameUpdate` shows, the downloads of `PackInstall` and
`GameUpdate` behave as `ConcurrentTask` says a `NetJob` does (it succeeds with
files that were given up), and the child of a staging in `InstanceList` is the
import of `PackInstall`.

A module holds, besides the model, variants of some operators named "Faulty
variant of": a dropped guard, a missing reset, a swapped order. With such a
variant in place of the operator the property it is paired with in
`PROJECT.json` is violated, which shows that the property can see the bug.

### ConcurrentTask and TaskContract

The variables are the members of `ConcurrentTask` and `NetJob` and, for each
child, its `Task::m_state`. `posted` is the part of the event queue that
belongs to the container: calls of `startNext()` (`NextEvent`) and calls of
`start()` on a child, delivered in the order they were posted. `kind` is the
class; `StartNext` is the virtual call, with one operator per class.
`BaseStartNext` is given the queue and sets as the caller has just changed them,
since `subTaskSucceeded()` and `subTaskFailed()` call it before they return.
`added`, `attempts`, `starts` and `aborts` are history.

A child ends in success, in failure, or on a signal nobody is connected to
(`SubTaskVanished`): its own `aborted()` is not connected by
`ConcurrentTask.cpp:91-92`, and a `Download` that cannot open its file emits
nothing. The failed downloads of a `NetJob` come back in any order, as the keys
of a `QHash` do. Removal of children, texts and progress numbers are left out.

`TaskContract` is the abstract specification: `Start` from any state but
Running, then exactly one terminal signal that names the state the task is left
in. `ContractKept` (by `INSTANCE TaskContract`, whose two variables are the
container's `m_state` and `emitted`) says that a container implements it until
`ConcurrentTask::abort()` is called, and `Reports` that a started container ends. What
the two leave out is what the code does:

- `m_aborted` is never cleared, so a `ConcurrentTask` that is started again after an
  abort starts nothing and never ends.
- A `ConcurrentTask` that is aborted before its first posted `startNext()` runs has
  nothing in `m_doing`, so `abort()` emits `aborted()` past the checks of
  `emitAborted()`, leaves `m_state` Running (`ConcurrentTask.cpp:52-55`), and later calls
  may end the task a second time. Without the exception of `m_aborted` TLC shows it at
  once.
- A child that ended on a signal the container is not connected to (`Stranded`), which a
  `NetJob` that is aborted and started again has too, is waited for in vain.
- `NetJob::abort()` moves the queue to `m_failed` and leaves `m_aborted` alone
  (`NetJob.cpp:65-86`), so a posted `startNext()` may start downloads after
  `aborted()` was emitted. `AbortStopsQueue` therefore speaks of
  `ConcurrentTask::abort()`; the bound on tries and the bookkeeping hold for
  `NetJob` too.
- A `NetJob` reports success with downloads left in `m_failed` once three rounds
  are over. `NoEarlySuccess` says exactly that much.

### Download

One object of class `Download`: the signals of its reply (`ReadyRead`,
`ReplyError`, `ReplyFinished`), `Start`, and `Abort`, which runs the slots of
error and finish inside the call. `m_state` is a state and a result code at
once, as in the code. The body is a number of chunks; `NoFile` stands for a
status that is neither 200 nor 203. `disk` tells the target file's former content
from a complete new body and from anything else ("torn"). `Faults` are the
operations the disk may refuse. A redirect starts the download over from inside
the slot. The values of headers, the hash and the network's own retries are left
out; a validator that rejects is a failure of the reply's data.

`sound`, chosen in `Init`, is an assumption some properties make and not a member:
the sink can be opened and written, and no abort meets a redirect. Without it a
download may stay silent for ever (section 5), and `Reports` and the use of the
save file claim nothing; `ReportedOnce` and `DiskIntact` claim everything all the
same.

### HttpMetaCache

One entry of one base. `heap` holds the `MetaEntry` objects, because a download
keeps the object it was given while the cache may have replaced it by another;
`index` is what the index file says; `dirty` is the 30 s timer. Contents are the
versions the server published and `Junk`; the hash of a file and its `ETag` are
the version. `Tick`, `Publish`, `Tamper` and `Respond` are the world: the clock,
the server, whoever else writes the file, the replies. `Restart` is a crash: the
memory is gone, the index is read.

Not in the model: two writes of the file within one tick of its time stamp
(milliseconds in the code), and, by `QuietDownloads = TRUE`, writers of the file
while a download of it is under way. With `FALSE`, `ServedGenuine` is violated:
after a 304 `finalizeCache()` stamps the time of a file it did not hash.

### LaunchTask

The pipelines are those `MinecraftInstance::createLaunchTask()` builds; a step is
its kind, as far as a launch can tell kinds apart (the table is at the head of
the module). `call` is what runs inside the current call chain, so that a step
that reports a failure and then works on (`ExtractNatives`, `ModMinecraftJar`) is
resumed after `onStepFinished()` returned. `proc`, `m_is_aborting` are the
`LoggedProcess` of the current step; `profiler`, `controller` and `box` are the
parts of `LaunchController` that interfere: the profiler's dialog and the
question whether to kill the game, whose answer may come much later.

Left out: what the steps write, the text of commands, the log, and the progress
dialog's details. `claim` in this module only tells whether the lock is held.

### PackProfile and GameUpdate

`components` are the rows of the list with what `mmc-pack.json` keeps of each,
`indexed` the keys of `componentIndex`, `disk` the rows of the file and `dirty` the
running save timer. `known`, `local` and `inProgress` are the states of metadata
entities, which every load shares; `slots` are the remote loads of the update task,
filed under the row number they started with. `phase` cuts the task's synchronous
chain at the points where its code calls itself: in "load", "resolve" and "inject"
nothing else happens, in "idle" and "wait" anything may. `todo` are the additions of a pass;
`InsertDependency` takes the first in the order of the code's `RequireExSet`. The operations of the
version page are the actions of `Edit`: move, install, remove, change a version,
customize, revert, enable. A package is a uid with versions, each with the `requires`
and `suggests` of its version file; what else a patch file says is left out.

`GameUpdate` has the subtasks of `MinecraftUpdate` in their order, `u_step` for the
rest of a call chain (`next()` runs the subtasks that end inside their own
`start()`), `job` for the download a subtask waits for, and `applied` for the
profile the libraries were taken from. `MinecraftLoadAndCheck` is an update of mode
Offline with the component task alone.

The user may edit the list whenever the event loop runs, also while remote loads wait:
the constructor of `VersionPage` starts an online reload and leaves the page enabled. A change
of a version starts a new task in the place of one that waits, whose downloads go on calling it
(`dangling`): `Crash` is what then becomes of the launcher, or of a result for a row that is
not there any more. `disturbed` is a history: a row was moved, removed or reverted while the
task waited. One dialog is modal and used for one thing: while a running update holds the
component task no other task replaces it (`TaskHeld`). The other edits are allowed then too, which is
more than the page can do.

Excluded: loads of the same entities by other instances; duplicates in
`mmc-pack.json`; the hard-coded version of intermediary mappings. A library job
that meets a null jar goes on after it failed. No subtask runs before its
turn here, so `m_failed_out_of_order` is never set.

### InstanceList

`place` has for each thing (an instance's folder, whatever it is called) where it
is; the folder of instances is its image. `m_instances` is the list,
`m_instanceGroupIndex` the groups, `instgroups` the file, `saved` which ids the file
speaks of. `noticed` is an event of the watcher that is pending and `missed` one that
a `WatchLock` dropped (`WatchLock.h:13` removes the path and adds it again).
`task` is the `InstanceStaging` of the one modal progress dialog: its child works,
then the commit is tried, then the backoff timer retries it; `timer` is the
`QTimer`, which repeats and which nobody stops. Names are tried in the order of
`Fresh` and `Restored`, as `FS::DirNameFromString()` and `undoTrashInstance()` do.

Left out: `on_InstFolderChanged()` (another folder is another list), failures of
writing `instgroups.json`, which groups are collapsed, copies by hard links and the
settings of an instance. A move of a folder succeeds or fails as a whole.

### PackInstall

`import` is fixed at `Init`: the platform, whether the archive is fetched, the old
and the new version of the pack, whether an instance of it is there (`similar`), and
whether that one has its index. `stage` is the event loop the import waits in; each
has its ends and its abort. `m_files`, `m_files_to_remove`, `override` and `m_abort`
are members; `staged`, `inst` and `made` are folders, as the set of files they hold.
The choices of the user (update, new instance, cancel; skip blocked mods) are
alternatives of the action that shows the dialog.

The tasks of the other platforms share shape and fate, so they are more values of
`import.platform`: `Stores` read a manifest, fetch its files into the cache and copy or
extract them from there (`ManifestEnds`, `FetchEnds`, `CopyEnds`; FTB looks them up like
Flame), `Bundles` and the configs of ATLauncher are one archive (`DownloadEnds`,
`UnpackEnds`), "Copy" is `InstanceCopyTask`. For these `report` is what `InstanceStaging`
reports, which on an abort does not wait for its child (`AbortInstall`). Stage "silent" is a
manifest that could not be parsed: the task waits for nothing, and only an abort ends it.

Excluded: invalid indexes and archives of an import (they fail before anything is staged),
the modes Reinstall and Update of ATLauncher, which no page asks for, the Escape key of the override question, files that are a mod and an override at once,
mirrors of a Modrinth download.

### ResourceFolder

`folder` and `index` are the disk: the files of mods with their time stamp, and the
mods that have a file of metadata. `m_resources` and `m_resources_index` are the rows
and the map from id to row. `task` is the one update task of `ResourceFolderModel`,
whose thread reads index and folder at some point after its start and whose end is a
queued event; `m_active_parse_tasks` are the parsers by ticket, whose threads read
the file at some point too. `downloading` is the pair of `ModDownloadTask`: metadata
first, the file later.

The user, other programs and other parts of the launcher may act at any time: an update or
a parser that is under way, or whose end is queued, keeps nobody from toggling, deleting or
installing a mod; only a download has a modal dialog. What the code cannot keep right then
is kept apart by histories: `renamed` and `late` of a parser (its row was renamed under it; its
resource was dropped when its end was queued already, or not waited for any more, so that it is handled
with freed memory, whose name may be any), `doubtful` of a row (its details came from such an
end, or it was toggled after its file had changed unseen), `misfiled` of the list (a
late end made an entry for a name without a row, or a file was renamed to the name of another row). The
properties claim nothing of the details of a doubtful row and nothing of a misfiled list.

Left out: invalid metadata, deletions and renames that fail, folder
mods, `uninstallMod(preserve)`, the order of a `QSet`. The folders of resource packs,
textures and shaders share the base class.

### AccountList

`list`, `dflt`, `queue`, the two timers and `activity` are members of
`AccountList`; `busy` are the accounts with a `m_currentTask`, `heard` those whose
task reports to the list as well, `current` the account of the list's own
`m_currentTask`. `launch` has for every `LaunchController` whether it is idle, waits
in the progress dialog of `login()`, tells the user that the account cannot be used
("told"), prepares, or plays, with the account it was
given and the account it claims. `uses` is the count of `UseLock`s. `InternalId` is
the id the refresh queue holds: the queue and `requestRefresh()` find the first account
with it.

`MSAStep::perform()` reports `STATE_DISABLED` when the account was made by another client,
and refreshes all the same. A flow that `login()` started then lives until `login()` returns, because its
`deleteLater()` waits for the event loop that `login()` was called from; `stray` are the launches that
keep such a flow. `StrayReports` is a reply to it under the message of `login()`: it writes a state of the
account, which is Working when the next step begins, with no task to end it. `strayed`, a history, are the
accounts whose state such a flow wrote last; `TaskGoesOn` is a flow with a task that writes Working over it.

Abstractions: every account has a profile, and `Profile` stands for the profile's
id and its name alike; `Errored` is treated like `Unchecked`, and `Expired`, `Disabled` and
`Gone` are one state, as `login()` treats them alike; validity is none, due or
fresh; the question after every third try of `login()` may come at any try;
dialogs that are open at once may be closed in any order. `accounts.json` and skins
are not modelled. An account that nobody holds any more is destroyed with its task;
since the code then uses freed memory in one case (the replaced account is destroyed
while its task runs) the model lets such a task end or vanish with no effect on the
accounts that live.

### AuthFlow

`steps` and `step` are `m_steps` and `m_currentStep`, `wait` is what the current step
waits for; the device flow of a new Microsoft account (code, polling interval, poll,
expiry) is the waits "device", "interval", "poll" and "late". `token` has for each
token whether it is of this sign-in, of an earlier one, or missing: the content of an
answer is the choice of its outcome. `Report` is `stepFinished()` with all it calls,
up to the state of the account. A new sign-in of the account replaces a flow that
has ended even if a reply of it is still under way. Saving of the account is left out.

### Updater

`phase` is where the slot `MainWindow::updateAvailable()` stands: a dialog, the modal
download, or a point of `installUpdates()`, which blocks the event loop between its
dialogs. The first group of variables are members of `UpdateChecker`. `disk`, `tmp`
and `backup` are the installation, the folder of the download and the one of
backups; a content is the version of a file the user has or the new one, and `Flat`
the name a path has in the two flat folders, where two paths may share one. The lists
of files are sets with the number of http sources of each entry. `Op`, `Replace` and
`Delete` are one round of the loop; `RestoreReplaced` and `RestoreDeleted` one of the
rollback. A move fails when the source is missing or the target there, and may fail
for reasons of its own. `Restart` is a new process after an end or a kill, with the
files as they are.

The counts, windows and controllers are those of `Application`; `Launch`,
`ControllerEnds` and the windows come from the user or by messages of another
process, which arrive under any dialog. A launch here is its controller;
`LaunchTask` has what it does.

Left out: the updater of macOS, permissions of files, the flags that are passed on
to the new process, and a launch of an instance that is in preparation (section 5).

## 3. Runs

| run | shows |
|---|---|
| `container_safety` | the containers' bookkeeping (`Bookkeeping`: a running child is always reachable, every added child is in exactly one place, no child is started while it runs or twice, three tries at most), the bound on parallel children and the order of the sequential classes (`ChildrenPaced`), what success means, that nothing starts after an abort, that the container is a `TaskContract` (`ContractKept`) and that it reports |
| `download_safety` | at most one report per start, in the state it names; the target is replaced only by a complete body together with success; success has data, no partial data is left in memory, no dropped file is used (`BodySound`); a sound download always reports |
| `metacache_safety` | a hit is a file the server sent (`ServedGenuine`); a fresh entry is saved or will be, an eviction lasts until the server was asked (`IndexFollows`) |
| `launch_safety` | order of steps, everything undone once (`Undone`), the running flag and the one word to the waiting game (`GameGuarded`), and that an accepted abort begins no step and ends the launch |
| `gameupdate_safety` | list, index, file and timer agree (`ListKept`); remote loads fit the rows they were started for, the task succeeds only with what the right metadata says in each row, unless the user moved, removed or reverted one while it waited, and an aborted update downloads nothing more (`UpdateSound`); the task removes only a dependency that no row requires and gives another version only to a dependency without a patch file (`TaskKeepsChoice`); the update goes past the component task only with every requirement met and, but for such a row, with every version file, and takes the libraries from the list as it is (`LibrariesReady`); a started update ends |
| `instances_safety` | no two instances share a folder, the list is the folder unless an event is owed to it, the file has the groups (`ListSound`); what reports success is listed in its group (`CreationLands`); every staging ends, after five attempts at the latest |
| `packs_safety` | an instance is touched only by an update that its user wanted, after its downloads (`PackSound`); what is committed has the files of the new version, but for those given up (none, for a store), and none of the old (`Complete`) |
| `folders_safety` | when all tasks have ended each file is in the list once, where its index says, with its own details unless the row is doubtful, and unless the list is misfiled (`FolderShown`); they do end, and the open page stays so from then on (`Settles`) |
| `authflow_safety` | each request carries tokens of its own sign-in (`Chained`); a success has the game token, a soft failure keeps the refresh token (`EndsUsable`); one report per start (`ContractSpec`); a sign-in ends (`SignInEnds`) |
| `accounts_safety` | the refresh schedule never stops, the default account is listed, an account is Working exactly while it has a task, unless a flow that had reported its end wrote the state (`WorkingHasTask`), the activity count covers the tasks that run (`Counted`), an online launch finds an account to claim |
| `updater_safety` | a launcher that hands over has the new version complete, one that goes on after a failure has all it had, and no old file is lost even if the rollback fails; one update at a time; the process exits only with nothing left (`InstallSound`); loading of channels and checks end (`ChecksEnd`) |
| `accounts_in_use` | *violation*: an account is queued, claimed by a launch, and refreshed under the game 20 s later |

The violation is a disagreement between the code and its own comment, quoted
under `findings`. All other properties hold, with the exceptions each of them names; section 5 says
what TLC finds without them.

### Bounds, and why they are enough

- Containers: three children (one that cannot be aborted, two that may vanish), two slots, two starts, two aborts. With two slots and
  three children one waits while two run; a second start meets the leavings of
  the first; a second abort meets the state after the first. `m_try` has its
  real bound of three.
- Downloads: two chunks (a part of a body and all of it), two redirects
  (a redirect in a redirect), three starts and two aborts.
- Cache: two versions, a clock of three values, lifetimes that end and that do not
  end within them, two downloads of the same resource. Two downloads suffice for
  a download that outlives the entry object it was given.
- Launch: the whole pipelines, with steps that behave alike named once. Every step of
  every kind may fail and be aborted.
- Game update: three packages that require, suggest and share a dependency, two versions
  of each, a list with Minecraft alone and one without it; one edit before, during or
  after one update, a restart at any time, every network result. A resolution takes up to
  three passes with these packages.
- Instances: three names, so that a name is taken, free and taken again; three
  things; two operations, one change by another program; the five attempts of a commit
  are the real ones.
- Packs: two files and two overrides, in any distribution over the old and the new version: enough
  for a loop that skips a neighbour and for a copy that loses a file but not the last.
- Folders: one mod with an enabled and a disabled file, both of which the folder may have, and
  metadata; one operation and one change from outside, which meet at every point of the updates and
  parsers they cause. Two rows suffice for an update that drops one and keeps the other, and for a
  rename to a name that is taken. Two mods are covered by the theorem, whose invariant TLC
  searched for six million states with two mods.
- Sign-in: every type, three sign-ins in a row (one leaves tokens, the next fails on
  them, the third starts from that).
- Accounts: an online account, another sign-in for its profile, an offline
  account, one launch, one request of the user. The replacement needs two
  accounts of a profile; the offline one is the only kind whose refresh ends
  inside the call. Two launches are covered by the theorems only.
- Updater: two paths with flat names apart or shared, any lists over them, up to two http
  sources, every subset of the downloads given up; one instance; restarts at any time,
  so that an update meets what the one before left. Two paths suffice for a failure
  after a file was replaced and for a clash of names.

`CHECK_DEADLOCK FALSE` is set where the system may rest for ever: every owner may
stop calling, and the bounds end the history. `AccountList` never rests.

### Fairness

- Containers: the event loop delivers what is posted (`WF` on `Deliver`), and a
  running child ends (`WF` on `ChildEnds`); `Reports` excepts a container with a stranded
  child and one that was aborted. No fairness on `Start`, `AddTask` or aborts.
- Downloads: a reply finishes (`WF` on `ReplyFinished`), since the network stack
  ends a reply by its own errors.
- Launch: the synchronous rest of a call chain runs (`WF` on `Calls`), a process that was
  killed or told to abort ends, an update that was aborted ends. No
  fairness on the user, the game, the dialogs or the profiler.
- Game update: `WF` on `Progress`: the rest of a call chain runs, and loads and jobs
  are answered (by an error at the latest). None on edits, saves, restarts, aborts.
- Instances: the child of a staging ends (`PackInstall` and the dialogs it shows),
  its timer ticks, what has ended is deleted. None on the user, on other programs or
  on the watcher.
- Folders: the pool runs what was started and the event loop delivers what was posted
  (`WF` on `Pool` and on `Events`).
- Sign-in: requests are answered or time out (60 s, `AuthRequest.h`), and the code of a
  device expires; none on polling, which goes on for as long as the user waits.
- Updater: jobs end (the index, the channels, both downloads), dialogs are answered and
  `installUpdates()` goes on. None on the user, launches, windows, restarts or a
  download that cannot open its file, which `ChecksEnd` excepts.
- Accounts, cache and packs: safety only, no fairness. That every queued account gets its
  turn is not checked: the state space with fairness is too large for TLC. An import may wait
  for its user for ever.

## 4. Proofs

Every theorem is of the form `Spec => []P`, `Spec => [][A]_vars` or a refinement, for
every value of the constants that meets the assumptions its module names. TLC
checked each inductive invariant on the small instances first. A `..._proofs` module
has a lemma per action, the step lemma that puts them together, and the theorems.

| module | theorems |
|---|---|
| `ConcurrentTask_proofs` | `TypeCorrect`, `ImplementsContract`, `RunningStaysTracked`, `NoChildIsLost`, `StartsStayFresh`, `TriesAreBounded`, `BooksBalance`, `AbortStopsTheQueue`, `ChildrenStayPaced`, `SuccessIsNeverEarly` |
| `Net_proofs` | `OneReportPerStart`, `ReportIsTrue`, `TargetIsWholeOrOld`; `IndexAlwaysFollows`, `HitsAreGenuine` |
| `LaunchTask_proofs` | `LaunchIsUndone`, `GameStaysGuarded`, `StepsRunInOrder`, `AbortStopsForGood` |
| `InstanceList_proofs` | `ListStaysSound`, `CreationIsListed` |
| `PackInstall_proofs` | `ImportTouchesOnlyUpdates`, `CommitIsComplete` |
| `GameUpdate_proofs` | `ListStaysKept`, `UpdateStaysSound`, `ChoiceStaysKept`, `LibrariesStayReady` |
| `Accounts_proofs` | `ScheduleNeverStops`, `DefaultStaysListed`, `WorkingIsWaitedFor`, `ClaimNeverMissing`, `CountsKept`, `UsesAreLaunches`; `SignInChained`, `SignInUsable`, `SignInIsATask` |
| `Folders_proofs` | `InstallStaysSound`; `FolderStaysShown` |

### ConcurrentTask

Assumptions: those of `ConcurrentTask` (`Tasks` finite, `MaxConcurrent` positive,
`NextEvent` not a child, subsets). The constants are otherwise arbitrary.

`TypeOK` is inductive by itself; `m_try <= 3` is part of it. `ImplementsContract` needs no
further assumption, since `ContractKept` ends with the first `ConcurrentTask::abort()`. Its
invariant relates `m_state` and `emitted`, and every action is a `Start`, an `End` or a stutter.

The four statements of `Bookkeeping` hold together or not at all: a child that is not
lost could still be started twice if its start were posted while it waits. `Books`
states them over a queue, sets and events that are given to it, so that it also
holds in the middle of a handler, between its own assignments and its call of
`startNext()`. It adds that a child that waits, or whose start is posted, has been tried
fewer than `m_try` times, which is what makes `RetryBound` inductive. `StartNextBooks`
is the lemma about `startNext()` of every class, `RetryQueue` shows that a retry queues
every failed child once (an injection between sets of equal size is a
surjection). `AbortStopsTheQueue` is an action property and follows from the
types alone: of the handlers that may still run after an abort, each finds `m_aborted`.

`ChildrenStayPaced` counts places: each child at work and each posted call of
`startNext()` has taken one (`Room`), and `Pace` bounds them by the slots of the class
until a restart, which posts calls of its own; this is why the bound on children after a
restart is one more. `Outcomes` says what the books tell of the children that
ended, `QueueIsRest` and `ClassOrder` that a sequential class takes its children in the
order they were added. They hold again inside the handlers, in the middle of a call.
`SuccessIsNeverEarly` is an action property and follows from the same invariant.

### Download

`Silent` (nothing is emitted while a reply is in flight), `Part` and `Written` (what was
received belongs to the body of a reply that has one), `Opened` (a sound sink has
its save file until the reply is finished), `Local` (a success that is not yet
reported is one of the file that is there) and `Cached` make `ReportedOnce` and
`BodySound` inductive. `ExecuteTaskInv` is about `executeTask()`, which `start()`
and a redirect run.

### HttpMetaCache

`IndexAlwaysFollows` has no condition. Beyond its two parts `Books` says that what was
evicted and saved is not in the index, and that a download holds an object.
`FreeExists` shows, by counting, that the model always has an object nobody holds.

`HitsAreGenuine` assumes `QuietDownloads`. `Trusted` is the heart of it, for every
object and for the index: a recorded time that is the file's implies that the
server sent the file. `Honest` says the same of what a download goes on, from its
request to the 304: a file that it asked about with a tag is still what it was.

### LaunchTask

Assumption, besides the kinds: at most one "game" in a pipeline, as
`createLaunchTask()` builds them (with two, the word said to the first would count
for the second). `Phase` says which calls can be under way in which state of the
launch, `Processes` that a process lives exactly while the launch waits for a step that
has one, `Words` when the word to the game can still be said, `HeldOK` that only steps that
were started hold something, `AbortHolds` that a launch that accepted an abort can
only fail: its process is dying, its update was aborted, or its failure is being
delivered.

### InstanceList

Assumptions: the names to try are folders, and folders, places, and the values for
"no group" and "no file" are distinct. `Disk` has `OneHome`, `Lists` has
`ListFollowsFolder`. `Groups` must say more than `GroupsFollow`: the file agrees with the index
on everything it speaks of, on the list or not, since a list that is read later makes
an instance of it. `Staging` says that what a child works on is staged and that a
retry has between one and four attempts behind it. `FirstFreeIsFree` (by well-founded
induction) is about the names that are tried; `DiskMoved`, `FoldersKept` and `FoldersLeft`
are about a folder that moves, `GroupsWritten` and `GroupsRead` about the file.

### PackInstall

`Undecided`: before the question nothing is decided about an update. `Compared`: what
is not downloaded is of the old version too, and stays; what only the old version has
is to be removed. `Prepared`: what waits in the staging folder at each stage, which
for the last two is the new version without what was given up. `Updated`: where the old
files are. `Complete` then follows at the commit from the last three. The platforms with tasks of
their own decide nothing about an old instance; `OwnInv` is the one lemma about their steps.

### PackProfile and GameUpdate

Assumptions (`Constants`): each package is once in `UidOrder` and Minecraft is one of
them; versions are finitely many positive numbers; what version files and the disk say, and the first
lists, are of known packages and versions, a list naming a package once; a bound on updates. Which
package requires which, in circles or not, and what the servers have is arbitrary.

The invariant has a half for the list and one for the update. `RowsSound` is the heart of
the first: a row that is loaded shows a version file, and one with metadata that is
not loaded has no patch file in the way, so that the answer of its remote load makes it
show one. `WaitSound` is what makes `SlotsFitRows` and `ResultsFiled` inductive while the user
edits under a task that waits: a row that a load is under way for has metadata of its version, or was
customized meanwhile (`Pending`), and while all went well every other row shows its version file and says
what that says (`Ready`). `RowsUpheld`
names what an operation must leave of the rows for this to go on (`WaitGoesOn`): customizing a row, disabling
one and inserting one at the end do; moving, removing and reverting
do not, and set `disturbed` (`Disturbance`), after which it is enough that the loads are under way
(`WaitDisturbed`) and only the exception of the properties is left. `AllReady` carries the result through
the rest of the task to its end. `TaskSound` says that the task waits exactly while it has slots
and that an addition has its place in
the list. `OnlyServed` says that metadata is what some server had. Since the rows may only be
touched through the indices the slots remember, the lemmas about the operations on rows
(`RemoveRowKeeps`, `RowInserted`, `OneRowChanged`) say once what a removal, an
insertion and a change of one row leave true. The end of a resolution is the other
hard step: `NothingToDo` shows that when a pass finds no conflict, nothing to add and nothing to
change, each requirement is met, `NotTwo` that two requirements of a set without conflict
do not ask for two versions, by cardinality. `MinIsThere` and `MaxIsThere` (well-founded
induction) are about the choices the code makes by order.

`UpdateInv` relates the subtasks to the list: `JobFits` and `StepFits` say which job and
call belong to which subtask, `NextReady` that behind the component task all requirements
are met and, undisturbed, all rows ready, and `ProfileFresh` that the cached profile is dropped before the libraries are
taken from it. `ChoiceStaysKept` and `LibrariesStayReady` are action properties and follow from
the invariant.

### AccountList

Any set of accounts and launches, any profiles, any loaded list. `IInv` adds to the
four theorems the types that are needed, `FreshUnknown` (an account the user has yet to
create is known to nobody and has no task, or signing in could give a second life to a
task) and `SignInListed` (the account a login waits for keeps its profile on the list,
because no row can be removed under a modal dialog and a replacement has the same
profile), which is why the claim after the wait succeeds. `WorkingIsWaitedFor` says of each account
whose state no stray flow wrote last that it is Working exactly while it has a task. It needs
`StrayInLogin` (a flow that goes on belongs to a launch that is still in `login()`), since an account that
the user has yet to create must not be reached by one. `ScheduleAlive` rests on
`ListHears`: the task `current` names is busy, and heard by the list, from the
moment `tryNext()` sets it. `FirstRow`, by well-founded induction over the rows,
gives the row `getAccountByProfileName()` finds.

`CountsKept` needs that the queue keeps its type while `fillQueue()` runs over the list,
which is a recursive function: `StepsCompose` composes the steps of such a loop, by
well-founded induction. `ActivityCovers` is inductive by itself; `UsesCounted` says
more than the run checks, that a use count is the number of launches that play with the account.

### AuthFlow

`Position`: the current step is the k-th of the type's flow, the others are those after it,
and while a request is under way the tokens of all earlier steps are of this
sign-in; each token a request carries is obtained by an earlier step
(`CarriedBefore`). `Silent`: a flow that runs has reported nothing. `EndsUsable` follows by
cases over what ends a flow; that a success has the game token needs `Position` for the
last step.

### Updater

Assumption: finitely many paths, and "no file" is not a content. Names may be shared by any
paths, an update may have any lists and sources, any download may be missing, and any move may fail.

`FilesInv` is about the files. `Planned` says what the operations to come will
do, `Doomed` that one of them can never be done, since its download is missing: one of the two
holds until the last operation, hence a hand-over means the new version is in place
(`InPlace`). `Fetched` is the reason why a name that two paths share cannot put the file
of one in the place of the other. For the rollback, `Stored` says that each old file
is in its place or in the folder of backups, `Owned` that what is there under a name
is the file that is to be brought back, and `NamesApart` that no two of these share
one. That the operations the code lists are all those that are needed uses
lemmas about `FlattenSeq` and `SetToSeqs`. `DeskInv` has the counts of windows and
controllers: the launcher exits with none left.

### ResourceFolder

Assumptions: finitely many mods, and metadata is called after one of them. `FolderStaysShown`
has no other hypothesis. Operations, changes from outside and time stamps are not bounded.

What is inductive is `misfiled \/ FolderInv`: a list that was misfiled stays so (`MisfiledStays`), and
every step that does not misfile it keeps `FolderInv` (`FolderStepKeeps`), whose parts say what holds of
the list while tasks are under way:

- `RowsIndexed`: the index gives each row, and each row the file it is indexed by.
- `Tickets`: a row has the ticket of a parser that no other row has, or none. So a parser has one row
  to report to, whatever that is called by then.
- `ParsersFit`, `EntriesFit`: a parser that will report is late or belongs to a row; it has the row's
  name for its end, and reads the row's file unless the row was renamed under it. A row
  waits for a parser that will report, or has the details of its file, or is doubtful. Hence no row waits for
  ever for details that nobody reads.
- `Reads`: details that were read of a file are those of the stamp its row has, unless
  the file has changed since; then its stamp differs, because no stamp is later than the
  clock (`FolderTyped`), and the next update asks for them again.
- `UpToDate`: unless another update is asked for or will be, the update under way, and after
  it the list, has what is on the disk (`FilesShown`). `Scheduling`: an update is
  asked for behind another one only while that runs.

The hard step is `UpdateSucceeded`. The rows that stay are numbered by rank
(`Staying`); `RanksEnumerate` proves by well-founded induction that ranks of a finite set of
numbers enumerate it, `RowsStay` that what stays are the rows whose file was
found, each once, and `RowsApplied` that the list is these, some started over, and a row
for each new file. `ParsersApplied` gives every row that was started over or is new a parser of
its own, and `SparedStays` and `SparedGoOn` say that a parser is aborted, or comes late, only if its row
went or was started over. The two other hard steps are `Toggle`, which renames a row under its
parser, and `ParseSucceeded` of a late parser, which may change the details of any row. TLC checked
`FolderInv` on the instance of the run.

### Only model-checked

Every liveness property, which is out of the prover's reach. What a recursive function
computes can be proved by well-founded induction on a least counterexample, as above;
induction theorems that take the statement as a parameter cannot be used.

## 5. Divergences

Definitions that state what a comment or name of the code promises and that TLC
refutes when they are checked under the cfg in brackets (they are in no run):

- `AllCleanedUp` (`LaunchTask`, launch_safety): "used to clean up or otherwise undo things
  after the launch ends" (`launch/LaunchStep.h:45`). `ExtractNatives` works on after
  `emitFailed()`, so it extracts behind its own `finalize()`.
- `LookupAbortStops` (`LaunchTask`, launch_safety): an aborted lookup is taken for its
  success (`launch/steps/LookupServerAddress.cpp:42-65`) and the launch goes on.
- `EvictionFetches` (`HttpMetaCache`, metacache_safety): an evicted entry keeps its
  `ETag`; a 304 revives the rejected file.
- `CheckTells` (`GameUpdate`, gameupdate_safety): `MinecraftLoadAndCheck.cpp:16` promises
  a check; an offline load succeeds with requirements unmet.
- `AbortLeavesInstance` (`PackInstall`, packs_safety): `InstanceCreationTask.cpp:34-36`
  "We'd better not let the user abort in the middle of it"; a Flame update that is
  aborted while its downloads run goes on to remove the old files.
- `CreateTells` (`PackInstall`, packs_safety): `InstanceCreationTask.h:30` "whether the
  instance creation was successful"; it is, with downloads that were given up, without the configs
  of ATLauncher or all of an old FTB pack, whose unpacking nobody checks (`ATLPackInstallTask.cpp:714`,
  `legacy_ftb/PackInstallTask.cpp:142`; the second only if the folder of jar mods had been made), and
  with a copy of an instance that lacks files, since `FS::copy` keeps the error of the last file only
  (`FileSystem.cpp:187-235`).
- `OverridesRemoved`, `VersionsFollow` (`PackInstall`, packs_safety): the old client
  overrides of a Modrinth pack stay (`ModrinthInstanceCreationTask.cpp:131-132` reads their
  list and loops over the other one), and its update keeps the old versions of Minecraft and loader.
- `RevertedOnFailure` (`Updater`, updater_safety): "Changes will be reverted"
  (`UpdateController.cpp:359`). When a new file never came, the first move of the rollback
  (the new file back to the download) fails, the old file stays in the folder of backups and
  the launcher quits; the next update empties that folder.
- `FirstSource` (`Updater`, updater_safety): "we'll just use the first http one"
  (`updater/GoUpdate.cpp:175`). The loop goes on, so an entry with two http sources is replaced
  twice; the second finds its backup in the way, and the update can never succeed.
- `StateAsReported` (`AuthFlow`, authflow_safety): `AccountTask.h:44`; `Yggdrasil.cpp:291`
  and a disabled account with an empty refresh token report one state and leave
  another.

Behaviour that a constant keeps out of a run, and what the run finds with it:

- `QuietDownloads = FALSE`: a 304 stamps the time of a file nobody hashed
  (`MetaCacheSink.cpp:78`), and a file another program wrote meanwhile is a hit.
- `sound = FALSE` in `Download`: a sink that cannot be opened makes `Download.cpp:95` call
  `emitFailed()` in state Failed, which reports nothing; a failed write leaves
  `m_output_file` null and `FileSink.cpp` uses it; a redirect is followed before the state is
  looked at, and an aborted download never reports.

Behaviour that a property excepts, and what TLC finds when the exception is taken away:

- `WorkingHasTask` without `strayed`: the application calls `fillQueue()`, a launch starts to sign in, the task reports
  `STATE_DISABLED` and goes on (`MSAStep.cpp:87-91`), `login()` shows its message
  (`LaunchController.cpp:302-313`), a reply comes, and the account is Working with no `m_currentTask`
  (`AccountTask.cpp:73-75`). A later `login()` with it goes round without waiting, up to the question after
  every third try.
- `SlotsFitRows` and `ResultsFiled` without `disturbed`: a row is moved or removed while the task waits,
  and a result is filed under the row that has its number now, or under none, which is a null pointer
  (`ComponentUpdateTask.cpp:256`, 660). `LibrariesReady` without it needs two edits (`MaxEdits = 2`): a row without a
  version file gets past the component task. A change of version, or a removal, while the task waits may also end the launcher (`Crash`).
- `FolderShown` without `doubtful`: a mod that is toggled while it is parsed moves from under its parser, which
  then reports details of a file that is gone, and an update that finds the stamp unchanged does not ask for
  them again; a mod that is toggled after its file had changed unseen has the new stamp and the old
  details; the end of a parser whose resource an update dropped is queued behind that update and
  reads freed memory (`ResourceFolderModel.cpp:272`).
- `FolderShown` without `misfiled`: such an end makes an entry of the index for a name without a row, with row 0
  (`ModFolderModel.cpp:251`; `ResourceFolderModel.h:288` asserts that an entry leads to the row of its name), and a toggle onto the name
  of another row makes two rows of one name (`ResourceFolderModel.cpp:209`, the FIXME of the source).

Read in the source, inside a modelled component but outside what a property says:

- Instances: the groups of the second instance of a fresh installation are not read
  (`InstanceList.cpp:576-580`); `undoTrashInstance()` saves the groups before the list knows the
  instance (322-343), so its group is lost if the launcher ends before the next save; a failed
  trash drops the group of an instance that stays (297-307); a late tick commits what was reported
  as failed or aborted; `abort()` of a staging ignores what its child says of it (797-804), so
  the child is destroyed, also while a thread of it unpacks; the staging folder of such a task stays.
- Packs: `FileResolvingTask.cpp:10` aborts the first of its jobs only, after which the dialog
  waits for an end nobody reports (stage "lost"); the lambda that tries mirrors captures its loop
  variable by reference (`ModrinthInstanceCreationTask.cpp:242`). A manifest that did not come or cannot
  be parsed ends nothing (`ATLPackInstallTask.cpp:102-106`, `FTBPackInstallTask.cpp:109-114`,
  `SolderPackInstallTask.cpp:90-94`); an abort while a thread unpacks destroys what the thread uses; the
  choice of a loader version is taken when none was chosen (`AtlUserInteractionSupportImpl.cpp:89`).
- Folders: a mod that was parsed forgets its metadata (`minecraft/mod/Mod.cpp:164-176`: the parser's
  details carry none), so deleting it looks for metadata under the name the mod calls itself
  and may leave it behind; the cleaning of orphans deletes the metadata of a mod that appeared after the
  folder was read (`ModFolderLoadTask.cpp:81-91`); an install is refused when the disabled form exists
  (`ResourceFolderModel.cpp:99-103`).
- Accounts: `MinecraftAccount.cpp:278-283` "Always refresh accounts that have not been refreshed
  yet" holds neither for loaded accounts, which are Assumed and refreshed hourly, nor for new
  ones, whose validity stays None after a success that ends in `GetSkinStep.cpp:42` rather than in
  `AuthFlow::succeed()`; `MSAStep` assigns a fresh `AccountData`, which loses `internalId`, so
  Microsoft accounts signed in during one session share the empty id and the second is never
  refreshed (the run keeps ids distinct); the count of activities never returns to 0 when an account
  is replaced under its refresh (`AccountList.cpp:136`), and the replaced object is destroyed while
  its task runs (130); a soft failure is not saved to `accounts.json`.
- Components: enabling a row leaves the cached launch profile as it was (`PackProfile.cpp:925`). A task that is
  replaced or fails leaves lambdas behind that its downloads still call. The update task removes a
  dependency that nobody requires any more together with its patch file, also when the user had
  customized it (`ComponentUpdateTask.cpp:392-408`, `PackProfile::remove`).
- Updater: `m_currentBuild` is -1 for good, so each check finds an update and "No update
  found" comes only when an instance runs; `m_checkUpdateWaiting` is never cleared, so a
  reload of the channels by the settings checks again; `updateCheckFailed()` and
  `vinfoDownloadFailed()` cannot be reached, since a `NetJob` does not fail; a file that
  an update added stays after its rollback.
- Application: an instance that a message starts during the modal download runs on under the
  installation, since `MainWindow.cpp:1551` asks before the download only (the model has this).
  A message to launch an instance whose launch is in a dialog destroys its controller under that dialog
  (`Application.cpp:1236`; undefined, left out). An import message with no main window
  uses a null pointer (1076); a start with an unknown profile returns with neither window nor launch
  (978). A profiler that cannot start ends its controller before the game, which is then not counted.

## 6. Plan

What is left, most important first:

1. `LocalPeer`: lock file and socket of two launchers.
2. Saving of `accounts.json` and a crash between a sign-in and the save.
3. `LogModel`, settings with overrides, and version comparison as a function against its
   definition.

Every invariant and every action property of a run has its theorem. Proofs next: what the
safety half of the liveness properties needs (a task that is under way can always go on).

## 7. Not modelled

The components with status `not_modelled` in `PROJECT.json`, each with its
reason: parts that come next in the plan; parts that only read or write files
(parsers, archives, icons, Java probing); single requests without state of
their own (news, uploads, skins); the widgets of `ui/`, apart from the dialogs
that decide what the core does next; vendored code; build files and resources.

Of the hazards in `PROJECT.json` three have no property: the eviction that a 304
undoes (`HttpMetaCache.cpp:143`), which is what the code does and is stated by
`EvictionFetches`; the silent end of `ClaimAccount.cpp:17`, which is in the model, so
that no liveness of a whole launch is claimed; and the second launch of
`Application.cpp:1236`, which is undefined.
