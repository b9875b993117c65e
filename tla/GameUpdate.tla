----------------------------- MODULE GameUpdate -----------------------------
(* What runs before the game starts: minecraft/MinecraftUpdate.cpp with its  *)
(* subtasks in update/, and MinecraftLoadAndCheck.cpp for an offline launch, *)
(* over the component list of module PackProfile, whose update task is one   *)
(* of the subtasks.                                                          *)
EXTENDS PackProfile

CONSTANT MaxUpdates  \* bound: game updates started

ASSUME UpdatesAssumption == MaxUpdates \in Nat

VARIABLES
    u_state,  \* Task::m_state of the update
    u_mode,   \* Net::Mode it was created for
    u_step,   \* synchronous continuation: "collect", "next" or "none"
    m_tasks,  \* subtasks in order
    current,  \* m_currentTask, 0 before the first
    job,      \* the downloadJob at work, of the current subtask, or "none"
    m_abort,  \* the update was aborted
    applied,  \* history: the profile the libraries were taken from
    updates   \* history: updates started

updVars == <<u_state, u_mode, u_step, m_tasks, current, job, m_abort, applied, updates>>
vars == <<packVars, updVars>>

Always == <<"folders", "libraries", "fml", "assets">>
WithComponents == <<"folders", "components", "libraries", "fml", "assets">>
Jobs == {"libraries", "fml", "index", "assets"}
CurrentTask == IF current \in DOMAIN m_tasks THEN m_tasks[current] ELSE "none"

GameInit == /\ Init
            /\ u_state = "Inactive" /\ u_mode = "Online" /\ u_step = "none"
            /\ m_tasks = << >> /\ current = 0
            /\ job = "none" /\ m_abort = FALSE /\ applied = {} /\ updates = 0

Settled == Quiet /\ u_step = "none"

\* emitSucceeded() / emitFailed() of the update: its owner drops it and with it
\* the job of a subtask.
Verdict(result) == u_state' = result /\ u_step' = "none" /\ job' = "none"
Work(j) == job' = j /\ u_step' = "none" /\ UNCHANGED u_state
Proceed == job' = "none" /\ u_step' = "next" /\ UNCHANGED u_state

\* executeTask() of MinecraftUpdate and of MinecraftLoadAndCheck: the list is
\* reloaded first.  A second launch waits for the running one.
Start(mode) ==
    /\ Settled /\ u_state # "Running" /\ updates < MaxUpdates
    /\ u_state' = "Running" /\ u_mode' = mode /\ u_step' = "collect"
    /\ current' = 0 /\ m_tasks' = << >> /\ m_abort' = FALSE /\ applied' = {}
    /\ updates' = updates + 1
    /\ Reload(mode)
    /\ UNCHANGED <<job, edits>>

\* getCurrentTask(): a component task that ended inside reload() is gone, and
\* how it ended with it.
Collect ==
    /\ u_step = "collect" /\ phase \in {"idle", "wait"}
    /\ signal' = "none"
    /\ \/ /\ u_mode = "Online"
          /\ m_tasks' = IF phase = "wait" THEN WithComponents ELSE Always
          /\ u_step' = "next"
          /\ UNCHANGED <<u_state, current, job>>
       \/ /\ u_mode = "Offline" /\ phase = "wait"
          /\ m_tasks' = <<"components">> /\ current' = 1 /\ u_step' = "none"
          /\ UNCHANGED <<u_state, job>>
       \/ /\ u_mode = "Offline" /\ phase = "idle"
          /\ Verdict("Succeeded")
          /\ UNCHANGED <<m_tasks, current>>
    /\ UNCHANGED <<components, indexed, loaded, dirty, fileVars, patches, m_profile,
                   metaVars, phase, taskVars, edits, u_mode, m_abort, applied, updates>>


packFixed == <<components, indexed, loaded, dirty, fileVars, patches, phase,
               taskVars, signal, edits>>

\* executeTask() of one subtask; the component task runs already.
FoldersTask == /\ Proceed \/ Verdict("Failed")
               /\ UNCHANGED <<m_profile, metaVars, applied>>
ComponentTask == /\ u_step' = "none"
                 /\ UNCHANGED <<u_state, job, m_profile, metaVars, applied>>

\* LibrariesTask fails at once on a null jar or a local file that is missing.
LibrariesTask == /\ GetProfile /\ applied' = m_profile'
                 /\ Work("libraries") \/ Verdict("Failed")
FMLLibrariesTask == /\ GetProfile /\ UNCHANGED applied
                    /\ Work("fml") \/ Proceed
AssetUpdateTask == /\ GetProfile /\ UNCHANGED applied
                   /\ Work("index")

StartTask(t) == \/ t = "folders" /\ FoldersTask
                \/ t = "components" /\ ComponentTask
                \/ t = "libraries" /\ LibrariesTask
                \/ t = "fml" /\ FMLLibrariesTask
                \/ t = "assets" /\ AssetUpdateTask

\* Faulty variant of NextTask: no test of m_abort.
NextTaskIgnoringAbort ==
    /\ u_step = "next"
    /\ current' = current + 1
    /\ IF current = Len(m_tasks)
       THEN Verdict("Succeeded") /\ UNCHANGED <<m_profile, metaVars, applied>>
       ELSE StartTask(m_tasks[current + 1])
    /\ UNCHANGED <<packFixed, u_mode, m_tasks, m_abort, updates>>

\* next()
NextTask ==
    /\ u_step = "next"
    /\ \/ /\ m_abort
          /\ Verdict("Failed")
          /\ UNCHANGED <<current, m_profile, metaVars, applied>>
       \/ /\ ~m_abort /\ current = Len(m_tasks)
          /\ current' = current + 1
          /\ Verdict("Succeeded")
          /\ UNCHANGED <<m_profile, metaVars, applied>>
       \/ /\ ~m_abort /\ current < Len(m_tasks)
          /\ current' = current + 1
          /\ StartTask(m_tasks[current + 1])
    /\ UNCHANGED <<packFixed, u_mode, m_tasks, m_abort, updates>>

\* The component task ended: subtaskSucceeded() / subtaskFailed(), or nobody
\* listens.
Deliver ==
    /\ signal # "none" /\ u_step = "none"
    /\ signal' = "none"
    /\ \/ /\ u_state = "Running" /\ CurrentTask = "components"
          /\ \/ signal = "Succeeded" /\ u_mode = "Online" /\ Proceed
             \/ signal = "Succeeded" /\ u_mode = "Offline" /\ Verdict("Succeeded")
             \/ signal = "Failed" /\ Verdict("Failed")
       \/ /\ u_state # "Running" \/ CurrentTask # "components"
          /\ UNCHANGED <<u_state, u_step, job>>
    /\ UNCHANGED <<components, indexed, loaded, dirty, fileVars, patches, m_profile,
                   metaVars, phase, taskVars, edits, u_mode, m_tasks, current,
                   m_abort, applied, updates>>

\* Faulty variant of JobSucceeded: nobody is told about the assets.
JobSucceededSilently ==
    /\ Settled /\ job # "none"
    /\ \/ job = "libraries" /\ Proceed
       \/ job = "fml" /\ (Proceed \/ Verdict("Failed"))
       \/ job = "index" /\ (Work("assets") \/ Proceed \/ Verdict("Failed"))
       \/ job = "assets" /\ job' = "none" /\ UNCHANGED <<u_state, u_step>>
    /\ GetProfile
    /\ UNCHANGED <<packFixed, u_mode, m_tasks, current, m_abort, applied, updates>>

\* The download job of the current subtask ends well: FML libraries are still
\* copied, the assets index is read and may ask for objects.
JobSucceeded ==
    /\ Settled /\ job # "none"
    /\ \/ job = "libraries" /\ Proceed
       \/ job = "fml" /\ (Proceed \/ Verdict("Failed"))
       \/ job = "index" /\ (Work("assets") \/ Proceed \/ Verdict("Failed"))
       \/ job = "assets" /\ Proceed
    /\ IF job = "index" THEN GetProfile ELSE UNCHANGED <<m_profile, metaVars>>
    /\ UNCHANGED <<packFixed, u_mode, m_tasks, current, m_abort, applied, updates>>

JobFailed ==
    /\ Settled /\ job # "none"
    /\ Verdict("Failed")
    /\ UNCHANGED <<packFixed, m_profile, metaVars, u_mode, m_tasks, current, m_abort,
                   applied, updates>>

\* abort(): the component task cannot be aborted, the flag is for next().
Abort ==
    /\ Settled /\ u_state = "Running" /\ u_mode = "Online" /\ ~m_abort
    /\ m_abort' = TRUE
    /\ IF job # "none" THEN Verdict("Failed") ELSE UNCHANGED <<u_state, u_step, job>>
    /\ UNCHANGED <<packVars, u_mode, m_tasks, current, applied, updates>>

NoUpdate == /\ u_state' = "Inactive" /\ u_step' = "none" /\ job' = "none"
            /\ m_tasks' = << >> /\ current' = 0 /\ m_abort' = FALSE /\ applied' = {}
            /\ UNCHANGED <<u_mode, updates>>
RestartLauncher == Restart /\ NoUpdate
CrashLauncher == (\E e \in inProgress, ok \in BOOLEAN : Crash(e, ok)) /\ NoUpdate

\* The running update waits for the component task.
TaskHeld == u_state = "Running" /\ CurrentTask = "components"

\* The user edits the list. The progress dialog of a running update is modal, which
\* is used for one thing only: no new task takes the place of one the update holds.
EditList == \/ Edit
            \/ ~TaskHeld /\ NewVersion

\* What the event loop and the network bring by themselves.
Progress == \/ Task /\ UNCHANGED updVars
            \/ u_step = "none" /\ Metadata /\ UNCHANGED updVars
            \/ u_step = "none" /\ CrashLauncher
            \/ Collect \/ NextTask \/ Deliver \/ JobSucceeded \/ JobFailed

Next == \/ Progress
        \/ u_step = "none" /\ (EditList \/ SaveTimer) /\ UNCHANGED updVars
        \/ u_step = "none" /\ RestartLauncher
        \/ \E mode \in {"Online", "Offline"} : Start(mode)
        \/ Abort

Spec == GameInit /\ [][Next]_vars

\* The event loop runs and every download ends some day.
FairSpec == Spec /\ WF_vars(Progress)

-----------------------------------------------------------------------------
(* Correctness.                                                              *)

TypeOK == /\ PackTypeOK
          /\ u_state \in {"Inactive", "Running", "Succeeded", "Failed"}
          /\ u_mode \in {"Online", "Offline"}
          /\ u_step \in {"collect", "next", "none"}
          /\ m_tasks \in {<< >>, Always, WithComponents, <<"components">>}
          /\ current \in 0..6
          /\ job \in Jobs \union {"none"}
          /\ m_abort \in BOOLEAN
          /\ updates \in 0..MaxUpdates

\* The update task of the list leaves alone what the user chose.
TaskKeepsChoice == [][Task => ChosenKept]_vars

\* An update that waited for the component task goes past it only when every
\* row has its version file, unless the user disturbed the rows while the task waited,
\* and every requirement is met. The libraries are then taken from the list as it is,
\* never from a launch profile that was cached before an edit or an update of the list.
ComponentsReady ==
    current' > current /\ CurrentTask = "components" =>
        /\ DependenciesMet
        /\ disturbed \/ \A i \in Rows : VersionFile(components[i], known) # 0
LibrariesMatchList ==
    applied' # applied /\ applied' # {} => applied' = {Applied(components', known')}
LibrariesReady == [][ComponentsReady /\ LibrariesMatchList]_vars

\* Once aborted an update starts no download and does not succeed.
AbortedStops == m_abort => job = "none" /\ u_state # "Succeeded"

\* The tasks of an update stay in step with the list: remote loads fit the rows
\* they were started for, their results are filed there, and an abort is obeyed by
\* whatever comes next.
UpdateSound == TypeOK /\ SlotsFitRows /\ ResultsFiled /\ AbortedStops

\* A game update that was started ends.
UpdateEnds == (u_state = "Running") ~> (u_state # "Running")

\* An offline check succeeds only when the requirements are met.
CheckTells ==
    [][u_mode = "Offline" /\ u_state = "Running" /\ u_state' = "Succeeded" =>
         DependenciesMet']_vars
=============================================================================
