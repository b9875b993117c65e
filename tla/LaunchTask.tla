----------------------------- MODULE LaunchTask ------------------------------
(* launch/LaunchTask.cpp with its steps (launch/steps, minecraft/launch), the *)
(* process of the current step (LoggedProcess.cpp) and the part of            *)
(* LaunchController.cpp that drives a launch: one launch of one instance,     *)
(* from createLaunchTask() to the end of the game and of the clean-up.        *)
EXTENDS Integers, Sequences

CONSTANT Pipelines  \* the step sequences createLaunchTask() builds

(* What a step is, as far as the launch can tell.                            *)
(*   plain    done at once: TextPrint, CreateGameFolders, PrintInstanceInfo,  *)
(*            VerifyJavaInstall, ReconstructAssets, QuitAfterGameStop         *)
(*   scan     done later: CheckJava, ScanModFolders, ConfigureAuthlibInjector *)
(*   lookup   LookupServerAddress                                             *)
(*   claim    ClaimAccount                                                    *)
(*   update   Update, online; check: Update, offline                          *)
(*   files    ExtractNatives, ModMinecraftJar                                 *)
(*   command  PreLaunchCommand, DirectJavaLaunch, PostLaunchCommand           *)
(*   game     LauncherPartLaunch                                              *)
StepKinds == {"plain", "scan", "lookup", "claim", "update", "check", "files",
              "command", "game"}

ASSUME PipelinesAssumption ==
    /\ Pipelines \subseteq Seq(StepKinds) \ {<<>>}
    /\ \A p \in Pipelines : \A i, j \in 1..Len(p) : p[i] = "game" /\ p[j] = "game" => i = j

VARIABLES
    m_steps,      \* the pipeline
    state,        \* LaunchTask::state
    task,         \* its state as a Task
    currentStep,  \* 0 before the first step
    step,         \* the Task states of the steps
    call,         \* what runs now: "start", executeTask() of the current step;
                  \* "finish", onStepFinished(); "rest", the remainder of an
                  \* executeTask() that reported a failure; "idle", nothing
    unfinished,   \* executeTask() goes on when onStepFinished() returns
    aborting,     \* abort() waits for a call that it made
    proc,         \* the process of the current step
    m_is_aborting,\* LoggedProcess was told to kill it
    mayProceed,   \* LauncherPartLaunch waits for the word to launch or abort
    told,         \* history: the words the waiting game was told
    held,         \* steps whose files or lock are there
    finalized,    \* history: how often each step was finalized
    m_aborted,    \* the update was told to abort
    m_isRunning,  \* of the instance
    m_crashed,
    profiler,     \* "none"; "ready", it will start; "broken"; "prompt", its
                  \* dialog waits for the user; "gone"
    controller,   \* the Task state of LaunchController
    box,          \* the question "Kill Minecraft?" is on the screen
    asked         \* history: abort() of the running launch returned true: "no";
                  \* "lookup", in that step; "yes", in another

launch == <<state, task, currentStep, step, call, unfinished, held, finalized,
            m_isRunning, m_crashed>>
process == <<proc, m_is_aborting, mayProceed, told>>
others == <<aborting, m_aborted, profiler, controller, box, asked>>
vars == <<m_steps, launch, process, others>>

Steps == 1..Len(m_steps)
Kind == m_steps[currentStep]
Ended == task \in {"Failed", "Succeeded"}
Active == currentStep > 0 /\ step[currentStep] = "Running"
Alive == proc \in {"starting", "running"}

\* The event loop runs, for a dialog too: the progress dialog of an update is
\* opened by a call that abort() may have made.
EventLoop == /\ call = "idle"
             /\ aborting => Active /\ Kind \in {"update", "check"}

Init == /\ m_steps \in Pipelines
        /\ state = "NotStarted" /\ task = "Inactive"
        /\ currentStep = 0 /\ step = [s \in Steps |-> "Inactive"]
        /\ call = "idle" /\ unfinished = FALSE /\ aborting = FALSE
        /\ proc = "none" /\ m_is_aborting = FALSE
        /\ mayProceed = FALSE /\ told = <<>>
        /\ held = {} /\ finalized = [s \in Steps |-> 0]
        /\ m_aborted = FALSE
        /\ m_isRunning = FALSE /\ m_crashed = FALSE
        /\ profiler \in {"none", "ready", "broken"}
        /\ controller = "Running"
        /\ box = FALSE /\ asked = "no"

-----------------------------------------------------------------------------
(* The pipeline.                                                             *)

\* LaunchTask::create() and start(), both called by launchInstance().
Launch == /\ task = "Inactive"
          /\ m_isRunning' = TRUE /\ m_crashed' = FALSE
          /\ task' = "Running" /\ state' = "Running"
          /\ currentStep' = 1 /\ step' = [step EXCEPT ![1] = "Running"]
          /\ call' = "start"
          /\ UNCHANGED <<m_steps, unfinished, held, finalized, process, others>>

\* The current step reports, which calls onStepFinished().
StepEnds(ok) == /\ step' = [step EXCEPT ![currentStep] = IF ok THEN "Succeeded" ELSE "Failed"]
                /\ call' = "finish"

\* Faulty variant of Finalize: only the current step is finalized.
FinalizeCurrent == /\ held' = held \ {currentStep}
                   /\ finalized' = [finalized EXCEPT ![currentStep] = @ + 1]

\* finalize() of all steps up to the current one.
Finalize == /\ held' = held \ (1..currentStep)
            /\ finalized' = [s \in Steps |->
                 IF s <= currentStep THEN finalized[s] + 1 ELSE finalized[s]]

\* finalizeSteps(); LaunchController reports what the launch reports.
FinalizeSteps(ok) ==
    /\ Finalize
    /\ task' = IF ok THEN "Succeeded" ELSE "Failed"
    /\ controller' = IF controller = "Running" THEN task' ELSE controller
    /\ m_isRunning' = FALSE /\ m_crashed' = (m_crashed \/ ~ok)
    /\ call' = IF unfinished THEN "rest" ELSE "idle"

\* Faulty variant of MoveOn: a failed step does not stop the launch.
MoveOnAnyway == currentStep < Len(m_steps)

\* Is there a next step to start?
MoveOn == step[currentStep] = "Succeeded" /\ currentStep < Len(m_steps)

OnStepFinished ==
    /\ call = "finish"
    /\ IF MoveOn
       THEN /\ currentStep' = currentStep + 1
            /\ step' = [s \in DOMAIN step |-> IF s = currentStep + 1 THEN "Running" ELSE step[s]]
            /\ call' = "start"
            /\ UNCHANGED <<task, held, finalized, m_isRunning, m_crashed, controller>>
       ELSE /\ FinalizeSteps(step[currentStep] = "Succeeded")
            /\ UNCHANGED <<currentStep, step>>
    /\ UNCHANGED <<m_steps, state, unfinished, process, aborting, m_aborted,
                   profiler, box, asked>>

-----------------------------------------------------------------------------
(* executeTask() of the current step.                                        *)

Executes(kinds) == call = "start" /\ Kind \in kinds

StartPlain == /\ Executes({"plain"})
              /\ \E ok \in BOOLEAN : StepEnds(ok)
              /\ UNCHANGED <<m_steps, state, task, currentStep, unfinished, held,
                             finalized, m_isRunning, m_crashed, process, others>>

StartWaiting == /\ Executes({"scan", "lookup"})
                /\ call' = "idle"
                /\ UNCHANGED <<m_steps, state, task, currentStep, step, unfinished, held,
                               finalized, m_isRunning, m_crashed, process, others>>

\* Without an account of that name nothing is reported.
StartClaim == /\ Executes({"claim"})
              /\ \/ held' = held \union {currentStep} /\ StepEnds(TRUE)
                 \/ call' = "idle" /\ UNCHANGED <<held, step>>
              /\ UNCHANGED <<m_steps, state, task, currentStep, unfinished,
                             finalized, m_isRunning, m_crashed, process, others>>

\* progressReportingRequest(): LaunchController lets the update proceed.
StartUpdate == /\ Executes({"update", "check"})
               /\ state' = "Waiting"
               /\ call' = "idle"
               /\ UNCHANGED <<m_steps, task, currentStep, step, unfinished, held,
                              finalized, m_isRunning, m_crashed, process, others>>

\* One archive after the other; a failure is reported in the middle of it.
StartFiles == /\ Executes({"files"})
              /\ held' = held \union {currentStep}
              /\ \E ok \in BOOLEAN :
                    /\ StepEnds(ok)
                    /\ unfinished' \in {FALSE, ~ok}
              /\ UNCHANGED <<m_steps, state, task, currentStep,
                             finalized, m_isRunning, m_crashed, process, others>>

\* The archives after the one that failed; what emitSucceeded() says is ignored.
RestOfFiles == /\ call = "rest"
               /\ held' = held \union {currentStep}
               /\ call' = "idle" /\ unfinished' = FALSE
               /\ UNCHANGED <<m_steps, state, task, currentStep, step,
                              finalized, m_isRunning, m_crashed, process, others>>

\* A game without its launcher part, or without its wrapper, is not started.
StartProcess == /\ Executes({"command", "game"})
                /\ \/ /\ proc' = "starting" /\ m_is_aborting' = FALSE
                      /\ call' = "idle" /\ UNCHANGED step
                   \/ StepEnds(FALSE) /\ UNCHANGED <<proc, m_is_aborting>>
                /\ UNCHANGED <<m_steps, state, task, currentStep, unfinished, held, finalized,
                               m_isRunning, m_crashed, mayProceed, told, others>>

-----------------------------------------------------------------------------
(* Reports of steps that take their time.                                    *)

StepReports(kinds, ok) ==
    /\ EventLoop /\ Active /\ Kind \in kinds
    /\ StepEnds(ok)
    /\ UNCHANGED <<m_steps, state, task, currentStep, unfinished, held, finalized,
                   m_isRunning, m_crashed, process, others>>

ScanDone == \E ok \in BOOLEAN : StepReports({"scan"}, ok)

\* A failed lookup is no error.
DnsLookupFinished == StepReports({"lookup"}, TRUE)

\* updateFinished(); an update that was told to abort fails.
UpdateFinished == \E ok \in BOOLEAN : /\ m_aborted => ~ok
                                      /\ StepReports({"update", "check"}, ok)

-----------------------------------------------------------------------------
(* The process of a step, and the word the game waits for.                   *)

\* The process runs.  The game makes the launch wait; LaunchController lets it
\* proceed at once, prepares the profiler, or gives up.
ProcessStarted ==
    /\ EventLoop /\ proc = "starting"
    /\ proc' = "running"
    /\ IF Kind # "game"
       THEN UNCHANGED <<state, mayProceed, told, profiler, controller, asked>>
       ELSE \/ /\ profiler = "none"
               /\ state' = "Waiting" /\ mayProceed' = FALSE /\ told' = Append(told, "launch")
               /\ UNCHANGED <<profiler, controller, asked>>
            \/ /\ profiler = "ready"
               /\ state' = "Waiting" /\ mayProceed' = TRUE /\ profiler' = "prompt"
               /\ UNCHANGED <<told, controller, asked>>
            \/ /\ profiler = "broken"
               /\ state' = "Aborted" /\ mayProceed' = FALSE /\ told' = Append(told, "abort")
               /\ profiler' = "gone" /\ asked' = "yes"
               /\ controller' = IF controller = "Running" THEN "Failed" ELSE controller
    /\ UNCHANGED <<m_steps, task, currentStep, step, call, unfinished, held, finalized,
                   m_isRunning, m_crashed, m_is_aborting, aborting, m_aborted, box>>

\* How a process that was not killed may end: a game that was told to abort
\* exits with 1 (EntryPoint.java), one that waits for its word only crashes.
MayEndWell == /\ ~m_is_aborting
              /\ Kind = "game" => "launch" \in {told[i] : i \in 1..Len(told)}

\* Faulty variant of ProcessEnds: a killed process that exits counts as finished.
ProcessEndsAnyhow ==
    /\ EventLoop /\ Alive
    /\ proc' = "ended"
    /\ \E ok \in BOOLEAN : StepEnds(ok)
    /\ UNCHANGED <<m_steps, state, task, currentStep, unfinished, held, finalized,
                   m_isRunning, m_crashed, m_is_aborting, mayProceed, told, others>>

\* on_exit() and on_error(), and the on_state() of the step.
ProcessEnds ==
    /\ EventLoop /\ Alive
    /\ proc' = "ended"
    /\ \E ok \in BOOLEAN : (ok => proc = "running" /\ MayEndWell) /\ StepEnds(ok)
    /\ UNCHANGED <<m_steps, state, task, currentStep, unfinished, held, finalized,
                   m_isRunning, m_crashed, m_is_aborting, mayProceed, told, others>>

\* The user presses the button of the profiler's dialog, whenever that is:
\* proceed() of the launch and of its current step.
ProfilerReady ==
    /\ EventLoop /\ profiler = "prompt"
    /\ profiler' = "gone"
    /\ IF state = "Waiting" /\ Kind = "game" /\ mayProceed
       THEN /\ mayProceed' = FALSE
            /\ told' = IF Alive THEN Append(told, "launch") ELSE told
       ELSE UNCHANGED <<mayProceed, told>>
    /\ UNCHANGED <<m_steps, launch, proc, m_is_aborting, aborting, m_aborted,
                   controller, box, asked>>

-----------------------------------------------------------------------------
(* Aborting.  A launch that ended is never in state Finished or Failed, so   *)
(* abort() still goes to the step it ended with.                             *)

CanAbort == state \in {"Running", "Waiting"}
              /\ Kind \in {"lookup", "update", "command", "game"}

\* abort() returns true now.
Aborts == /\ state' = "Aborted"
          /\ asked' = IF Ended THEN asked ELSE "yes"

\* Faulty variant of AbortProcess: a process that is starting is left alone.
AbortRunningProcess ==
    /\ Kind \in {"command", "game"}
    /\ IF mayProceed
       THEN /\ mayProceed' = FALSE
            /\ told' = IF Alive THEN Append(told, "abort") ELSE told
            /\ UNCHANGED m_is_aborting
       ELSE /\ m_is_aborting' = (m_is_aborting \/ proc = "running")
            /\ UNCHANGED <<mayProceed, told>>
    /\ Aborts
    /\ UNCHANGED <<task, step, call, aborting, m_aborted, finalized, m_isRunning>>

\* Faulty variant of AbortProcess: the launch ends before the process does.
AbortProcessEagerly ==
    /\ Kind \in {"command", "game"}
    /\ m_is_aborting' = TRUE
    /\ Aborts
    /\ task' = "Failed" /\ m_isRunning' = FALSE
    /\ UNCHANGED <<step, call, aborting, m_aborted, finalized, mayProceed, told>>

\* abort() of a step with a process: the waiting game is told, others are killed.
AbortProcess ==
    /\ Kind \in {"command", "game"}
    /\ IF mayProceed
       THEN /\ mayProceed' = FALSE
            /\ told' = IF Alive THEN Append(told, "abort") ELSE told
            /\ UNCHANGED m_is_aborting
       ELSE /\ m_is_aborting' = (m_is_aborting \/ Alive)
            /\ UNCHANGED <<mayProceed, told>>
    /\ Aborts
    /\ UNCHANGED <<task, step, call, aborting, m_aborted, finalized, m_isRunning>>

\* Update::abort(); the task of the update may refuse.
AbortUpdate ==
    /\ Kind = "update"
    /\ m_aborted' = TRUE
    /\ Aborts \/ UNCHANGED <<state, asked>>
    /\ UNCHANGED <<task, step, call, aborting, finalized, m_isRunning,
                   m_is_aborting, mayProceed, told>>

\* The skip button of the progress dialog aborts the step behind the launch's back.
SkipUpdate ==
    /\ EventLoop /\ Active /\ Kind = "update" /\ ~m_aborted
    /\ m_aborted' = TRUE
    /\ UNCHANGED <<m_steps, launch, process, aborting, profiler, controller, box, asked>>

\* LookupServerAddress::abort(): QDnsLookup::abort() emits finished(), before
\* emitFailed() can make isFinished() true, so the lookup resolves and the launch
\* goes on before abort() returns.
AbortLookup ==
    /\ Kind = "lookup"
    /\ IF Active THEN /\ StepEnds(TRUE) /\ aborting' = TRUE
                      /\ UNCHANGED <<state, asked>>
                 ELSE Aborts /\ UNCHANGED <<step, call, aborting>>
    /\ UNCHANGED <<task, m_aborted, finalized, m_isRunning, m_is_aborting, mayProceed, told>>

\* LaunchTask::abort()
Abort == \/ CanAbort /\ (AbortProcess \/ AbortUpdate \/ AbortLookup)
         \/ /\ ~CanAbort
            /\ UNCHANGED <<state, asked, task, step, call, aborting, m_aborted, finalized,
                           m_isRunning, m_is_aborting, mayProceed, told>>

UnchangedByAbort == <<m_steps, currentStep, unfinished, held, m_crashed, proc>>

\* The call that abort() made returns: the launch is aborted now.
AbortReturns ==
    /\ call = "idle" /\ aborting /\ ~EventLoop
    /\ aborting' = FALSE
    /\ state' = "Aborted"
    /\ asked' = IF Ended \/ asked = "yes" THEN asked ELSE "lookup"
    /\ UNCHANGED <<UnchangedByAbort, task, step, call, m_aborted, finalized, m_isRunning,
                   m_is_aborting, mayProceed, told, profiler, controller, box>>

\* Application::kill(), LaunchController::abort(): the user is asked.
Kill == /\ EventLoop /\ m_isRunning /\ controller = "Running"
        /\ ~box /\ CanAbort
        /\ box' = TRUE
        /\ UNCHANGED <<m_steps, launch, process, aborting, m_aborted, profiler, controller, asked>>

\* The answer, whenever it comes.
Answer == /\ EventLoop /\ box
          /\ box' = FALSE
          /\ \/ Abort /\ UNCHANGED <<UnchangedByAbort, profiler, controller>>
             \/ UNCHANGED <<m_steps, launch, process, aborting, m_aborted, profiler, controller, asked>>

\* abortLaunch() of the profiler, whenever it comes.
ProfilerFails == /\ EventLoop /\ profiler = "prompt"
                 /\ profiler' = "gone"
                 /\ controller' = IF controller = "Running" THEN "Failed" ELSE controller
                 /\ Abort
                 /\ UNCHANGED <<UnchangedByAbort, box>>

Calls == \/ OnStepFinished \/ StartPlain \/ StartWaiting \/ StartClaim \/ StartUpdate
         \/ StartFiles \/ RestOfFiles \/ StartProcess \/ AbortReturns

Next == \/ Launch \/ Calls
        \/ ScanDone \/ DnsLookupFinished \/ UpdateFinished \/ SkipUpdate
        \/ ProcessStarted \/ ProcessEnds
        \/ ProfilerReady \/ ProfilerFails \/ Kill \/ Answer

Spec == Init /\ [][Next]_vars

\* A process that is killed, or told to abort, ends; an update that was told to
\* abort ends; a user who plays, or a dialog, may take for ever.
Doomed == m_is_aborting \/ "abort" \in {told[i] : i \in 1..Len(told)}
Fairness == /\ WF_vars(Calls)
            /\ WF_vars(ProcessEnds /\ Doomed)
            /\ WF_vars(UpdateFinished /\ m_aborted)
FairSpec == Spec /\ Fairness

-----------------------------------------------------------------------------
TaskStates == {"Inactive", "Running", "Failed", "Succeeded"}

\* The position stays inside the pipeline and the waiting game is told one word
\* at most.
TypeOK ==
    /\ m_steps \in Pipelines
    /\ state \in {"NotStarted", "Running", "Waiting", "Aborted"}
    /\ task \in TaskStates /\ controller \in TaskStates
    /\ currentStep \in 0..Len(m_steps)
    /\ step \in [Steps -> TaskStates]
    /\ call \in {"idle", "start", "finish", "rest"}
    /\ unfinished \in BOOLEAN /\ aborting \in BOOLEAN /\ m_is_aborting \in BOOLEAN
    /\ mayProceed \in BOOLEAN /\ m_aborted \in BOOLEAN /\ m_isRunning \in BOOLEAN
    /\ m_crashed \in BOOLEAN /\ box \in BOOLEAN
    /\ asked \in {"no", "lookup", "yes"}
    /\ proc \in {"none", "starting", "running", "ended"}
    /\ told \in {<<>>, <<"launch">>, <<"abort">>}
    /\ held \subseteq Steps
    /\ finalized \in [Steps -> 0..1]
    /\ profiler \in {"none", "ready", "broken", "prompt", "gone"}

\* When a launch has ended nothing its steps held is left, no claimed account,
\* no extracted native, no modded jar, but for files of the very step that failed.
CleanedUp == Ended /\ call = "idle" => held \subseteq {s \in {currentStep} : step[s] = "Failed"}

\* The comment of finalize() (LaunchStep.h:45), "used to clean up or otherwise
\* undo things after the launch ends": nothing at all is left.
AllCleanedUp == Ended /\ call = "idle" => held = {}

\* Every step that was started is finalized when the launch ends, once, and no
\* other step ever; so is the step the launch was aborted in.
FinalizedOnce == \A s \in Steps :
                     finalized[s] = IF Ended /\ step[s] # "Inactive" THEN 1 ELSE 0

\* What the steps did is undone by the launch that did it, once, in every way a
\* launch can end.
Undone == TypeOK /\ CleanedUp /\ FinalizedOnce

\* The instance is marked as running for as long as a process of its launch
\* lives, so that it is not launched, updated or deleted under a live game.
RunningWhileAlive == Alive => m_isRunning /\ task = "Running"

\* A step runs after all earlier ones succeeded; the launch succeeds with the last.
StepsInOrder == /\ \A s \in Steps : /\ s < currentStep => step[s] = "Succeeded"
                                    /\ s > currentStep => step[s] = "Inactive"
                /\ task = "Succeeded" => \A s \in Steps : step[s] = "Succeeded"

\* The waiting game is told to launch, or to abort, never both and never twice:
\* not by a profiler that is ready, or gives up, after the user killed it.
OneWord == Len(told) <= 1

\* The launch keeps hold of the game it started: the instance says that it runs,
\* and the word to it is said once.
GameGuarded == RunningWhileAlive /\ OneWord

\* Once abort() of a launch returned true, in any step but the lookup, no
\* further step is started.
AbortStopsLaunch == [][asked = "yes" => currentStep' = currentStep]_vars

\* An abort that returned true, in any step but the lookup, ends the launch.
AbortEnds == asked = "yes" ~> Ended

\* The comment of on_dnsLookupFinished() (LookupServerAddress.cpp:61-65), which
\* returns for an "Aborted" lookup: a lookup that was aborted is not followed by
\* another step.
LookupAbortStops == [][asked = "lookup" => currentStep' = currentStep]_vars
=============================================================================
