-------------------------- MODULE LaunchTask_proofs ---------------------------
(* Theorems about LaunchTask for every pipeline with at most one game.       *)
EXTENDS LaunchTask, TLAPS

\* TypeOK in two parts, the members that are flags and the others.
Flags ==
    /\ unfinished \in BOOLEAN /\ aborting \in BOOLEAN /\ m_is_aborting \in BOOLEAN
    /\ mayProceed \in BOOLEAN /\ m_aborted \in BOOLEAN /\ m_isRunning \in BOOLEAN
    /\ m_crashed \in BOOLEAN /\ box \in BOOLEAN
Typed ==
    /\ m_steps \in Pipelines
    /\ state \in {"NotStarted", "Running", "Waiting", "Aborted"}
    /\ task \in TaskStates /\ controller \in TaskStates
    /\ currentStep \in 0..Len(m_steps)
    /\ step \in [Steps -> TaskStates]
    /\ call \in {"idle", "start", "finish", "rest"}
    /\ asked \in {"no", "lookup", "yes"}
    /\ proc \in {"none", "starting", "running", "ended"}
    /\ told \in {<<>>, <<"launch">>, <<"abort">>}
    /\ held \subseteq Steps
    /\ finalized \in [Steps -> 0..1]
    /\ profiler \in {"none", "ready", "broken", "prompt", "gone"}

\* Which step the launch is in, and what call is under way.
Phase ==
    /\ task = "Inactive" =>
         /\ currentStep = 0 /\ call = "idle" /\ state = "NotStarted" /\ held = {} /\ asked = "no"
         /\ ~aborting /\ ~box /\ ~m_isRunning /\ profiler # "prompt"
    /\ task # "Inactive" => currentStep \in Steps
    /\ task = "Running" =>
         /\ m_isRunning /\ call # "rest"
         /\ call \in {"start", "idle"} => step[currentStep] = "Running"
         /\ call = "finish" => step[currentStep] \in {"Succeeded", "Failed"}
    /\ Ended =>
         /\ call \in {"idle", "rest"} /\ step[currentStep] = task
         /\ task = "Succeeded" => currentStep = Len(m_steps)
    /\ unfinished => call \in {"finish", "rest"} /\ step[currentStep] = "Failed"
    /\ call = "rest" => unfinished

\* A process lives exactly while the launch waits for a step that has one.
Processes == Alive <=> task = "Running" /\ call = "idle" /\ Kind \in {"command", "game"}

\* The word is said to a game that was started, and only if none was said before.
Started(g) == m_steps[g] = "game" /\ (g = currentStep => call # "start" /\ proc # "starting")
Words == /\ mayProceed => told = <<>>
         /\ mayProceed /\ task = "Running" =>
              Kind = "game" /\ (call = "idle" \/ (call = "finish" /\ step[currentStep] = "Failed"))
         /\ mayProceed \/ told # <<>> => \E g \in 1..currentStep : Started(g)

\* Only steps that were started hold something.
HeldOK == /\ held \subseteq 1..currentStep
          /\ CleanedUp
          /\ Ended /\ call = "rest" => held = {}

\* A launch that was told to abort can only fail.
AbortHolds ==
    asked = "yes" /\ task = "Running" =>
        \/ call = "finish" /\ step[currentStep] = "Failed"
        \/ call = "idle" /\ Kind = "update" /\ m_aborted
        \/ call = "idle" /\ Kind \in {"command", "game"} /\ m_is_aborting
        \/ call = "idle" /\ Kind = "game" /\ told = <<"abort">>

IInv == /\ Typed /\ Flags /\ StepsInOrder /\ Phase /\ Processes /\ Words /\ HeldOK /\ FinalizedOnce
        /\ AbortHolds

-----------------------------------------------------------------------------
\* The pipelines are sequences of steps with one game at most.
LEMMA PipelineTyped ==
    ASSUME PipelinesAssumption, m_steps \in Pipelines
    PROVE  /\ m_steps \in Seq(StepKinds) /\ Len(m_steps) \in Nat \ {0} /\ Steps = 1..Len(m_steps)
           /\ \A i, j \in 1..Len(m_steps) : m_steps[i] = "game" /\ m_steps[j] = "game" => i = j
BY DEF PipelinesAssumption, Steps

\* A first word.
LEMMA FirstWord == ASSUME NEW w PROVE Append(<<>>, w) = <<w>> /\ <<w>> # <<>>
OBVIOUS

\* Before the launch nothing runs.
LEMMA InitInv == ASSUME PipelinesAssumption, Init PROVE IInv
<1>1. Len(m_steps) \in Nat \ {0}
  BY PipelineTyped DEF Init
<1>2. Typed
  BY <1>1 DEF Init, Typed, TaskStates, Steps
<1>3. Flags
  BY DEF Init, Flags
<1>4. StepsInOrder /\ Phase /\ Processes /\ Words
  BY <1>1 DEF Init, StepsInOrder, Phase, Processes, Words, Ended, Alive, Steps
<1>5. HeldOK /\ FinalizedOnce /\ AbortHolds
  BY DEF Init, HeldOK, CleanedUp, FinalizedOnce, AbortHolds, Ended
<1> QED BY <1>2, <1>3, <1>4, <1>5 DEF IInv

\* The launch starts its first step.
LEMMA LaunchInv == ASSUME PipelinesAssumption, IInv, Launch PROVE IInv'
<1> USE PipelineTyped DEF Launch, Alive, process, others
<1>1. Typed'
  BY DEF IInv, Typed, TaskStates, Ended, Phase, Processes, Words, Steps
<1>2. Flags'
  BY DEF IInv, Flags
<1>3. StepsInOrder' /\ Phase'
  BY DEF IInv, Typed, TaskStates, StepsInOrder, Phase, Processes, Ended, Steps
<1>4. Processes'
  BY DEF IInv, Typed, TaskStates, Phase, Processes, Ended, Steps
<1>5. Words'
  <2>1. ~ \E g \in 1..0 : Started(g)
    OBVIOUS
  <2>2. told = <<>> /\ ~mayProceed
    BY <2>1 DEF IInv, Phase, Words
  <2> QED BY <2>2 DEF Words
<1>6. HeldOK' /\ FinalizedOnce'
  BY DEF IInv, Typed, TaskStates, StepsInOrder, Phase, HeldOK, CleanedUp, FinalizedOnce, Ended,
         Steps
<1>7. AbortHolds'
  BY DEF IInv, Typed, TaskStates, Phase, Processes, Words, Started, AbortHolds, Ended, Steps
<1> QED BY <1>1, <1>2, <1>3, <1>4, <1>5, <1>6, <1>7 DEF IInv

\* The end of a step starts the next one, or finalizes all that were started.
LEMMA OnStepFinishedInv == ASSUME PipelinesAssumption, IInv, OnStepFinished PROVE IInv'
<1> USE PipelineTyped DEF OnStepFinished, MoveOn, FinalizeSteps, Finalize, process, Kind, Alive
<1>1. /\ task = "Running" /\ ~Alive /\ currentStep \in Steps /\ Steps = 1..Len(m_steps)
      /\ Len(m_steps) \in Nat /\ m_steps' = m_steps /\ proc' = proc
      /\ step[currentStep] \in {"Succeeded", "Failed"}
  BY DEF IInv, Typed, TaskStates, Phase, Processes, Ended
<1>2. CASE MoveOn
  <2>1. /\ currentStep' = currentStep + 1 /\ call' = "start" /\ currentStep < Len(m_steps)
        /\ step' = [s \in Steps |-> IF s = currentStep + 1 THEN "Running" ELSE step[s]]
        /\ UNCHANGED <<task, held, finalized, m_isRunning, m_crashed, controller, state,
                       unfinished, mayProceed, told, m_is_aborting, aborting, m_aborted, profiler,
                       box, asked>>
        /\ step[currentStep] = "Succeeded"
    BY <1>2 DEF IInv, Typed
  <2> HIDE DEF OnStepFinished, MoveOn
  <2>2. currentStep + 1 \in Steps
    BY <1>1, <2>1
  <2>3. Typed'
    BY <1>1, <2>1, <2>2 DEF IInv, Typed, TaskStates, Steps
  <2>4. Flags'
    BY <2>1 DEF IInv, Flags
  <2>5. StepsInOrder'
    BY <1>1, <2>1, <2>2 DEF IInv, StepsInOrder, Steps
  <2>6. Phase'
    BY <1>1, <2>1, <2>2 DEF IInv, Phase, Ended, Steps
  <2>7. Processes'
    BY <1>1, <2>1 DEF Processes
  <2>8. Words'
    <3>1. ASSUME NEW g \in 1..currentStep, Started(g)
          PROVE  g \in 1..(currentStep + 1) /\ Started(g)'
      BY <1>1, <2>1, <3>1 DEF Started
    <3>2. ~mayProceed'
      BY <1>1, <2>1 DEF IInv, Words, OnStepFinished
    <3> QED BY <1>1, <2>1, <3>1, <3>2 DEF IInv, Words
  <2>9. HeldOK'
    BY <1>1, <2>1 DEF IInv, HeldOK, CleanedUp, Ended
  <2>10. FinalizedOnce'
    BY <1>1, <2>1 DEF IInv, FinalizedOnce, Ended, Steps
  <2>11. AbortHolds'
    BY <1>1, <2>1 DEF IInv, AbortHolds, Phase
  <2> QED BY <2>3, <2>4, <2>5, <2>6, <2>7, <2>8, <2>9, <2>10, <2>11 DEF IInv
<1>3. CASE ~MoveOn
  <2>1. /\ currentStep' = currentStep /\ step' = step
        /\ task' = step[currentStep] /\ m_isRunning' = FALSE
        /\ step[currentStep] = "Succeeded" => currentStep = Len(m_steps)
        /\ call' = IF unfinished THEN "rest" ELSE "idle"
        /\ held' = held \ (1..currentStep)
        /\ finalized' = [s \in Steps |->
             IF s <= currentStep THEN finalized[s] + 1 ELSE finalized[s]]
        /\ controller' = IF controller = "Running" THEN task' ELSE controller
        /\ m_crashed' = (m_crashed \/ step[currentStep] # "Succeeded")
        /\ UNCHANGED <<state, unfinished, mayProceed, told, m_is_aborting, aborting, m_aborted,
                       profiler, box, asked>>
    BY <1>1, <1>3
  <2> HIDE DEF OnStepFinished, MoveOn, FinalizeSteps, Finalize
  <2>2. held' = {} /\ Ended'
    BY <1>1, <2>1 DEF IInv, HeldOK, Ended
  <2>3. finalized' = [s \in Steps |-> IF s <= currentStep THEN 1 ELSE 0]
    BY <1>1, <2>1 DEF IInv, FinalizedOnce, Ended, StepsInOrder
  <2>4. Typed'
    BY <1>1, <2>1, <2>2, <2>3 DEF IInv, Typed, TaskStates, Steps
  <2>5. Flags'
    BY <2>1 DEF IInv, Flags
  <2>6. StepsInOrder'
    BY <1>1, <2>1 DEF IInv, StepsInOrder, Steps
  <2>7. Phase'
    BY <1>1, <2>1, <2>2 DEF IInv, Phase, Ended, Steps
  <2>8. Processes'
    BY <1>1, <2>1 DEF Processes
  <2>9. Words'
    <3>1. ASSUME NEW g \in 1..currentStep, Started(g) PROVE Started(g)'
      BY <1>1, <2>1, <3>1 DEF Started
    <3> QED BY <1>1, <2>1, <3>1 DEF IInv, Words
  <2>10. HeldOK'
    BY <2>2 DEF HeldOK, CleanedUp
  <2>11. FinalizedOnce'
    BY <1>1, <2>1, <2>2, <2>3 DEF IInv, FinalizedOnce, StepsInOrder, Steps
  <2>12. AbortHolds'
    BY <1>1, <2>1 DEF AbortHolds
  <2> QED BY <2>4, <2>5, <2>6, <2>7, <2>8, <2>9, <2>10, <2>11, <2>12 DEF IInv
<1> QED BY <1>2, <1>3

\* A step that is done at once.
LEMMA StartPlainInv == ASSUME PipelinesAssumption, IInv, StartPlain PROVE IInv'
<1> USE PipelineTyped DEF StartPlain, Executes, StepEnds, Kind, Alive, process, others
<1>1. Typed'
  BY DEF IInv, Typed, TaskStates, Ended, Phase, Processes, Words, Steps
<1>2. Flags'
  BY DEF IInv, Flags
<1>3. StepsInOrder' /\ Phase'
  BY DEF IInv, Typed, TaskStates, StepsInOrder, Phase, Processes, Ended, Steps
<1>4. Processes' /\ Words'
  BY DEF IInv, Typed, TaskStates, Phase, Processes, Words, Started, Ended, Steps
<1>5. HeldOK' /\ FinalizedOnce'
  BY DEF IInv, Typed, TaskStates, StepsInOrder, Phase, HeldOK, CleanedUp, FinalizedOnce, Ended,
         Steps
<1>6. AbortHolds'
  BY DEF IInv, Typed, TaskStates, Phase, Processes, Words, Started, AbortHolds, Ended, Steps
<1> QED BY <1>1, <1>2, <1>3, <1>4, <1>5, <1>6 DEF IInv

\* A step that reports later.
LEMMA StartWaitingInv == ASSUME PipelinesAssumption, IInv, StartWaiting PROVE IInv'
<1> USE PipelineTyped DEF StartWaiting, Executes, Kind, Alive, process, others
<1>1. Typed'
  BY DEF IInv, Typed, TaskStates, Ended, Phase, Processes, Words, Steps
<1>2. Flags'
  BY DEF IInv, Flags
<1>3. StepsInOrder' /\ Phase'
  BY DEF IInv, Typed, TaskStates, StepsInOrder, Phase, Processes, Ended, Steps
<1>4. Processes' /\ Words'
  BY DEF IInv, Typed, TaskStates, Phase, Processes, Words, Started, Ended, Steps
<1>5. HeldOK' /\ FinalizedOnce'
  BY DEF IInv, Typed, TaskStates, StepsInOrder, Phase, HeldOK, CleanedUp, FinalizedOnce, Ended,
         Steps
<1>6. AbortHolds'
  BY DEF IInv, Typed, TaskStates, Phase, Processes, Words, Started, AbortHolds, Ended, Steps
<1> QED BY <1>1, <1>2, <1>3, <1>4, <1>5, <1>6 DEF IInv

\* The account is claimed, or there is none and nobody reports.
LEMMA StartClaimInv == ASSUME PipelinesAssumption, IInv, StartClaim PROVE IInv'
<1> USE PipelineTyped DEF StartClaim, Executes, StepEnds, Kind, Alive, process, others
<1>1. Typed'
  <2>1. step' \in [Steps -> TaskStates] /\ call' \in {"idle", "finish"}
    BY DEF IInv, Typed, TaskStates
  <2>2. held' \subseteq Steps
    BY DEF IInv, Typed, TaskStates, Phase
  <2> QED BY <2>1, <2>2 DEF IInv, Typed, TaskStates, Steps
<1>2. Flags'
  BY DEF IInv, Flags
<1>3. StepsInOrder' /\ Phase'
  BY DEF IInv, Typed, TaskStates, StepsInOrder, Phase, Processes, Ended, Steps
<1>4. Processes' /\ Words'
  BY DEF IInv, Typed, TaskStates, Phase, Processes, Words, Started, Ended, Steps
<1>5. HeldOK'
  <2>1. /\ task' = "Running" /\ currentStep' = currentStep /\ currentStep \in 1..currentStep
        /\ held' \subseteq held \union {currentStep}
    BY DEF IInv, Typed, TaskStates, Phase, Ended, Steps
  <2> QED BY <2>1 DEF IInv, HeldOK, CleanedUp, Ended
<1>6. FinalizedOnce'
  BY DEF IInv, Typed, TaskStates, StepsInOrder, Phase, FinalizedOnce, Ended, Steps
<1>7. AbortHolds'
  BY DEF IInv, Typed, TaskStates, Phase, Processes, Words, Started, AbortHolds, Ended, Steps
<1> QED BY <1>1, <1>2, <1>3, <1>4, <1>5, <1>6, <1>7 DEF IInv

\* The update waits for the word of the controller.
LEMMA StartUpdateInv == ASSUME PipelinesAssumption, IInv, StartUpdate PROVE IInv'
<1> USE PipelineTyped DEF StartUpdate, Executes, Kind, Alive, process, others
<1>1. Typed'
  BY DEF IInv, Typed, TaskStates, Ended, Phase, Processes, Words, Steps
<1>2. Flags'
  BY DEF IInv, Flags
<1>3. StepsInOrder' /\ Phase'
  BY DEF IInv, Typed, TaskStates, StepsInOrder, Phase, Processes, Ended, Steps
<1>4. Processes' /\ Words'
  BY DEF IInv, Typed, TaskStates, Phase, Processes, Words, Started, Ended, Steps
<1>5. HeldOK' /\ FinalizedOnce'
  BY DEF IInv, Typed, TaskStates, StepsInOrder, Phase, HeldOK, CleanedUp, FinalizedOnce, Ended,
         Steps
<1>6. AbortHolds'
  BY DEF IInv, Typed, TaskStates, Phase, Processes, Words, Started, AbortHolds, Ended, Steps
<1> QED BY <1>1, <1>2, <1>3, <1>4, <1>5, <1>6 DEF IInv

\* Files are extracted, and may be after a failure was reported.
LEMMA StartFilesInv == ASSUME PipelinesAssumption, IInv, StartFiles PROVE IInv'
<1> USE PipelineTyped DEF StartFiles, Executes, StepEnds, Kind, Alive, process, others
<1>1. Typed'
  BY DEF IInv, Typed, TaskStates, Ended, Phase, Processes, Words, Steps
<1>2. Flags'
  BY DEF IInv, Flags
<1>3. StepsInOrder' /\ Phase'
  BY DEF IInv, Typed, TaskStates, StepsInOrder, Phase, Processes, Ended, Steps
<1>4. Processes' /\ Words'
  BY DEF IInv, Typed, TaskStates, Phase, Processes, Words, Started, Ended, Steps
<1>5. HeldOK' /\ FinalizedOnce'
  BY DEF IInv, Typed, TaskStates, StepsInOrder, Phase, HeldOK, CleanedUp, FinalizedOnce, Ended,
         Steps
<1>6. AbortHolds'
  BY DEF IInv, Typed, TaskStates, Phase, Processes, Words, Started, AbortHolds, Ended, Steps
<1> QED BY <1>1, <1>2, <1>3, <1>4, <1>5, <1>6 DEF IInv

\* What is extracted after the launch has ended is held by the step that failed.
LEMMA RestOfFilesInv == ASSUME PipelinesAssumption, IInv, RestOfFiles PROVE IInv'
<1> USE PipelineTyped DEF RestOfFiles, Kind, Alive, process, others
<1>1. Typed'
  BY DEF IInv, Typed, TaskStates, Ended, Phase, Processes, Words, Steps
<1>2. Flags'
  BY DEF IInv, Flags
<1>3. StepsInOrder' /\ Phase'
  BY DEF IInv, Typed, TaskStates, StepsInOrder, Phase, Processes, Ended, Steps
<1>4. Processes' /\ Words'
  BY DEF IInv, Typed, TaskStates, Phase, Processes, Words, Started, Ended, Steps
<1>5. HeldOK'
  BY DEF IInv, Typed, TaskStates, Phase, HeldOK, CleanedUp, Ended, Steps
<1>6. FinalizedOnce'
  BY DEF IInv, Typed, TaskStates, StepsInOrder, Phase, FinalizedOnce, Ended, Steps
<1>7. AbortHolds'
  BY DEF IInv, Typed, TaskStates, Phase, Processes, Words, Started, AbortHolds, Ended, Steps
<1> QED BY <1>1, <1>2, <1>3, <1>4, <1>5, <1>6, <1>7 DEF IInv

\* The process of a step is started, or is not.
LEMMA StartProcessInv == ASSUME PipelinesAssumption, IInv, StartProcess PROVE IInv'
<1> USE PipelineTyped DEF StartProcess, Executes, StepEnds, Kind, Alive, others
<1>1. Typed'
  <2>1. step' \in [Steps -> TaskStates] /\ call' \in {"idle", "finish"}
    BY DEF IInv, Typed, TaskStates
  <2>2. proc' \in {"none", "starting", "running", "ended"}
    BY DEF IInv, Typed, TaskStates
  <2> QED BY <2>1, <2>2 DEF IInv, Typed, TaskStates, Steps
<1>2. Flags'
  BY DEF IInv, Flags
<1>3. StepsInOrder' /\ Phase'
  BY DEF IInv, Typed, TaskStates, StepsInOrder, Phase, Processes, Ended, Steps
<1>4. Processes'
  BY DEF IInv, Typed, TaskStates, Phase, Processes, Ended, Steps
<1>5. Words'
  <2>1. currentStep' = currentStep /\ m_steps' = m_steps /\ call = "start"
    OBVIOUS
  <2>2. ASSUME NEW g \in 1..currentStep, Started(g) PROVE Started(g)'
    BY <2>1, <2>2 DEF Started
  <2> QED BY <2>1, <2>2 DEF IInv, Words
<1>6. HeldOK' /\ FinalizedOnce'
  BY DEF IInv, Typed, TaskStates, StepsInOrder, Phase, HeldOK, CleanedUp, FinalizedOnce, Ended,
         Steps
<1>7. AbortHolds'
  BY DEF IInv, Typed, TaskStates, Phase, Processes, Words, Started, AbortHolds, Ended, Steps
<1> QED BY <1>1, <1>2, <1>3, <1>4, <1>5, <1>6, <1>7 DEF IInv

\* A scan ends.
LEMMA ScanDoneInv == ASSUME PipelinesAssumption, IInv, ScanDone PROVE IInv'
<1> USE PipelineTyped DEF ScanDone, StepReports, EventLoop, Active, StepEnds, Kind, Alive, process,
                          others
<1>1. Typed'
  BY DEF IInv, Typed, TaskStates, Ended, Phase, Processes, Words, Steps
<1>2. Flags'
  BY DEF IInv, Flags
<1>3. StepsInOrder' /\ Phase'
  BY DEF IInv, Typed, TaskStates, StepsInOrder, Phase, Processes, Ended, Steps
<1>4. Processes' /\ Words'
  BY DEF IInv, Typed, TaskStates, Phase, Processes, Words, Started, Ended, Steps
<1>5. HeldOK' /\ FinalizedOnce'
  BY DEF IInv, Typed, TaskStates, StepsInOrder, Phase, HeldOK, CleanedUp, FinalizedOnce, Ended,
         Steps
<1>6. AbortHolds'
  BY DEF IInv, Typed, TaskStates, Phase, Processes, Words, Started, AbortHolds, Ended, Steps
<1> QED BY <1>1, <1>2, <1>3, <1>4, <1>5, <1>6 DEF IInv

\* The lookup ends.
LEMMA DnsLookupFinishedInv == ASSUME PipelinesAssumption, IInv, DnsLookupFinished PROVE IInv'
<1> USE PipelineTyped DEF DnsLookupFinished, StepReports, EventLoop, Active, StepEnds, Kind, Alive,
                          process, others
<1>1. Typed'
  BY DEF IInv, Typed, TaskStates, Ended, Phase, Processes, Words, Steps
<1>2. Flags'
  BY DEF IInv, Flags
<1>3. StepsInOrder' /\ Phase'
  BY DEF IInv, Typed, TaskStates, StepsInOrder, Phase, Processes, Ended, Steps
<1>4. Processes' /\ Words'
  BY DEF IInv, Typed, TaskStates, Phase, Processes, Words, Started, Ended, Steps
<1>5. HeldOK' /\ FinalizedOnce'
  BY DEF IInv, Typed, TaskStates, StepsInOrder, Phase, HeldOK, CleanedUp, FinalizedOnce, Ended,
         Steps
<1>6. AbortHolds'
  BY DEF IInv, Typed, TaskStates, Phase, Processes, Words, Started, AbortHolds, Ended, Steps
<1> QED BY <1>1, <1>2, <1>3, <1>4, <1>5, <1>6 DEF IInv

\* The update ends.
LEMMA UpdateFinishedInv == ASSUME PipelinesAssumption, IInv, UpdateFinished PROVE IInv'
<1> USE PipelineTyped DEF UpdateFinished, StepReports, EventLoop, Active, StepEnds, Kind, Alive,
                          process, others
<1>1. Typed'
  BY DEF IInv, Typed, TaskStates, Ended, Phase, Processes, Words, Steps
<1>2. Flags'
  BY DEF IInv, Flags
<1>3. StepsInOrder' /\ Phase'
  BY DEF IInv, Typed, TaskStates, StepsInOrder, Phase, Processes, Ended, Steps
<1>4. Processes' /\ Words'
  BY DEF IInv, Typed, TaskStates, Phase, Processes, Words, Started, Ended, Steps
<1>5. HeldOK' /\ FinalizedOnce'
  BY DEF IInv, Typed, TaskStates, StepsInOrder, Phase, HeldOK, CleanedUp, FinalizedOnce, Ended,
         Steps
<1>6. AbortHolds'
  BY DEF IInv, Typed, TaskStates, Phase, Processes, Words, Started, AbortHolds, Ended, Steps
<1> QED BY <1>1, <1>2, <1>3, <1>4, <1>5, <1>6 DEF IInv

\* The update is told to abort, and the launch is not.
LEMMA SkipUpdateInv == ASSUME PipelinesAssumption, IInv, SkipUpdate PROVE IInv'
<1> USE PipelineTyped DEF SkipUpdate, launch, process, EventLoop, Active, Kind, Alive
<1>1. Typed'
  BY DEF IInv, Typed, TaskStates, Ended, Phase, Processes, Words, Steps
<1>2. Flags'
  BY DEF IInv, Flags
<1>3. StepsInOrder' /\ Phase'
  BY DEF IInv, Typed, TaskStates, StepsInOrder, Phase, Processes, Ended, Steps
<1>4. Processes' /\ Words'
  BY DEF IInv, Typed, TaskStates, Phase, Processes, Words, Started, Ended, Steps
<1>5. HeldOK' /\ FinalizedOnce'
  BY DEF IInv, Typed, TaskStates, StepsInOrder, Phase, HeldOK, CleanedUp, FinalizedOnce, Ended,
         Steps
<1>6. AbortHolds'
  BY DEF IInv, Typed, TaskStates, Phase, Processes, Words, Started, AbortHolds, Ended, Steps
<1> QED BY <1>1, <1>2, <1>3, <1>4, <1>5, <1>6 DEF IInv

\* The process runs; the game, which no word was said to yet, may be told one.
LEMMA ProcessStartedInv == ASSUME PipelinesAssumption, IInv, ProcessStarted PROVE IInv'
<1> USE PipelineTyped DEF ProcessStarted, EventLoop, Active, Kind, Alive
<1>1. Typed'
  <2>1. Kind = "game" => told = <<>>
    <3>1. ASSUME Kind = "game", NEW g \in 1..currentStep, Started(g) PROVE FALSE
      BY <3>1 DEF IInv, Typed, TaskStates, Phase, Processes, Started, Steps
    <3> QED BY <3>1 DEF IInv, Words
  <2>2. told' \in {<<>>, <<"launch">>, <<"abort">>}
    BY <2>1, FirstWord DEF IInv, Typed, TaskStates
  <2>3. controller' \in TaskStates
    BY DEF IInv, Typed, TaskStates
  <2> QED BY <2>2, <2>3 DEF IInv, Typed, TaskStates, Steps
<1>2. Flags'
  BY DEF IInv, Flags
<1>3. StepsInOrder' /\ Phase'
  BY DEF IInv, Typed, TaskStates, StepsInOrder, Phase, Processes, Ended, Steps
<1>4. Processes' /\ Words'
  BY DEF IInv, Typed, TaskStates, Phase, Processes, Words, Started, Ended, Steps
<1>5. HeldOK' /\ FinalizedOnce'
  BY DEF IInv, Typed, TaskStates, StepsInOrder, Phase, HeldOK, CleanedUp, FinalizedOnce, Ended,
         Steps
<1>6. AbortHolds'
  <2>1. /\ currentStep' = currentStep /\ m_steps' = m_steps /\ call' = call
        /\ call = "idle" /\ task = "Running"
    BY DEF IInv, Processes
  <2>2. CASE asked = "yes"
    <3>1. \/ Kind = "update" /\ m_aborted
          \/ Kind \in {"command", "game"} /\ m_is_aborting
          \/ Kind = "game" /\ told = <<"abort">>
      BY <2>1, <2>2 DEF IInv, AbortHolds
    <3>2. ~(Kind = "game" /\ told = <<"abort">>)
      <4>1. ASSUME Kind = "game", NEW g \in 1..currentStep, Started(g) PROVE FALSE
        BY <4>1 DEF IInv, Typed, TaskStates, Phase, Processes, Started, Steps
      <4> QED BY <4>1, FirstWord DEF IInv, Words
    <3> QED BY <2>1, <3>1, <3>2 DEF AbortHolds
  <2>3. CASE asked # "yes" /\ asked' = "yes"
    <3>1. Kind = "game" /\ told' = Append(told, "abort") /\ told = <<>>
      BY <2>3 DEF IInv, Typed, TaskStates, Phase, Words, Started, Steps
    <3>2. told' = <<"abort">>
      BY <3>1, FirstWord
    <3> QED BY <2>1, <3>1, <3>2 DEF AbortHolds
  <2> QED BY <2>2, <2>3 DEF AbortHolds
<1> QED BY <1>1, <1>2, <1>3, <1>4, <1>5, <1>6 DEF IInv

\* The process ends, and one that was killed or sent away does not end well.
LEMMA ProcessEndsInv == ASSUME PipelinesAssumption, IInv, ProcessEnds PROVE IInv'
<1> USE PipelineTyped DEF ProcessEnds, EventLoop, MayEndWell, StepEnds, Kind, Alive, others
<1>1. Typed'
  BY DEF IInv, Typed, TaskStates, Ended, Phase, Processes, Words, Steps
<1>2. Flags'
  BY DEF IInv, Flags
<1>3. StepsInOrder' /\ Phase'
  BY DEF IInv, Typed, TaskStates, StepsInOrder, Phase, Processes, Ended, Steps
<1>4. Processes' /\ Words'
  BY DEF IInv, Typed, TaskStates, Phase, Processes, Words, Started, Ended, Steps
<1>5. HeldOK' /\ FinalizedOnce'
  BY DEF IInv, Typed, TaskStates, StepsInOrder, Phase, HeldOK, CleanedUp, FinalizedOnce, Ended,
         Steps
<1>6. AbortHolds'
  BY DEF IInv, Typed, TaskStates, Phase, Processes, Words, Started, AbortHolds, Ended, Steps
<1> QED BY <1>1, <1>2, <1>3, <1>4, <1>5, <1>6 DEF IInv

\* The profiler lets a game proceed that still waits for its word.
LEMMA ProfilerReadyInv == ASSUME PipelinesAssumption, IInv, ProfilerReady PROVE IInv'
<1> USE PipelineTyped DEF ProfilerReady, EventLoop, Kind, Alive, launch
<1>1. Typed'
  <2>1. told' \in {<<>>, <<"launch">>, <<"abort">>}
    BY FirstWord DEF IInv, Typed, TaskStates, Words
  <2> QED BY <2>1 DEF IInv, Typed, TaskStates, Steps
<1>2. Flags'
  BY DEF IInv, Flags
<1>3. StepsInOrder' /\ Phase'
  BY DEF IInv, Typed, TaskStates, StepsInOrder, Phase, Processes, Ended, Steps
<1>4. Processes'
  BY DEF IInv, Processes
<1>5. Words'
  <2>1. /\ currentStep' = currentStep /\ m_steps' = m_steps /\ call' = call /\ proc' = proc
        /\ call = "idle"
    OBVIOUS
  <2>2. ASSUME NEW g \in 1..currentStep, Started(g) PROVE Started(g)'
    BY <2>1, <2>2 DEF Started
  <2>3. CASE told' = told
    BY <2>1, <2>2, <2>3 DEF IInv, Words
  <2>4. CASE told' # told
    <3>1. Kind = "game" /\ ~mayProceed' /\ Alive /\ state = "Waiting" /\ mayProceed
      BY <2>4
    <3>2. proc # "starting" /\ currentStep \in 1..currentStep
      <4>1. currentStep \in Steps /\ Len(m_steps) \in Nat /\ Steps = 1..Len(m_steps)
        BY DEF IInv, Phase, Typed
      <4>2. PICK g \in 1..currentStep : Started(g)
        BY <3>1 DEF IInv, Words
      <4>3. g = currentStep
        BY <3>1, <4>1, <4>2 DEF IInv, Typed, Started
      <4> QED BY <4>1, <4>2, <4>3 DEF Started
    <3> QED BY <2>1, <3>1, <3>2 DEF Words, Started
  <2> QED BY <2>3, <2>4
<1>6. HeldOK' /\ FinalizedOnce'
  BY DEF IInv, Typed, TaskStates, StepsInOrder, Phase, HeldOK, CleanedUp, FinalizedOnce, Ended,
         Steps
<1>7. AbortHolds'
  BY DEF IInv, Typed, TaskStates, Phase, Processes, Words, Started, AbortHolds, Ended, Steps
<1> QED BY <1>1, <1>2, <1>3, <1>4, <1>5, <1>6, <1>7 DEF IInv

\* The call that abort() made returns.
LEMMA AbortReturnsInv == ASSUME PipelinesAssumption, IInv, AbortReturns PROVE IInv'
<1> USE PipelineTyped DEF AbortReturns, UnchangedByAbort, EventLoop, Active, Kind, Alive
<1>1. Typed'
  BY DEF IInv, Typed, TaskStates, Ended, Phase, Processes, Words, Steps
<1>2. Flags'
  BY DEF IInv, Flags
<1>3. StepsInOrder' /\ Phase'
  BY DEF IInv, Typed, TaskStates, StepsInOrder, Phase, Processes, Ended, Steps
<1>4. Processes' /\ Words'
  BY DEF IInv, Typed, TaskStates, Phase, Processes, Words, Started, Ended, Steps
<1>5. HeldOK' /\ FinalizedOnce'
  BY DEF IInv, Typed, TaskStates, StepsInOrder, Phase, HeldOK, CleanedUp, FinalizedOnce, Ended,
         Steps
<1>6. AbortHolds'
  BY DEF IInv, Typed, TaskStates, Phase, Processes, Words, Started, AbortHolds, Ended, Steps
<1> QED BY <1>1, <1>2, <1>3, <1>4, <1>5, <1>6 DEF IInv

\* The user is asked.
LEMMA KillInv == ASSUME PipelinesAssumption, IInv, Kill PROVE IInv'
<1> USE PipelineTyped DEF Kill, launch, process, EventLoop, CanAbort, Kind, Alive
<1>1. Typed'
  BY DEF IInv, Typed, TaskStates, Ended, Phase, Processes, Words, Steps
<1>2. Flags'
  BY DEF IInv, Flags
<1>3. StepsInOrder' /\ Phase'
  BY DEF IInv, Typed, TaskStates, StepsInOrder, Phase, Processes, Ended, Steps
<1>4. Processes' /\ Words'
  BY DEF IInv, Typed, TaskStates, Phase, Processes, Words, Started, Ended, Steps
<1>5. HeldOK' /\ FinalizedOnce'
  BY DEF IInv, Typed, TaskStates, StepsInOrder, Phase, HeldOK, CleanedUp, FinalizedOnce, Ended,
         Steps
<1>6. AbortHolds'
  BY DEF IInv, Typed, TaskStates, Phase, Processes, Words, Started, AbortHolds, Ended, Steps
<1> QED BY <1>1, <1>2, <1>3, <1>4, <1>5, <1>6 DEF IInv

\* abort() of the launch, from whichever dialog: a process that lives is killed or
\* told, an update is told, a lookup is over.
LEMMA AbortInv ==
    ASSUME PipelinesAssumption, IInv, EventLoop, Abort, UNCHANGED UnchangedByAbort,
           task # "Inactive", box' \in BOOLEAN, controller' \in TaskStates,
           profiler' \in {"none", "ready", "broken", "prompt", "gone"}
    PROVE  IInv'
<1> USE PipelineTyped DEF UnchangedByAbort, EventLoop
<1>1. /\ call = "idle" /\ currentStep \in Steps /\ Len(m_steps) \in Nat /\ Steps = 1..Len(m_steps)
      /\ task = "Running" => step[currentStep] = "Running"
      /\ task \in {"Running", "Failed", "Succeeded"} /\ ~unfinished
      /\ Ended => step[currentStep] = task
  BY DEF IInv, Typed, TaskStates, Phase, Ended
<1>2. CASE AbortProcess
  <2> USE <1>2 DEF AbortProcess, Aborts
  <2>1. UNCHANGED <<task, step, call, aborting, m_aborted, finalized, m_isRunning>>
    OBVIOUS
  <2>2. told' = told \/ (mayProceed /\ Alive /\ told = <<>> /\ told' = <<"abort">> /\ ~mayProceed')
    BY FirstWord DEF IInv, Words
  <2>3. Typed'
    BY <2>1, <2>2, <1>1 DEF IInv, Typed, Steps
  <2>4. Flags'
    BY DEF IInv, Flags, Alive
  <2>5. StepsInOrder' /\ Phase'
    BY <1>1, <2>1 DEF IInv, StepsInOrder, Phase, Ended, Steps
  <2>6. Processes'
    BY <2>1 DEF IInv, Processes, Alive, Kind
  <2>7. Words'
    <3>1. ASSUME NEW g \in 1..currentStep, Started(g) PROVE Started(g)'
      BY <1>1, <2>1, <3>1 DEF Started
    <3>2. mayProceed' => mayProceed /\ told' = told
      BY <2>2
    <3> QED BY <2>1, <2>2, <3>1, <3>2 DEF IInv, Words, Kind
  <2>8. HeldOK' /\ FinalizedOnce'
    BY <2>1 DEF IInv, HeldOK, CleanedUp, FinalizedOnce, Ended, Steps
  <2>9. AbortHolds'
    <3>1. CASE task = "Running"
      <4>1. Alive /\ Kind' = Kind /\ Kind \in {"command", "game"}
        BY <1>1, <3>1 DEF IInv, Processes, Kind
      <4>2. CASE mayProceed
        <5>1. told' = <<"abort">>
          BY <4>1, <4>2, FirstWord DEF IInv, Words
        <5>2. Kind = "game"
          BY <3>1, <4>2 DEF IInv, Words
        <5> QED BY <1>1, <2>1, <4>1, <5>1, <5>2 DEF AbortHolds
      <4>3. CASE ~mayProceed
        <5>1. m_is_aborting' = TRUE
          BY <4>1, <4>3
        <5> QED BY <1>1, <2>1, <4>1, <5>1 DEF AbortHolds
      <4> QED BY <4>2, <4>3
    <3>2. CASE task # "Running"
      BY <2>1, <3>2 DEF AbortHolds
    <3> QED BY <3>1, <3>2
  <2> QED BY <2>3, <2>4, <2>5, <2>6, <2>7, <2>8, <2>9 DEF IInv
<1>3. CASE AbortUpdate
  <2> USE <1>3 DEF AbortUpdate, Aborts
  <2>1. Kind = "update" /\ Kind' = Kind /\ ~Alive /\ ~Alive'
    BY DEF IInv, Processes, Kind, Alive
  <2>2. Typed'
    BY <1>1 DEF IInv, Typed, Steps
  <2>3. Flags'
    BY DEF IInv, Flags
  <2>4. StepsInOrder' /\ Phase'
    BY <1>1 DEF IInv, StepsInOrder, Phase, Ended, Steps
  <2>5. Processes' /\ Words'
    BY <2>1 DEF IInv, Processes, Words, Started
  <2>6. HeldOK' /\ FinalizedOnce'
    BY DEF IInv, HeldOK, CleanedUp, FinalizedOnce, Ended, Steps
  <2>7. AbortHolds'
    BY <1>1, <2>1 DEF IInv, AbortHolds
  <2> QED BY <2>2, <2>3, <2>4, <2>5, <2>6, <2>7 DEF IInv
<1>4. CASE AbortLookup
  <2> USE <1>4 DEF AbortLookup, Aborts, StepEnds
  <2>1. Kind = "lookup" /\ Kind' = Kind /\ ~Alive /\ ~Alive'
    BY DEF IInv, Processes, Kind, Alive
  <2>2. CASE Active
    <3>1. /\ task = "Running" /\ step' = [step EXCEPT ![currentStep] = "Succeeded"]
          /\ call' = "finish" /\ UNCHANGED <<state, asked, told, mayProceed, finalized>>
      BY <1>1, <2>2 DEF Active, Ended
    <3>2. Typed'
      BY <1>1, <3>1 DEF IInv, Typed, TaskStates, Steps
    <3>3. Flags'
      BY <2>2 DEF IInv, Flags
    <3>4. StepsInOrder' /\ Phase'
      BY <1>1, <3>1 DEF IInv, Typed, TaskStates, StepsInOrder, Phase, Ended, Steps
    <3>5. Processes'
      BY <2>1, <3>1 DEF Processes
    <3>6. Words'
      BY <2>1, <3>1 DEF IInv, Words, Started
    <3>7. HeldOK' /\ FinalizedOnce'
      BY <1>1, <3>1 DEF IInv, Typed, TaskStates, HeldOK, CleanedUp, FinalizedOnce, Ended, Steps
    <3>8. AbortHolds'
      BY <1>1, <2>1, <3>1 DEF IInv, AbortHolds
    <3> QED BY <3>2, <3>3, <3>4, <3>5, <3>6, <3>7, <3>8 DEF IInv
  <2>3. CASE ~Active
    <3>1. /\ Ended /\ UNCHANGED <<task, step, call, aborting, asked, told, mayProceed, finalized>>
      BY <1>1, <2>3 DEF Active, Ended
    <3>2. Typed'
      BY <1>1, <2>3, <3>1 DEF IInv, Typed, Steps
    <3>3. Flags'
      BY <3>1 DEF IInv, Flags
    <3>4. StepsInOrder' /\ Phase'
      BY <1>1, <3>1 DEF IInv, StepsInOrder, Phase, Ended, Steps
    <3>5. Processes' /\ Words'
      BY <2>1, <3>1 DEF IInv, Processes, Words, Started
    <3>6. HeldOK' /\ FinalizedOnce'
      BY <3>1 DEF IInv, HeldOK, CleanedUp, FinalizedOnce, Ended, Steps
    <3>7. AbortHolds'
      BY <3>1 DEF AbortHolds, Ended
    <3> QED BY <3>2, <3>3, <3>4, <3>5, <3>6, <3>7 DEF IInv
  <2> QED BY <2>2, <2>3
<1>5. CASE UNCHANGED <<state, asked, task, step, call, aborting, m_aborted, finalized,
                       m_isRunning, m_is_aborting, mayProceed, told>>
  <2>1. Kind' = Kind /\ (Alive' <=> Alive)
    BY <1>5 DEF Kind, Alive
  <2>2. Typed'
    BY <1>1, <1>5 DEF IInv, Typed, Steps
  <2>3. Flags'
    BY <1>5 DEF IInv, Flags
  <2>4. StepsInOrder' /\ Phase'
    BY <1>1, <1>5 DEF IInv, StepsInOrder, Phase, Ended, Steps
  <2>5. Processes' /\ Words' /\ AbortHolds'
    BY <1>5, <2>1 DEF IInv, Processes, Words, Started, AbortHolds
  <2>6. HeldOK' /\ FinalizedOnce'
    BY <1>5 DEF IInv, HeldOK, CleanedUp, FinalizedOnce, Ended, Steps
  <2> QED BY <2>2, <2>3, <2>4, <2>5, <2>6 DEF IInv
<1> QED BY <1>2, <1>3, <1>4, <1>5 DEF Abort

\* What the answers of the dialogs do.
LEMMA DialogsInv == ASSUME PipelinesAssumption, IInv, Answer \/ ProfilerFails PROVE IInv'
<1>1. CASE Answer /\ Abort /\ UNCHANGED <<UnchangedByAbort, profiler, controller>>
  <2>1. task # "Inactive" /\ box' \in BOOLEAN
    BY <1>1 DEF Answer, IInv, Phase
  <2> QED BY <1>1, <2>1, AbortInv DEF Answer, IInv, Typed
<1>2. CASE Answer /\ UNCHANGED <<m_steps, launch, process, aborting, m_aborted, profiler,
                                  controller, asked>>
  <2> USE <1>2 DEF Answer, launch, process
  <2>1. Typed'
    BY DEF IInv, Typed, Steps
  <2>2. Flags'
    BY DEF IInv, Flags
  <2>3. StepsInOrder' /\ Phase'
    BY DEF IInv, StepsInOrder, Phase, Ended, Steps
  <2>4. Processes' /\ Words' /\ AbortHolds'
    BY DEF IInv, Processes, Words, Started, AbortHolds, Kind, Alive
  <2>5. HeldOK' /\ FinalizedOnce'
    BY DEF IInv, HeldOK, CleanedUp, FinalizedOnce, Ended, Steps
  <2> QED BY <2>1, <2>2, <2>3, <2>4, <2>5 DEF IInv
<1>3. CASE ProfilerFails
  <2>1. task # "Inactive"
    BY <1>3 DEF ProfilerFails, IInv, Phase
  <2>2. box' \in BOOLEAN /\ controller' \in TaskStates
    <3>1. box' = box /\ controller' \in {controller, "Failed"}
      BY <1>3 DEF ProfilerFails
    <3> QED BY <3>1 DEF IInv, Typed, Flags, TaskStates
  <2> QED BY <1>3, <2>1, <2>2, AbortInv DEF ProfilerFails
<1> QED BY <1>1, <1>2, <1>3 DEF Answer

\* The invariant is inductive.
LEMMA Invariance == ASSUME PipelinesAssumption, IInv, [Next]_vars PROVE IInv'
<1>1. CASE UNCHANGED vars
  <2> USE <1>1 DEF vars, launch, process, others
  <2>1. Typed'
    BY DEF IInv, Typed, Steps
  <2>2. Flags'
    BY DEF IInv, Flags
  <2>3. StepsInOrder' /\ Phase'
    BY DEF IInv, StepsInOrder, Phase, Ended, Steps
  <2>4. Processes' /\ Words' /\ AbortHolds'
    BY DEF IInv, Processes, Words, Started, AbortHolds, Kind, Alive
  <2>5. HeldOK' /\ FinalizedOnce'
    BY DEF IInv, HeldOK, CleanedUp, FinalizedOnce, Ended, Steps
  <2> QED BY <2>1, <2>2, <2>3, <2>4, <2>5 DEF IInv
<1> QED BY <1>1, LaunchInv, OnStepFinishedInv, StartPlainInv, StartWaitingInv, StartClaimInv,
           StartUpdateInv, StartFilesInv, RestOfFilesInv, StartProcessInv, AbortReturnsInv,
           ScanDoneInv, DnsLookupFinishedInv, UpdateFinishedInv, SkipUpdateInv, ProcessStartedInv,
           ProcessEndsInv, ProfilerReadyInv, KillInv, DialogsInv DEF Next, Calls

-----------------------------------------------------------------------------
\* It holds in every reachable state.
LEMMA IInvHolds == Spec => []IInv
<1>1. Init => IInv
  BY PipelinesAssumption, InitInv
<1>2. IInv /\ [Next]_vars => IInv'
  BY PipelinesAssumption, Invariance
<1> QED BY <1>1, <1>2, PTL DEF Spec

\* For any pipeline: what the steps did is undone once when the launch ends,
\* however it ends.
THEOREM LaunchIsUndone == Spec => []Undone
<1>1. IInv => TypeOK
  BY DEF IInv, Typed, Flags, TypeOK
<1>2. IInv => Undone
  BY <1>1 DEF IInv, HeldOK, Undone
<1> QED BY <1>2, IInvHolds, PTL

\* For any pipeline: a process of the launch lives only while the instance says
\* that it runs, and the game hears one word.
THEOREM GameStaysGuarded == Spec => []GameGuarded
<1>1. IInv => GameGuarded
  <2>1. SUFFICES ASSUME IInv PROVE GameGuarded
    OBVIOUS
  <2>2. RunningWhileAlive
    BY <2>1 DEF IInv, Processes, Phase, RunningWhileAlive
  <2>3. Len(told) <= 1
    <3>1. told \in {<<>>, <<"launch">>, <<"abort">>}
      BY <2>1 DEF IInv, Typed
    <3>2. ASSUME told = <<>> PROVE Len(told) <= 1
      BY <3>2
    <3>3. ASSUME told = <<"launch">> PROVE Len(told) <= 1
      BY <3>3
    <3>4. ASSUME told = <<"abort">> PROVE Len(told) <= 1
      BY <3>4
    <3> QED BY <3>1, <3>2, <3>3, <3>4
  <2> QED BY <2>2, <2>3 DEF GameGuarded, OneWord
<1> QED BY <1>1, IInvHolds, PTL

\* For any pipeline the steps run in order, and the launch succeeds with the last.
THEOREM StepsRunInOrder == Spec => []StepsInOrder
<1>1. IInv => StepsInOrder
  BY DEF IInv
<1> QED BY <1>1, IInvHolds, PTL

\* For any pipeline no step is started after an abort that returned true in
\* another step than the lookup.
THEOREM AbortStopsForGood == Spec => AbortStopsLaunch
<1>1. IInv /\ [Next]_vars => [asked = "yes" => currentStep' = currentStep]_vars
  <2>1. SUFFICES ASSUME IInv, Next, asked = "yes" PROVE currentStep' = currentStep
    OBVIOUS
  <2>2. ~Launch
    BY <2>1 DEF Launch, IInv, Phase
  <2>3. CASE OnStepFinished
    <3>1. call = "finish" /\ task = "Running"
      BY <2>1, <2>3 DEF OnStepFinished, IInv, Typed, TaskStates, Phase, Ended
    <3>2. step[currentStep] = "Failed"
      BY <2>1, <3>1 DEF IInv, AbortHolds
    <3> QED BY <2>3, <3>2 DEF OnStepFinished, MoveOn
  <2>4. CASE Calls /\ ~OnStepFinished
    BY <2>4 DEF Calls, StartPlain, StartWaiting, StartClaim, StartUpdate, StartFiles, RestOfFiles,
                StartProcess, AbortReturns, UnchangedByAbort
  <2>5. CASE ScanDone \/ DnsLookupFinished \/ UpdateFinished
    BY <2>5 DEF ScanDone, DnsLookupFinished, UpdateFinished, StepReports
  <2>6. CASE SkipUpdate \/ ProcessStarted \/ ProcessEnds \/ ProfilerReady
    BY <2>6 DEF SkipUpdate, ProcessStarted, ProcessEnds, ProfilerReady, launch
  <2>7. CASE ProfilerFails \/ Kill \/ Answer
    BY <2>7 DEF ProfilerFails, Kill, Answer, UnchangedByAbort, launch
  <2> QED BY <2>1, <2>2, <2>3, <2>4, <2>5, <2>6, <2>7 DEF Next
<1> QED BY <1>1, IInvHolds, PTL DEF Spec, AbortStopsLaunch
===============================================================================
