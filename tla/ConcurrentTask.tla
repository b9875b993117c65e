--------------------------- MODULE ConcurrentTask ---------------------------
(* tasks/ConcurrentTask.cpp with its three subclasses: SequentialTask,       *)
(* MultipleOptionsTask and net/NetJob.  Everything runs on the GUI thread:   *)
(* an action below is one slot invocation or one event taken from the Qt     *)
(* event queue, with every call it makes synchronously.                      *)
EXTENDS Integers, Sequences, FiniteSets, SequencesExt

CONSTANTS Tasks,          \* the children that may be added
          Kinds,          \* the classes a container may be of
          MaxConcurrent,  \* m_total_max_size of the classes that take it
          Abortable,      \* children whose abort() succeeds
          Vanishing,      \* children that may end on a signal nobody listens to
          NextEvent,      \* a posted call of startNext()
          MaxStarts,      \* bound: calls of start() on the container
          MaxAborts       \* bound: calls of abort() on the container

AllKinds == {"concurrent", "sequential", "options", "netjob"}

ASSUME KindAssumption == Kinds \subseteq AllKinds
ASSUME TasksAssumption == IsFiniteSet(Tasks)
ASSUME ChildAssumption == Abortable \subseteq Tasks /\ Vanishing \subseteq Tasks
ASSUME ConcurrencyAssumption == MaxConcurrent \in Nat \ {0}
ASSUME EventAssumption == NextEvent \notin Tasks
ASSUME BoundAssumption == MaxStarts \in Nat /\ MaxAborts \in Nat

VARIABLES
    kind,       \* the class of the container
    m_state,    \* Task::m_state of the container
    m_queue,    \* children waiting, in order
    m_doing,    \* children handed to the event loop or running
    m_done,     \* children that reported an end
    m_failed,   \* children whose failure counts
    m_aborted,  \* set by ConcurrentTask::abort(), never cleared
    m_try,      \* NetJob::m_try
    child,      \* Task::m_state of every child
    posted,     \* queued events of the container, delivered in order
    emitted,    \* terminal signals of the container since its last start()
    added,      \* history: the children in the order they were added
    attempts,   \* history: how often each child was really started
    starts,     \* history: calls of start() that took effect
    aborts      \* history: calls of abort()

vars == <<kind, m_state, m_queue, m_doing, m_done, m_failed, m_aborted, m_try,
          child, posted, emitted, added, attempts, starts, aborts>>

Ends == {"Succeeded", "Failed", "AbortedByUser"}
States == {"Inactive", "Running"} \union Ends
MaxTries == 3   \* the literal of NetJob::startNext

\* SequentialTask and its subclass construct the container with one slot.
Slots == IF kind \in {"sequential", "options"} THEN 1 ELSE MaxConcurrent

Init == /\ kind \in Kinds
        /\ m_state = "Inactive"
        /\ m_queue = << >>
        /\ m_doing = {} /\ m_done = {} /\ m_failed = {}
        /\ m_aborted = FALSE
        /\ m_try = 1
        /\ child = [t \in Tasks |-> "Inactive"]
        /\ posted = << >>
        /\ emitted = << >>
        /\ added = << >>
        /\ attempts = [t \in Tasks |-> 0]
        /\ starts = 0 /\ aborts = 0

-----------------------------------------------------------------------------
(* The container's own state changes.                                        *)

\* Faulty variant of Emit: no test of isRunning().
EmitUnchecked(e) == m_state' = e /\ emitted' = Append(emitted, e)

\* emitSucceeded() / emitFailed() / emitAborted(): nothing unless running.
Emit(e) == IF m_state = "Running"
           THEN m_state' = e /\ emitted' = Append(emitted, e)
           ELSE UNCHANGED <<m_state, emitted>>

\* What startNext() leaves alone when it starts no child.
Hold(q, dg, post) == m_queue' = q /\ m_doing' = dg /\ posted' = post

\* Faulty variants of BaseStartNext: no test of m_aborted; success while
\* children are at work.
BaseStartNextIgnoringAbort(q, dg, post) ==
    /\ IF q = << >> \/ Cardinality(dg) > Slots THEN Hold(q, dg, post)
       ELSE Hold(Tail(q), dg \union {Head(q)}, Append(post, Head(q)))
    /\ UNCHANGED <<m_state, emitted>>
BaseStartNextHasty(q, dg, post) ==
    IF q = << >> THEN Hold(q, dg, post) /\ Emit("Succeeded")
    ELSE /\ Hold(Tail(q), dg \union {Head(q)}, Append(post, Head(q)))
         /\ UNCHANGED <<m_state, emitted>>

\* ConcurrentTask::startNext() for the given queue, running set and events.
BaseStartNext(q, dg, post) ==
    LET blocked == m_aborted \/ Cardinality(dg) > Slots
        idle    == q = << >> /\ dg = {} /\ m_state # "Succeeded"
    IN  \/ /\ ~blocked /\ idle
           /\ Emit("Succeeded")
           /\ Hold(q, dg, post)
        \/ /\ ~blocked /\ q # << >>
           /\ Hold(Tail(q), dg \union {Head(q)}, Append(post, Head(q)))
           /\ UNCHANGED <<m_state, emitted>>
        \/ /\ blocked \/ (q = << >> /\ ~idle)
           /\ Hold(q, dg, post)
           /\ UNCHANGED <<m_state, emitted>>

\* Faulty variant of SequentialStartNext: a failed child is passed over.
SequentialStartNextAnyway(dg, fl, post) == BaseStartNext(m_queue, dg, post)

SequentialStartNext(dg, fl, post) ==
    \/ /\ fl # {}
       /\ Emit("Failed")
       /\ Hold(m_queue, dg, post)
    \/ /\ fl = {}
       /\ BaseStartNext(m_queue, dg, post)

OptionsStartNext(dg, dn, fl, post) ==
    LET anySucceeded == Cardinality(dn) # Cardinality(fl)
    IN  \/ /\ anySucceeded
           /\ Emit("Succeeded")
           /\ Hold(m_queue, dg, post)
        \/ /\ ~anySucceeded /\ m_queue = << >>
           /\ Emit("Failed")
           /\ Hold(m_queue, dg, post)
        \/ /\ ~anySucceeded /\ m_queue # << >>
           /\ BaseStartNext(m_queue, dg, post)

\* NetJob::startNext(): the failed downloads come back in hash order.
NetJobStartNext(dg, fl, post) ==
    LET retry == m_queue = << >> /\ dg = {} /\ fl # {} /\ m_try < MaxTries
    IN  \/ /\ retry
           /\ m_try' = m_try + 1
           /\ m_failed' = {}
           /\ \E q \in SetToSeqs(fl) : BaseStartNext(q, dg, post)
        \/ /\ ~retry
           /\ UNCHANGED m_try
           /\ m_failed' = fl
           /\ BaseStartNext(m_queue, dg, post)

\* The virtual call startNext(), once m_doing, m_done and m_failed are dg, dn, fl.
StartNext(dg, dn, fl, post) ==
    /\ m_done' = dn
    /\ \/ kind = "concurrent" /\ BaseStartNext(m_queue, dg, post)
       \/ kind = "sequential" /\ SequentialStartNext(dg, fl, post)
       \/ kind = "options" /\ OptionsStartNext(dg, dn, fl, post)
       \/ kind = "netjob" /\ NetJobStartNext(dg, fl, post)
    /\ kind # "netjob" => m_failed' = fl /\ UNCHANGED m_try

-----------------------------------------------------------------------------
(* Calls made by the owner of the container.                                 *)

\* addTask(), refused while running; addNetAction() has no such guard.
AddTask(t) ==
    /\ ~Contains(added, t)
    /\ kind = "netjob" \/ m_state # "Running"
    /\ m_queue' = Append(m_queue, t)
    /\ added' = Append(added, t)
    /\ UNCHANGED <<m_state, m_doing, m_done, m_failed, m_aborted, m_try, child,
                   posted, emitted, attempts, starts, aborts>>

\* Task::start() and ConcurrentTask::executeTask().
Start ==
    LET least == IF Len(m_queue) < Slots THEN Len(m_queue) ELSE Slots
        numStarts == IF least < 1 THEN 1 ELSE least
    IN  /\ starts < MaxStarts
        /\ m_state # "Running"
        /\ m_state' = "Running"
        /\ emitted' = << >>
        /\ posted' = posted \o [i \in 1..numStarts |-> NextEvent]
        /\ starts' = starts + 1
        /\ UNCHANGED <<m_queue, m_doing, m_done, m_failed, m_aborted, m_try,
                       child, added, attempts, aborts>>

\* ConcurrentTask::abort(): with nothing to abort the signal is emitted past
\* the checks of emitAborted() and m_state does not change.
BaseAbort ==
    /\ kind # "netjob"
    /\ aborts < MaxAborts
    /\ aborts' = aborts + 1
    /\ m_queue' = << >>
    /\ m_aborted' = TRUE
    /\ IF m_doing = {}
       THEN emitted' = Append(emitted, "AbortedByUser") /\ UNCHANGED m_state
       ELSE Emit(IF m_doing \subseteq Abortable THEN "AbortedByUser" ELSE "Failed")
    /\ child' = [t \in Tasks |->
                   IF t \in m_doing \intersect Abortable /\ child[t] = "Running"
                   THEN "AbortedByUser" ELSE child[t]]
    /\ UNCHANGED <<m_doing, m_done, m_failed, m_try, posted, added, attempts, starts>>

\* Faulty variant of NetJobAbort: the queue is dropped.
NetJobAbortDropping ==
    /\ kind = "netjob" /\ aborts < MaxAborts /\ aborts' = aborts + 1
    /\ m_queue' = << >>
    /\ Emit("AbortedByUser")
    /\ UNCHANGED <<m_doing, m_done, m_failed, m_aborted, m_try, child, posted,
                   added, attempts, starts>>
\* NetJob::abort(): m_aborted stays FALSE and m_doing keeps its downloads.
NetJobAbort ==
    /\ kind = "netjob"
    /\ aborts < MaxAborts
    /\ aborts' = aborts + 1
    /\ m_failed' = m_failed \union ToSet(m_queue)
    /\ m_queue' = << >>
    /\ Emit(IF m_doing \subseteq Abortable THEN "AbortedByUser" ELSE "Failed")
    /\ child' = [t \in Tasks |->
                   IF t \in m_doing \intersect Abortable
                   THEN "AbortedByUser" ELSE child[t]]
    /\ UNCHANGED <<m_doing, m_done, m_aborted, m_try, posted, added, attempts, starts>>

-----------------------------------------------------------------------------
(* Events taken from the queue, and what the children report.                *)

DeliverStartNext ==
    /\ posted # << >> /\ Head(posted) = NextEvent
    /\ StartNext(m_doing, m_done, m_failed, Tail(posted))
    /\ UNCHANGED <<m_aborted, child, added, attempts, starts, aborts>>

\* The posted next->start(): Task::start() of the child.
DeliverChildStart(t) ==
    /\ posted # << >> /\ Head(posted) = t
    /\ posted' = Tail(posted)
    /\ child' = [child EXCEPT ![t] = "Running"]
    /\ attempts' = [attempts EXCEPT ![t] = IF child[t] = "Running" THEN @ ELSE @ + 1]
    /\ UNCHANGED <<m_state, m_queue, m_doing, m_done, m_failed, m_aborted,
                   m_try, emitted, added, starts, aborts>>

\* Faulty variant: a failure that does not call startNext().
SubTaskFailedSilently(t) ==
    /\ child[t] = "Running" /\ t \in m_doing
    /\ child' = [child EXCEPT ![t] = "Failed"]
    /\ m_doing' = m_doing \ {t}
    /\ m_done' = m_done \union {t} /\ m_failed' = m_failed \union {t}
    /\ UNCHANGED <<m_state, m_queue, m_aborted, m_try, posted, emitted, added,
                   attempts, starts, aborts>>

\* A child reports success or failure; the container listens to the children
\* of m_doing only.
SubTaskSucceeded(t) ==
    /\ child[t] = "Running" /\ t \in m_doing
    /\ child' = [child EXCEPT ![t] = "Succeeded"]
    /\ StartNext(m_doing \ {t}, m_done \union {t}, m_failed, posted)
    /\ UNCHANGED <<m_aborted, added, attempts, starts, aborts>>

SubTaskFailed(t) ==
    /\ child[t] = "Running" /\ t \in m_doing
    /\ child' = [child EXCEPT ![t] = "Failed"]
    /\ StartNext(m_doing \ {t}, m_done \union {t}, m_failed \union {t}, posted)
    /\ UNCHANGED <<m_aborted, added, attempts, starts, aborts>>

\* A child ends on aborted(), or on no signal at all (a Download whose sink
\* cannot be opened): neither is connected to the container.
SubTaskVanished(t) ==
    /\ child[t] = "Running" /\ t \in Vanishing
    /\ child' = [child EXCEPT ![t] = "AbortedByUser"]
    /\ UNCHANGED <<m_state, m_queue, m_doing, m_done, m_failed, m_aborted, m_try,
                   posted, emitted, added, attempts, starts, aborts>>

Deliver == UNCHANGED kind /\ (DeliverStartNext \/ \E t \in Tasks : DeliverChildStart(t))
ChildEnds(t) ==
    UNCHANGED kind /\ (SubTaskSucceeded(t) \/ SubTaskFailed(t) \/ SubTaskVanished(t))

Next == /\ UNCHANGED kind
        /\ \/ \E t \in Tasks : AddTask(t)
           \/ Start
           \/ BaseAbort
           \/ NetJobAbort
           \/ DeliverStartNext
           \/ \E t \in Tasks : DeliverChildStart(t)
           \/ \E t \in Tasks : SubTaskSucceeded(t)
           \/ \E t \in Tasks : SubTaskFailed(t)
           \/ \E t \in Tasks : SubTaskVanished(t)

Spec == Init /\ [][Next]_vars

\* The event loop delivers what is posted and a running child ends some day;
\* nothing obliges the owner to add, start or abort.
Fairness == WF_vars(Deliver) /\ \A t \in Tasks : WF_vars(ChildEnds(t))
FairSpec == Spec /\ Fairness

-----------------------------------------------------------------------------
(* Correctness.                                                              *)

\* Every variable keeps the type its member has in the source.
TypeOK == /\ kind \in Kinds
          /\ m_state \in States
          /\ m_queue \in Seq(Tasks)
          /\ m_doing \subseteq Tasks
          /\ m_done \subseteq Tasks
          /\ m_failed \subseteq Tasks
          /\ m_aborted \in BOOLEAN
          /\ m_try \in 1..MaxTries
          /\ child \in [Tasks -> States]
          /\ posted \in Seq(Tasks \union {NextEvent})
          /\ emitted \in Seq(Ends)
          /\ added \in Seq(Tasks)
          /\ attempts \in [Tasks -> Nat]
          /\ starts \in 0..MaxStarts
          /\ aborts \in 0..MaxAborts

\* A running child is always one the container can still reach: it is in
\* m_doing, where abort() finds it and where its end is awaited.
RunningTracked == \A t \in Tasks : child[t] = "Running" => t \in m_doing

\* Every added child is in exactly one place: waiting, handed out, reported or
\* (NetJob) failed; only ConcurrentTask::abort() forgets the ones waiting.
Waiting == ToSet(m_queue)
NoChildLost ==
    /\ IsInjective(m_queue)
    /\ Waiting \intersect m_doing = {}
    /\ m_failed \intersect (Waiting \union m_doing) = {}
    /\ ~m_aborted => ToSet(added) = Waiting \union m_doing \union m_done \union m_failed

\* A call of next->start() is queued at most once per child, for a child of
\* m_doing that is not running: Task::start() never finds the child running.
StartsAreFresh ==
    \A i \in DOMAIN posted : posted[i] # NextEvent =>
        /\ posted[i] \in m_doing
        /\ child[posted[i]] # "Running"
        /\ \A j \in DOMAIN posted : posted[j] = posted[i] => j = i

\* NetJob retries only what failed, and m_try counts every round: a download
\* is attempted at most m_try times, three in all, however often the job is
\* aborted and restarted.  The other classes attempt a child once.
RetryBound == \A t \in Tasks : attempts[t] <= m_try

\* The books of a container: a running child is always within reach of abort(),
\* every added child is in exactly one place, no start is posted twice or for a
\* running child, and nothing is tried more often than the rounds allow.
Bookkeeping ==
    TypeOK /\ RunningTracked /\ NoChildLost /\ StartsAreFresh /\ RetryBound

\* m_total_max_size bounds the children at work, although startNext() compares
\* with > : during the first run it is never exceeded, and a restart over
\* children that an abort left behind exceeds it by one at most.
ConcurrencyBound ==
    Cardinality(m_doing) <= Slots + (IF starts > 1 THEN 1 ELSE 0)

\* SequentialTask: a child is started only when every child added before it
\* has succeeded.
SequentialOrder ==
    kind = "sequential" =>
        \A i, j \in DOMAIN added :
            i < j /\ child[added[j]] # "Inactive" => child[added[i]] = "Succeeded"

\* MultipleOptionsTask: an option is started only when every option added
\* before it has failed, so none runs after the first success.
OptionsOrder ==
    kind = "options" =>
        \A i, j \in DOMAIN added :
            i < j /\ child[added[j]] # "Inactive" => child[added[i]] = "Failed"

\* Children at work: never more than the class allows, and in the order the two
\* sequential classes promise.
ChildrenPaced == ConcurrencyBound /\ SequentialOrder /\ OptionsOrder

\* What success of the container says of its children.
SuccessMeans ==
    CASE kind = "concurrent" -> ToSet(added) = m_done
      [] kind = "sequential" -> \A t \in ToSet(added) : child[t] = "Succeeded"
      [] kind = "options"    -> \E t \in ToSet(added) : child[t] = "Succeeded"
      [] kind = "netjob"     -> \A t \in ToSet(added) :
             child[t] = "Succeeded" \/ (t \in m_failed /\ m_try = MaxTries)
NoEarlySuccess ==
    [][m_state = "Running" /\ m_state' = "Succeeded" =>
         SuccessMeans' /\ m_doing' = {}]_vars

\* After ConcurrentTask::abort() no further child is taken from the queue,
\* also by the calls of startNext() that were already posted.
AbortStopsQueue == [][m_aborted => m_aborted' /\ m_doing' \subseteq m_doing]_vars

\* Until ConcurrentTask::abort() is called (m_aborted stays set for good) the
\* container keeps the contract of a task (tasks/Task.cpp): its own state and
\* signals are those of the abstract task, under any NetJob::abort() and restart.
Contract == INSTANCE TaskContract WITH m_state <- m_state, emitted <- emitted
ContractKept ==
    Contract!Init /\ [][m_aborted' \/ Contract!Next]_(Contract!vars)

\* A child handed out that neither runs nor has a start posted: it ended on a
\* signal the container is not connected to, and is waited for in vain.
Stranded(t) == t \in m_doing /\ child[t] # "Running" /\ t \notin ToSet(posted)

\* A started container reports how it ended, unless ConcurrentTask::abort() was
\* called on it or it is left waiting for a child that ended unheard.
Reports ==
    (m_state = "Running") ~>
        (m_state # "Running" \/ m_aborted \/ \E t \in Tasks : Stranded(t))
=============================================================================
