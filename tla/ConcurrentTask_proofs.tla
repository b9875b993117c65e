------------------------ MODULE ConcurrentTask_proofs ------------------------
(* Theorems about ConcurrentTask for every value of its constants.           *)
EXTENDS ConcurrentTask, FiniteSetTheorems, TLAPS

\* The part of the state startNext() writes, typed.
StepTyped == /\ m_state' \in States
             /\ m_queue' \in Seq(Tasks)
             /\ m_doing' \subseteq Tasks
             /\ m_done' \subseteq Tasks
             /\ m_failed' \subseteq Tasks
             /\ m_try' \in 1..MaxTries
             /\ posted' \in Seq(Tasks \union {NextEvent})
             /\ emitted' \in Seq(Ends)

\* emitSucceeded(), emitFailed() and emitAborted() keep the types.
LEMMA EmitTyped ==
    ASSUME TypeOK, NEW e \in Ends, Emit(e)
    PROVE  m_state' \in States /\ emitted' \in Seq(Ends)
<1>1. CASE m_state = "Running"
  <2>1. m_state' = e /\ emitted' = Append(emitted, e)
    BY <1>1 DEF Emit
  <2>2. m_state' \in States
    BY <2>1 DEF States
  <2>3. emitted \in Seq(Ends)
    BY DEF TypeOK
  <2>4. Append(emitted, e) \in Seq(Ends)
    BY <2>3
  <2> QED BY <2>1, <2>2, <2>4
<1>2. CASE m_state # "Running"
  BY <1>2 DEF TypeOK, Emit
<1> QED BY <1>1, <1>2

\* ConcurrentTask::startNext() keeps the types.
LEMMA BaseStartNextTyped ==
    ASSUME TypeOK, NEW q \in Seq(Tasks), NEW dg \in SUBSET Tasks,
           NEW post \in Seq(Tasks \union {NextEvent}),
           BaseStartNext(q, dg, post)
    PROVE  /\ m_state' \in States /\ emitted' \in Seq(Ends)
           /\ m_queue' \in Seq(Tasks)
           /\ m_doing' \subseteq Tasks
           /\ posted' \in Seq(Tasks \union {NextEvent})
<1>1. CASE Emit("Succeeded") /\ Hold(q, dg, post)
  <2>1. "Succeeded" \in Ends
    BY DEF Ends
  <2> QED BY <1>1, <2>1, EmitTyped DEF Hold
<1>2. CASE /\ q # << >>
           /\ Hold(Tail(q), dg \union {Head(q)}, Append(post, Head(q)))
           /\ UNCHANGED <<m_state, emitted>>
  <2>1. Head(q) \in Tasks /\ Tail(q) \in Seq(Tasks)
    BY <1>2
  <2> QED BY <1>2, <2>1 DEF Hold, TypeOK
<1>3. CASE Hold(q, dg, post) /\ UNCHANGED <<m_state, emitted>>
  BY <1>3 DEF Hold, TypeOK
<1> QED BY <1>1, <1>2, <1>3 DEF BaseStartNext

\* A retry puts the failed children back as a sequence of children.
LEMMA RetryQueueTyped ==
    ASSUME NEW fl \in SUBSET Tasks, NEW q \in SetToSeqs(fl)
    PROVE  q \in Seq(Tasks)
<1>1. IsFiniteSet(fl)
  BY TasksAssumption, FS_Subset
<1>2. Cardinality(fl) \in Nat
  BY <1>1, FS_CardinalityType
<1>3. q \in [1..Cardinality(fl) -> fl]
  BY DEF SetToSeqs
<1>4. q \in [1..Cardinality(fl) -> Tasks]
  BY <1>3
<1> QED BY <1>2, <1>4

\* The virtual startNext() keeps the types, whatever the class.
LEMMA StartNextTyped ==
    ASSUME TypeOK, NEW dg \in SUBSET Tasks, NEW dn \in SUBSET Tasks,
           NEW fl \in SUBSET Tasks, NEW post \in Seq(Tasks \union {NextEvent}),
           StartNext(dg, dn, fl, post)
    PROVE  StepTyped
<1> USE DEF StepTyped
<1>0. /\ m_queue \in Seq(Tasks) /\ m_try \in 1..MaxTries
      /\ m_done' = dn
      /\ "Succeeded" \in Ends /\ "Failed" \in Ends
  BY DEF TypeOK, StartNext, Ends
<1>1. CASE kind = "concurrent" /\ BaseStartNext(m_queue, dg, post)
           /\ m_failed' = fl /\ UNCHANGED m_try
  BY <1>0, <1>1, BaseStartNextTyped
<1>2. CASE kind = "sequential" /\ SequentialStartNext(dg, fl, post)
           /\ m_failed' = fl /\ UNCHANGED m_try
  <2>1. CASE Emit("Failed") /\ Hold(m_queue, dg, post)
    BY <1>0, <1>2, <2>1, EmitTyped DEF Hold
  <2>2. CASE BaseStartNext(m_queue, dg, post)
    BY <1>0, <1>2, <2>2, BaseStartNextTyped
  <2> QED BY <1>2, <2>1, <2>2 DEF SequentialStartNext
<1>3. CASE kind = "options" /\ OptionsStartNext(dg, dn, fl, post)
           /\ m_failed' = fl /\ UNCHANGED m_try
  <2>1. CASE (\E e \in Ends : Emit(e)) /\ Hold(m_queue, dg, post)
    BY <1>0, <1>3, <2>1, EmitTyped DEF Hold
  <2>2. CASE BaseStartNext(m_queue, dg, post)
    BY <1>0, <1>3, <2>2, BaseStartNextTyped
  <2> QED BY <1>0, <1>3, <2>1, <2>2 DEF OptionsStartNext
<1>4. CASE kind = "netjob" /\ NetJobStartNext(dg, fl, post)
  <2>1. CASE /\ m_try < MaxTries /\ m_try' = m_try + 1 /\ m_failed' = {}
             /\ \E q \in SetToSeqs(fl) : BaseStartNext(q, dg, post)
    <3>1. m_try' \in 1..MaxTries
      BY <1>0, <2>1 DEF MaxTries
    <3> QED BY <1>0, <2>1, <3>1, RetryQueueTyped, BaseStartNextTyped
  <2>2. CASE UNCHANGED m_try /\ m_failed' = fl /\ BaseStartNext(m_queue, dg, post)
    BY <1>0, <2>2, BaseStartNextTyped
  <2> QED BY <1>4, <2>1, <2>2 DEF NetJobStartNext
<1> QED BY <1>1, <1>2, <1>3, <1>4 DEF StartNext

\* Every step of the container keeps the types.
LEMMA TypeStep == TypeOK /\ [Next]_vars => TypeOK'
<1> SUFFICES ASSUME TypeOK, [Next]_vars PROVE TypeOK'
  OBVIOUS
<1>0. kind' \in Kinds
  BY DEF TypeOK, Next, vars
<1>1. ASSUME NEW t \in Tasks, AddTask(t) PROVE TypeOK'
  BY <1>0, <1>1 DEF AddTask, TypeOK
<1>2. CASE Start
  <2> DEFINE least == IF Len(m_queue) < Slots THEN Len(m_queue) ELSE Slots
             calls == IF least < 1 THEN 1 ELSE least
             new == [i \in 1..calls |-> NextEvent]
  <2>1. calls \in Nat
    BY ConcurrencyAssumption DEF TypeOK, Slots
  <2>2. new \in Seq({NextEvent})
    BY <2>1
  <2>3. posted \in Seq(Tasks \union {NextEvent}) /\ new \in Seq(Tasks \union {NextEvent})
    BY <2>2 DEF TypeOK
  <2>4. posted' \in Seq(Tasks \union {NextEvent})
    <3>1. posted' = posted \o new
      BY <1>2 DEF Start
    <3> HIDE DEF new
    <3> QED BY <2>3, <3>1
  <2>5. starts' \in 0..MaxStarts
    BY <1>2, BoundAssumption DEF Start, TypeOK
  <2>6. emitted' \in Seq(Ends) /\ m_state' \in States
    BY <1>2 DEF Start, States
  <2> QED BY <1>0, <1>2, <2>4, <2>5, <2>6 DEF Start, TypeOK
<1>3. CASE BaseAbort
  <2>1. "AbortedByUser" \in Ends /\ "Failed" \in Ends /\ "AbortedByUser" \in States
    BY DEF Ends, States
  <2>2. m_state' \in States /\ emitted' \in Seq(Ends)
    <3>1. CASE m_doing = {}
      <4>1. emitted \in Seq(Ends)
        BY DEF TypeOK
      <4>2. Append(emitted, "AbortedByUser") \in Seq(Ends)
        BY <4>1, <2>1
      <4> QED BY <1>3, <3>1, <4>2 DEF BaseAbort, TypeOK
    <3>2. CASE m_doing # {}
      <4>1. \E e \in Ends : Emit(e)
        BY <1>3, <2>1, <3>2 DEF BaseAbort
      <4> QED BY <4>1, EmitTyped
    <3> QED BY <3>1, <3>2
  <2>3. child' \in [Tasks -> States]
    BY <1>3, <2>1 DEF BaseAbort, TypeOK
  <2>4. aborts' \in 0..MaxAborts /\ m_queue' \in Seq(Tasks)
    BY <1>3, BoundAssumption DEF BaseAbort, TypeOK
  <2> QED BY <1>0, <1>3, <2>2, <2>3, <2>4 DEF BaseAbort, TypeOK
<1>4. CASE NetJobAbort
  <2>1. "AbortedByUser" \in Ends /\ "Failed" \in Ends /\ "AbortedByUser" \in States
    BY DEF Ends, States
  <2>2. m_state' \in States /\ emitted' \in Seq(Ends)
    BY <1>4, <2>1, EmitTyped DEF NetJobAbort
  <2>3. child' \in [Tasks -> States]
    BY <1>4, <2>1 DEF NetJobAbort, TypeOK
  <2>4. m_failed' \subseteq Tasks
    BY <1>4 DEF NetJobAbort, TypeOK, ToSet
  <2>5. aborts' \in 0..MaxAborts /\ m_queue' \in Seq(Tasks)
    BY <1>4, BoundAssumption DEF NetJobAbort, TypeOK
  <2> QED BY <1>0, <1>4, <2>2, <2>3, <2>4, <2>5 DEF NetJobAbort, TypeOK
<1>5. CASE DeliverStartNext
  <2>1. Tail(posted) \in Seq(Tasks \union {NextEvent})
    BY <1>5 DEF DeliverStartNext, TypeOK
  <2>2. StepTyped
    BY <1>5, <2>1, StartNextTyped DEF DeliverStartNext, TypeOK
  <2> QED BY <1>0, <1>5, <2>2 DEF DeliverStartNext, StepTyped, TypeOK
<1>6. ASSUME NEW t \in Tasks, DeliverChildStart(t) PROVE TypeOK'
  <2>1. Tail(posted) \in Seq(Tasks \union {NextEvent})
    BY <1>6 DEF DeliverChildStart, TypeOK
  <2>2. child' \in [Tasks -> States] /\ attempts' \in [Tasks -> Nat]
    BY <1>6 DEF DeliverChildStart, TypeOK, States
  <2> QED BY <1>0, <1>6, <2>1, <2>2 DEF DeliverChildStart, TypeOK
<1>7. ASSUME NEW t \in Tasks, SubTaskSucceeded(t) PROVE TypeOK'
  <2>1. StepTyped
    BY <1>7, StartNextTyped DEF SubTaskSucceeded, TypeOK
  <2>2. child' \in [Tasks -> States]
    BY <1>7 DEF SubTaskSucceeded, TypeOK, States, Ends
  <2> QED BY <1>0, <1>7, <2>1, <2>2 DEF SubTaskSucceeded, StepTyped, TypeOK
<1>8. ASSUME NEW t \in Tasks, SubTaskFailed(t) PROVE TypeOK'
  <2>1. StepTyped
    BY <1>8, StartNextTyped DEF SubTaskFailed, TypeOK
  <2>2. child' \in [Tasks -> States]
    BY <1>8 DEF SubTaskFailed, TypeOK, States, Ends
  <2> QED BY <1>0, <1>8, <2>1, <2>2 DEF SubTaskFailed, StepTyped, TypeOK
<1>9. ASSUME NEW t \in Tasks, SubTaskVanished(t) PROVE TypeOK'
  BY <1>0, <1>9 DEF SubTaskVanished, TypeOK, States, Ends
<1>10. CASE UNCHANGED vars
  BY <1>10 DEF vars, TypeOK
<1> QED BY <1>1, <1>2, <1>3, <1>4, <1>5, <1>6, <1>7, <1>8, <1>9, <1>10 DEF Next

LEMMA InitTyped == Init => TypeOK
<1> SUFFICES ASSUME Init PROVE TypeOK
  OBVIOUS
<1>1. /\ m_queue \in Seq(Tasks) /\ added \in Seq(Tasks)
      /\ posted \in Seq(Tasks \union {NextEvent})
      /\ emitted \in Seq(Ends)
  BY DEF Init
<1>2. /\ m_state \in States /\ m_try \in 1..MaxTries
      /\ child \in [Tasks -> States] /\ attempts \in [Tasks -> Nat]
      /\ starts \in 0..MaxStarts /\ aborts \in 0..MaxAborts
  BY BoundAssumption DEF Init, States, MaxTries
<1> QED BY <1>1, <1>2 DEF Init, TypeOK

\* Type correctness: the members keep their types in every reachable state.
THEOREM TypeCorrect == Spec => []TypeOK
BY InitTyped, TypeStep, PTL DEF Spec

-----------------------------------------------------------------------------
(* The contract of a task.                                                   *)

\* What makes the contract inductive: a running container has reported nothing.
Quiet == m_state = "Running" => emitted = << >>

ContractStep == [Contract!Next]_(Contract!vars)

\* The checked emitters are steps of the contract, or no step at all.
LEMMA EmitIsContractStep ==
    ASSUME Quiet, NEW e \in Ends, Emit(e)
    PROVE  ContractStep /\ Quiet'
<1>1. CASE m_state = "Running"
  <2>1. m_state' = e /\ emitted' = <<e>> /\ e # "Running"
    BY <1>1 DEF Emit, Quiet, Ends
  <2>2. e \in Contract!Ends
    BY DEF Ends, Contract!Ends
  <2>3. Contract!End
    BY <1>1, <2>1, <2>2 DEF Contract!End
  <2> QED BY <2>1, <2>3 DEF ContractStep, Contract!Next, Quiet
<1>2. CASE m_state # "Running"
  BY <1>2 DEF Emit, ContractStep, Contract!vars, Quiet
<1> QED BY <1>1, <1>2

\* m_aborted is never cleared.
LEMMA AbortIsForGood == [Next]_vars /\ m_aborted => m_aborted'
BY DEF Next, vars, AddTask, Start, BaseAbort, NetJobAbort, DeliverStartNext,
       DeliverChildStart, SubTaskSucceeded, SubTaskFailed, SubTaskVanished

\* startNext() reports nothing, or reports through the checked emitters.
LEMMA StartNextEmits ==
    ASSUME NEW dg, NEW dn, NEW fl, NEW post, StartNext(dg, dn, fl, post)
    PROVE  (\E e \in Ends : Emit(e)) \/ UNCHANGED <<m_state, emitted>>
<1>1. "Succeeded" \in Ends /\ "Failed" \in Ends
  BY DEF Ends
<1>2. ASSUME NEW q, BaseStartNext(q, dg, post)
      PROVE  Emit("Succeeded") \/ UNCHANGED <<m_state, emitted>>
  BY <1>2 DEF BaseStartNext
<1> QED BY <1>1, <1>2
     DEF StartNext, SequentialStartNext, OptionsStartNext, NetJobStartNext

\* A container nobody has aborted past the emitters steps as a task does.
LEMMA StepIsContractStep ==
    ASSUME TypeOK, m_aborted \/ Quiet, [Next]_vars
    PROVE  m_aborted' \/ (ContractStep /\ Quiet')
<1> SUFFICES ASSUME ~m_aborted' PROVE ContractStep /\ Quiet'
  OBVIOUS
<1>0. Quiet
  BY AbortIsForGood
<1>1. CASE \E e \in Ends : Emit(e)
  BY <1>0, <1>1, EmitIsContractStep
<1>2. CASE UNCHANGED <<m_state, emitted>>
  BY <1>0, <1>2 DEF ContractStep, Contract!vars, Quiet
<1>3. CASE Start
  BY <1>3 DEF Start, ContractStep, Contract!Next, Contract!Start, Quiet
<1>4. ~BaseAbort
  BY DEF BaseAbort
<1>5. CASE NetJobAbort
  <2>1. "AbortedByUser" \in Ends /\ "Failed" \in Ends
    BY DEF Ends
  <2> QED BY <1>1, <1>5, <2>1 DEF NetJobAbort
<1>6. CASE DeliverStartNext
  BY <1>1, <1>2, <1>6, StartNextEmits DEF DeliverStartNext
<1>7. CASE \E t \in Tasks : SubTaskSucceeded(t) \/ SubTaskFailed(t)
  BY <1>1, <1>2, <1>7, StartNextEmits DEF SubTaskSucceeded, SubTaskFailed
<1>8. CASE \E t \in Tasks : AddTask(t) \/ DeliverChildStart(t) \/ SubTaskVanished(t)
  BY <1>2, <1>8 DEF AddTask, DeliverChildStart, SubTaskVanished
<1>9. CASE UNCHANGED vars
  BY <1>2, <1>9 DEF vars
<1> QED BY <1>3, <1>4, <1>5, <1>6, <1>7, <1>8, <1>9 DEF Next

\* Until ConcurrentTask::abort() is called on it a container of any class, a
\* NetJob under any aborts included, implements the contract of tasks/Task.cpp:
\* between two starts it reports at most once, and what it reports is the state
\* it is left in.
THEOREM ImplementsContract == Spec => ContractKept
<1>1. Init => Contract!Init /\ (m_aborted \/ Quiet)
  BY DEF Init, Contract!Init, Quiet
<1>2. TypeOK /\ (m_aborted \/ Quiet) /\ [Next]_vars
      => /\ [m_aborted' \/ Contract!Next]_(Contract!vars)
         /\ (m_aborted \/ Quiet)'
  BY StepIsContractStep DEF ContractStep
<1>3. Spec => []TypeOK
  BY TypeCorrect
<1> QED BY <1>1, <1>2, <1>3, PTL DEF Spec, ContractKept

-----------------------------------------------------------------------------
(* The books: where the children are, what is posted for them and how often *)
(* they were tried.                                                          *)


\* A posted start() is the only one of a child that was handed out and does not run.
Fresh(dg, post, ch) ==
    \A i \in DOMAIN post : post[i] # NextEvent =>
        /\ post[i] \in dg
        /\ ch[post[i]] # "Running"
        /\ \A j \in DOMAIN post : post[j] = post[i] => j = i

\* The books of a container in the middle of a call: queue q, children dg handed
\* out, failures fl, events post, states ch, attempts at, round try.
Books(q, dg, fl, post, ch, at, try) ==
    /\ IsInjective(q)
    /\ ToSet(q) \intersect dg = {}
    /\ fl \intersect (ToSet(q) \union dg) = {}
    /\ \A t \in Tasks : ch[t] = "Running" => t \in dg
    /\ Fresh(dg, post, ch)
    /\ \A t \in Tasks : t \in ToSet(q) \union ToSet(post) => at[t] < try

\* What was tried, or is anywhere in the books, was added.
Known == /\ Waiting \union m_doing \union m_done \union m_failed \subseteq ToSet(added)
         /\ \A t \in Tasks : attempts[t] # 0 => t \in ToSet(added)

Complete == ~m_aborted => ToSet(added) = Waiting \union m_doing \union m_done \union m_failed

IInv == /\ TypeOK /\ Known /\ Complete /\ RetryBound
        /\ Books(m_queue, m_doing, m_failed, posted, child, attempts, m_try)

-----------------------------------------------------------------------------
(* Sequences without repetitions.                                            *)

LEMMA TakeFirst ==
    ASSUME NEW S, NEW s \in Seq(S), s # << >>
    PROVE  /\ Head(s) \in S /\ Tail(s) \in Seq(S)
           /\ ToSet(s) = {Head(s)} \union ToSet(Tail(s))
           /\ IsInjective(s) => IsInjective(Tail(s)) /\ Head(s) \notin ToSet(Tail(s))
<1>1. Len(s) \in Nat /\ Len(s) > 0 /\ DOMAIN s = 1..Len(s) /\ Head(s) = s[1]
  OBVIOUS
<1>2. Tail(s) \in Seq(S) /\ DOMAIN Tail(s) = 1..(Len(s) - 1)
      /\ \A i \in 1..(Len(s) - 1) : Tail(s)[i] = s[i + 1]
  BY <1>1
<1>3. ToSet(s) = {Head(s)} \union ToSet(Tail(s))
  <2>1. ASSUME NEW i \in DOMAIN s PROVE s[i] \in {Head(s)} \union ToSet(Tail(s))
    <3>1. CASE i = 1
      BY <1>1, <3>1
    <3>2. CASE i # 1
      <4>1. i - 1 \in 1..(Len(s) - 1) /\ (i - 1) + 1 = i
        BY <1>1, <3>2
      <4> QED BY <1>2, <4>1 DEF ToSet
    <3> QED BY <3>1, <3>2
  <2>2. ASSUME NEW i \in DOMAIN Tail(s) PROVE Tail(s)[i] \in ToSet(s)
    BY <1>1, <1>2 DEF ToSet
  <2>3. Head(s) \in ToSet(s)
    BY <1>1 DEF ToSet
  <2> QED BY <2>1, <2>2, <2>3 DEF ToSet
<1>4. ASSUME IsInjective(s) PROVE IsInjective(Tail(s)) /\ Head(s) \notin ToSet(Tail(s))
  <2>1. ASSUME NEW i \in DOMAIN Tail(s), NEW j \in DOMAIN Tail(s), Tail(s)[i] = Tail(s)[j]
        PROVE  i = j
    <3>1. i + 1 \in DOMAIN s /\ j + 1 \in DOMAIN s /\ s[i + 1] = s[j + 1]
      BY <1>1, <1>2, <2>1
    <3>2. i + 1 = j + 1
      BY <1>4, <3>1 DEF IsInjective
    <3> QED BY <1>2, <3>2
  <2>2. ASSUME NEW i \in DOMAIN Tail(s), Tail(s)[i] = Head(s) PROVE FALSE
    <3>1. i + 1 \in DOMAIN s /\ 1 \in DOMAIN s /\ s[i + 1] = s[1]
      BY <1>1, <1>2, <2>2
    <3>2. i + 1 = 1
      BY <1>4, <3>1 DEF IsInjective
    <3> QED BY <1>2, <3>2
  <2> QED BY <2>1, <2>2 DEF IsInjective, ToSet
<1> QED BY <1>1, <1>2, <1>3, <1>4

LEMMA PutLast ==
    ASSUME NEW S, NEW s \in Seq(S), NEW x \in S
    PROVE  /\ Append(s, x) \in Seq(S)
           /\ ToSet(Append(s, x)) = ToSet(s) \union {x}
           /\ IsInjective(s) /\ x \notin ToSet(s) => IsInjective(Append(s, x))
<1>1. Len(s) \in Nat /\ DOMAIN s = 1..Len(s)
  OBVIOUS
<1>2. /\ Append(s, x) \in Seq(S) /\ DOMAIN Append(s, x) = 1..(Len(s) + 1)
      /\ Append(s, x)[Len(s) + 1] = x
      /\ \A i \in 1..Len(s) : Append(s, x)[i] = s[i]
  OBVIOUS
<1>3. 1..(Len(s) + 1) = 1..Len(s) \union {Len(s) + 1} /\ Len(s) + 1 \notin 1..Len(s)
  BY <1>1
<1>4. ToSet(Append(s, x)) = ToSet(s) \union {x}
  BY <1>1, <1>2, <1>3 DEF ToSet
<1>5. ASSUME IsInjective(s), x \notin ToSet(s),
             NEW i \in 1..(Len(s) + 1), NEW j \in 1..(Len(s) + 1),
             Append(s, x)[i] = Append(s, x)[j]
      PROVE  i = j
  <2>1. CASE i \in 1..Len(s) /\ j \in 1..Len(s)
    BY <1>1, <1>2, <1>5, <2>1 DEF IsInjective
  <2>2. CASE i = Len(s) + 1
    BY <1>1, <1>2, <1>3, <1>5, <2>2 DEF ToSet
  <2>3. CASE j = Len(s) + 1
    BY <1>1, <1>2, <1>3, <1>5, <2>3 DEF ToSet
  <2> QED BY <1>3, <2>1, <2>2, <2>3
<1> QED BY <1>2, <1>4, <1>5 DEF IsInjective

\* A retry puts every failed child back, once.
LEMMA RetryQueue ==
    ASSUME NEW fl \in SUBSET Tasks, NEW q \in SetToSeqs(fl)
    PROVE  q \in Seq(Tasks) /\ IsInjective(q) /\ ToSet(q) = fl
<1>1. IsFiniteSet(fl) /\ Cardinality(fl) \in Nat
  BY TasksAssumption, FS_Subset, FS_CardinalityType
<1> DEFINE D == 1..Cardinality(fl)
<1>2. q \in [D -> fl] /\ IsInjective(q)
  BY DEF SetToSeqs, IsInjective
<1>3. q \in Injection(D, fl)
  BY <1>2 DEF Injection
<1>4. IsFiniteSet(D) /\ Cardinality(D) = Cardinality(fl)
  BY <1>1, FS_Interval
<1>5. q \in Surjection(D, fl)
  BY <1>1, <1>3, <1>4, FS_Injection
<1>6. ToSet(q) = fl
  BY <1>2, <1>5 DEF Surjection, ToSet
<1> QED BY <1>2, <1>6, RetryQueueTyped

-----------------------------------------------------------------------------
(* startNext().                                                              *)

\* Posting the start of a child that was not handed out yet.
LEMMA PostStart ==
    ASSUME NEW dg, NEW post \in Seq(Tasks \union {NextEvent}), NEW ch, NEW t \in Tasks,
           Fresh(dg, post, ch), t \notin dg, ch[t] # "Running"
    PROVE  Fresh(dg \union {t}, Append(post, t), ch)
<1>1. Len(post) \in Nat /\ DOMAIN post = 1..Len(post)
      /\ DOMAIN Append(post, t) = 1..(Len(post) + 1)
      /\ Append(post, t)[Len(post) + 1] = t
      /\ \A i \in 1..Len(post) : Append(post, t)[i] = post[i]
  OBVIOUS
<1>2. t # NextEvent
  BY EventAssumption
<1>3. \A i \in 1..Len(post) : post[i] # t
  BY <1>1, <1>2 DEF Fresh
<1>4. \A i \in 1..(Len(post) + 1) : i \in 1..Len(post) \/ i = Len(post) + 1
  BY <1>1
<1> QED BY <1>1, <1>3, <1>4 DEF Fresh

\* ConcurrentTask::startNext() moves at most the first child of the queue.
LEMMA BaseStartNextBooks ==
    ASSUME NEW q \in Seq(Tasks), NEW dg \in SUBSET Tasks, NEW fl,
           NEW post \in Seq(Tasks \union {NextEvent}), NEW ch, NEW at, NEW try,
           Books(q, dg, fl, post, ch, at, try), BaseStartNext(q, dg, post)
    PROVE  /\ Books(m_queue', m_doing', fl, posted', ch, at, try)
           /\ ToSet(m_queue') \union m_doing' = ToSet(q) \union dg
<1>1. CASE Hold(q, dg, post)
  BY <1>1 DEF Hold
<1>2. CASE q # << >> /\ Hold(Tail(q), dg \union {Head(q)}, Append(post, Head(q)))
  <2> DEFINE t == Head(q)
  <2>1. m_queue' = Tail(q) /\ m_doing' = dg \union {t} /\ posted' = Append(post, t)
    BY <1>2 DEF Hold
  <2>2. /\ t \in Tasks /\ ToSet(q) = {t} \union ToSet(Tail(q))
        /\ IsInjective(Tail(q)) /\ t \notin ToSet(Tail(q))
    BY <1>2, TakeFirst DEF Books
  <2>3. t \notin dg /\ t \notin fl /\ ch[t] # "Running" /\ at[t] < try
    BY <2>2 DEF Books
  <2>4. ToSet(Append(post, t)) = ToSet(post) \union {t}
    BY <2>2, PutLast
  <2> HIDE DEF t
  <2>5. Fresh(dg \union {t}, Append(post, t), ch)
    BY <2>2, <2>3, PostStart DEF Books
  <2> QED BY <2>1, <2>2, <2>3, <2>4, <2>5 DEF Books
<1> QED BY <1>1, <1>2 DEF BaseStartNext

\* startNext() of any class keeps the books; it loses no child.
LEMMA StartNextBooks ==
    ASSUME TypeOK, NEW dg \in SUBSET Tasks, NEW dn, NEW fl \in SUBSET Tasks,
           NEW post \in Seq(Tasks \union {NextEvent}), NEW ch, NEW at \in [Tasks -> Nat],
           \A t \in Tasks : at[t] <= m_try,
           Books(m_queue, dg, fl, post, ch, at, m_try), StartNext(dg, dn, fl, post)
    PROVE  /\ Books(m_queue', m_doing', m_failed', posted', ch, at, m_try')
           /\ ToSet(m_queue') \union m_doing' \union m_failed' = Waiting \union dg \union fl
           /\ m_done' = dn /\ m_try' \in Nat /\ m_try <= m_try'
<1>0. m_queue \in Seq(Tasks) /\ m_try \in Nat /\ m_done' = dn
  BY DEF TypeOK, StartNext, MaxTries
<1>1. ASSUME m_failed' = fl, UNCHANGED m_try,
             BaseStartNext(m_queue, dg, post) \/ Hold(m_queue, dg, post)
      PROVE  /\ Books(m_queue', m_doing', m_failed', posted', ch, at, m_try')
             /\ ToSet(m_queue') \union m_doing' = Waiting \union dg
  <2>1. CASE Hold(m_queue, dg, post)
    BY <1>1, <2>1 DEF Hold, Waiting
  <2>2. CASE BaseStartNext(m_queue, dg, post)
    BY <1>0, <1>1, <2>2, BaseStartNextBooks DEF Waiting
  <2> QED BY <1>1, <2>1, <2>2
<1>2. ASSUME m_queue = << >>, dg = {}, m_failed' = {}, m_try' = m_try + 1,
             NEW q \in SetToSeqs(fl), BaseStartNext(q, dg, post)
      PROVE  /\ Books(m_queue', m_doing', m_failed', posted', ch, at, m_try')
             /\ ToSet(m_queue') \union m_doing' = fl
  <2>1. q \in Seq(Tasks) /\ IsInjective(q) /\ ToSet(q) = fl
    BY RetryQueue
  <2>2. \A t \in Tasks : at[t] < m_try + 1
    BY <1>0
  <2>3. Books(q, dg, {}, post, ch, at, m_try')
    BY <1>2, <2>1, <2>2 DEF Books
  <2> QED BY <1>2, <2>1, <2>3, BaseStartNextBooks
<1>3. CASE kind # "netjob"
  BY <1>0, <1>1, <1>3
     DEF StartNext, SequentialStartNext, OptionsStartNext
<1>4. CASE kind = "netjob"
  <2>1. NetJobStartNext(dg, fl, post)
    BY <1>4 DEF StartNext
  <2>2. CASE UNCHANGED m_try /\ m_failed' = fl /\ BaseStartNext(m_queue, dg, post)
    BY <1>0, <1>1, <2>2
  <2>3. CASE /\ m_queue = << >> /\ dg = {} /\ m_try' = m_try + 1 /\ m_failed' = {}
             /\ \E q \in SetToSeqs(fl) : BaseStartNext(q, dg, post)
    <3>1. Waiting = {}
      BY <2>3 DEF Waiting, ToSet
    <3> QED BY <1>0, <1>2, <2>3, <3>1
  <2> QED BY <2>1, <2>2, <2>3 DEF NetJobStartNext
<1> QED BY <1>3, <1>4

-----------------------------------------------------------------------------
(* The steps.                                                                *)

\* The child at the head of the event queue, if it is one, is taken out.
LEMMA TakeEvent ==
    ASSUME IInv, posted # << >>
    PROVE  /\ Tail(posted) \in Seq(Tasks \union {NextEvent})
           /\ Books(m_queue, m_doing, m_failed, Tail(posted), child, attempts, m_try)
           /\ Head(posted) # NextEvent =>
                /\ Head(posted) \in m_doing /\ child[Head(posted)] # "Running"
                /\ Head(posted) \notin ToSet(Tail(posted))
                /\ attempts[Head(posted)] < m_try
<1>1. posted \in Seq(Tasks \union {NextEvent}) /\ m_doing \subseteq Tasks
  BY DEF IInv, TypeOK
<1>2. Tail(posted) \in Seq(Tasks \union {NextEvent})
      /\ ToSet(posted) = {Head(posted)} \union ToSet(Tail(posted))
  BY <1>1, TakeFirst
<1>3. Len(posted) \in Nat /\ Len(posted) > 0 /\ DOMAIN posted = 1..Len(posted)
      /\ Head(posted) = posted[1]
      /\ DOMAIN Tail(posted) = 1..(Len(posted) - 1)
      /\ \A i \in 1..(Len(posted) - 1) : Tail(posted)[i] = posted[i + 1]
  BY <1>1
<1>4. Fresh(m_doing, posted, child)
  BY DEF IInv, Books
<1>5. ASSUME NEW i \in 1..(Len(posted) - 1), Tail(posted)[i] # NextEvent
      PROVE  /\ Tail(posted)[i] \in m_doing /\ child[Tail(posted)[i]] # "Running"
             /\ Tail(posted)[i] # Head(posted)
             /\ \A j \in 1..(Len(posted) - 1) : Tail(posted)[j] = Tail(posted)[i] => j = i
  <2>1. i + 1 \in DOMAIN posted /\ 1 \in DOMAIN posted /\ posted[i + 1] = Tail(posted)[i] /\ i + 1 # 1
    BY <1>3
  <2>2. ASSUME NEW j \in 1..(Len(posted) - 1), Tail(posted)[j] = Tail(posted)[i] PROVE j = i
    <3>1. j + 1 \in DOMAIN posted /\ posted[j + 1] = posted[i + 1]
      BY <1>3, <2>1, <2>2
    <3>2. j + 1 = i + 1
      BY <1>4, <1>5, <2>1, <3>1 DEF Fresh
    <3> QED BY <3>2
  <2>3. \A j \in DOMAIN posted : posted[j] = posted[i + 1] => j = i + 1
    BY <1>4, <1>5, <2>1 DEF Fresh
  <2> QED BY <1>3, <1>4, <1>5, <2>1, <2>2, <2>3 DEF Fresh
<1>6. Fresh(m_doing, Tail(posted), child)
  BY <1>3, <1>5 DEF Fresh
<1>7. Books(m_queue, m_doing, m_failed, Tail(posted), child, attempts, m_try)
  BY <1>2, <1>6 DEF IInv, Books
<1>8. ASSUME Head(posted) # NextEvent
      PROVE  /\ Head(posted) \in m_doing /\ child[Head(posted)] # "Running"
             /\ Head(posted) \notin ToSet(Tail(posted))
             /\ attempts[Head(posted)] < m_try
  <2>1. Head(posted) \in m_doing /\ child[Head(posted)] # "Running"
    BY <1>3, <1>4, <1>8 DEF Fresh
  <2>2. Head(posted) \notin ToSet(Tail(posted))
    BY <1>3, <1>5, <1>8 DEF ToSet
  <2>3. attempts[Head(posted)] < m_try
    BY <1>1, <1>2, <2>1 DEF IInv, Books
  <2> QED BY <2>1, <2>2, <2>3
<1> QED BY <1>2, <1>7, <1>8

\* The call of startNext() at the end of a handler.
LEMMA HandlerKeeps ==
    ASSUME IInv, TypeOK', NEW dg \in SUBSET Tasks, NEW dn \in SUBSET Tasks,
           NEW fl \in SUBSET Tasks, NEW post \in Seq(Tasks \union {NextEvent}),
           Books(m_queue, dg, fl, post, child', attempts, m_try),
           StartNext(dg, dn, fl, post),
           dg \union dn \union fl = m_doing \union m_done \union m_failed,
           UNCHANGED <<m_aborted, added, attempts>>
    PROVE  IInv'
<1>1. /\ attempts \in [Tasks -> Nat] /\ \A t \in Tasks : attempts[t] <= m_try
      /\ m_try \in Nat
  BY DEF IInv, TypeOK, RetryBound, MaxTries
<1>2. /\ Books(m_queue', m_doing', m_failed', posted', child', attempts, m_try')
      /\ ToSet(m_queue') \union m_doing' \union m_failed' = Waiting \union dg \union fl
      /\ m_done' = dn /\ m_try' \in Nat /\ m_try <= m_try'
  BY <1>1, StartNextBooks DEF IInv
<1>3. Waiting' = ToSet(m_queue')
  BY DEF Waiting
<1>4. Waiting' \union m_doing' \union m_done' \union m_failed'
        = Waiting \union m_doing \union m_done \union m_failed
  BY <1>2, <1>3
<1>5. RetryBound'
  BY <1>1, <1>2 DEF RetryBound
<1> QED BY <1>2, <1>4, <1>5 DEF IInv, Known, Complete

\* Every step keeps the books.
LEMMA BooksStep == IInv /\ [Next]_vars => IInv'
<1> SUFFICES ASSUME IInv, [Next]_vars PROVE IInv'
  OBVIOUS
<1>0. TypeOK /\ TypeOK'
  BY TypeStep DEF IInv
<1>1. ASSUME NEW t \in Tasks, AddTask(t) PROVE IInv'
  <2>1. m_queue' = Append(m_queue, t) /\ added' = Append(added, t)
        /\ UNCHANGED <<m_doing, m_done, m_failed, m_aborted, m_try, child, posted, attempts>>
    BY <1>1 DEF AddTask
  <2>2. t \notin ToSet(added)
    BY <1>1 DEF AddTask, Contains, ToSet, TypeOK
  <2>3. m_queue \in Seq(Tasks) /\ added \in Seq(Tasks) /\ m_try \in 1..MaxTries
    BY <1>0 DEF TypeOK
  <2>4. ToSet(added') = ToSet(added) \union {t} /\ ToSet(m_queue') = Waiting \union {t}
        /\ Waiting' = ToSet(m_queue')
    BY <2>1, <2>3, PutLast DEF Waiting
  <2>5. t \notin Waiting /\ t \notin m_doing /\ t \notin m_failed /\ attempts[t] = 0
    BY <2>2 DEF IInv, Known
  <2>6. IsInjective(m_queue')
    BY <2>1, <2>3, <2>5, PutLast DEF IInv, Books, Waiting
  <2>7. attempts[t] < m_try
    BY <2>3, <2>5
  <2>8. Books(m_queue, m_doing, m_failed, posted, child, attempts, m_try)
    BY DEF IInv
  <2>9. Books(m_queue', m_doing, m_failed, posted, child, attempts, m_try)
    BY <2>4, <2>5, <2>6, <2>7, <2>8 DEF Books, Waiting
  <2>10. Known' /\ Complete' /\ RetryBound'
    BY <2>1, <2>4 DEF IInv, Known, Complete, RetryBound
  <2> QED BY <1>0, <2>1, <2>9, <2>10 DEF IInv
<1>2. CASE Start
  <2> DEFINE least == IF Len(m_queue) < Slots THEN Len(m_queue) ELSE Slots
             calls == IF least < 1 THEN 1 ELSE least
             new == [i \in 1..calls |-> NextEvent]
  <2>1. calls \in Nat
    BY <1>0, ConcurrencyAssumption DEF TypeOK, Slots
  <2>2. new \in Seq({NextEvent}) /\ \A i \in DOMAIN new : new[i] = NextEvent
    BY <2>1
  <2>3. posted' = posted \o new
        /\ UNCHANGED <<m_queue, m_doing, m_done, m_failed, m_aborted, m_try, child, added, attempts>>
    BY <1>2 DEF Start
  <2> HIDE DEF new
  <2>4. Len(posted) \in Nat /\ Len(new) \in Nat
        /\ DOMAIN posted = 1..Len(posted) /\ DOMAIN new = 1..Len(new)
        /\ DOMAIN posted' = 1..(Len(posted) + Len(new))
        /\ \A i \in 1..(Len(posted) + Len(new)) :
             posted'[i] = IF i <= Len(posted) THEN posted[i] ELSE new[i - Len(posted)]
    BY <1>0, <2>2, <2>3 DEF TypeOK
  <2>5. \A i \in DOMAIN posted' :
         \/ i \in DOMAIN posted /\ posted'[i] = posted[i]
         \/ posted'[i] = NextEvent
    BY <2>2, <2>4
  <2>6. Fresh(m_doing, posted', child)
    BY <2>5 DEF IInv, Books, Fresh
  <2>7. \A t \in Tasks : t \in ToSet(posted') => t \in ToSet(posted)
    BY <2>5, EventAssumption DEF ToSet
  <2>8. Books(m_queue, m_doing, m_failed, posted', child, attempts, m_try)
    BY <2>6, <2>7 DEF IInv, Books
  <2> QED BY <1>0, <2>3, <2>8 DEF IInv, Known, Complete, RetryBound, Waiting
<1>3. CASE BaseAbort
  <2>1. m_queue' = << >> /\ m_aborted' /\ (\A t \in Tasks : child'[t] \in {child[t], "AbortedByUser"})
        /\ UNCHANGED <<m_doing, m_done, m_failed, m_try, posted, added, attempts>>
    BY <1>3 DEF BaseAbort
  <2>2. ToSet(m_queue') = {} /\ IsInjective(m_queue') /\ Waiting' = {}
    BY <2>1 DEF ToSet, IsInjective, Waiting
  <2>3. Fresh(m_doing, posted, child')
    BY <1>0, <2>1 DEF IInv, Books, Fresh, TypeOK
  <2>4. Books(m_queue', m_doing, m_failed, posted, child', attempts, m_try)
    BY <2>1, <2>2, <2>3 DEF IInv, Books
  <2> QED BY <1>0, <2>1, <2>2, <2>4 DEF IInv, Known, Complete, RetryBound
<1>4. CASE NetJobAbort
  <2>1. m_queue' = << >> /\ m_failed' = m_failed \union Waiting
        /\ (\A t \in Tasks : child'[t] \in {child[t], "AbortedByUser"})
        /\ UNCHANGED <<m_doing, m_done, m_aborted, m_try, posted, added, attempts>>
    BY <1>4 DEF NetJobAbort, Waiting
  <2>2. ToSet(m_queue') = {} /\ IsInjective(m_queue') /\ Waiting' = {}
    BY <2>1 DEF ToSet, IsInjective, Waiting
  <2>3. Fresh(m_doing, posted, child')
    BY <1>0, <2>1 DEF IInv, Books, Fresh, TypeOK
  <2>4. Books(m_queue', m_doing, m_failed', posted, child', attempts, m_try)
    BY <2>1, <2>2, <2>3 DEF IInv, Books, Waiting
  <2> QED BY <1>0, <2>1, <2>2, <2>4 DEF IInv, Known, Complete, RetryBound
<1>5. CASE DeliverStartNext
  <2>1. StartNext(m_doing, m_done, m_failed, Tail(posted)) /\ posted # << >>
        /\ UNCHANGED <<m_aborted, child, added, attempts>>
    BY <1>5 DEF DeliverStartNext
  <2>2. Tail(posted) \in Seq(Tasks \union {NextEvent})
        /\ Books(m_queue, m_doing, m_failed, Tail(posted), child', attempts, m_try)
    BY <2>1, TakeEvent
  <2>3. m_doing \in SUBSET Tasks /\ m_done \in SUBSET Tasks /\ m_failed \in SUBSET Tasks
    BY <1>0 DEF TypeOK
  <2> QED BY <1>0, <2>1, <2>2, <2>3, HandlerKeeps
<1>6. ASSUME NEW t \in Tasks, DeliverChildStart(t) PROVE IInv'
  <2>1. posted # << >> /\ Head(posted) = t /\ posted' = Tail(posted)
        /\ child' = [child EXCEPT ![t] = "Running"]
        /\ UNCHANGED <<m_queue, m_doing, m_done, m_failed, m_aborted, m_try, added>>
    BY <1>6 DEF DeliverChildStart
  <2>2. t # NextEvent /\ child \in [Tasks -> States] /\ attempts \in [Tasks -> Nat] /\ m_try \in Nat
    BY <1>0, EventAssumption DEF TypeOK, MaxTries
  <2>3. /\ Books(m_queue, m_doing, m_failed, posted', child, attempts, m_try)
        /\ t \in m_doing /\ child[t] # "Running" /\ t \notin ToSet(posted') /\ attempts[t] < m_try
    BY <2>1, <2>2, TakeEvent
  <2>4. attempts' = [attempts EXCEPT ![t] = @ + 1]
    BY <1>6, <2>2, <2>3 DEF DeliverChildStart
  <2>5. /\ t \notin Waiting
        /\ \A x \in Tasks \ {t} : attempts'[x] = attempts[x] /\ child'[x] = child[x]
        /\ attempts'[t] <= m_try
    BY <2>1, <2>2, <2>3, <2>4 DEF Books, Waiting
  <2>6. Fresh(m_doing, posted', child')
    BY <2>1, <2>2, <2>3 DEF Books, Fresh, ToSet
  <2>7. Books(m_queue, m_doing, m_failed, posted', child', attempts', m_try)
    BY <2>3, <2>5, <2>6 DEF Books, Waiting
  <2>8. RetryBound'
    BY <2>1, <2>5 DEF IInv, RetryBound
  <2>9. Known' /\ Complete'
    BY <2>1, <2>3, <2>5 DEF IInv, Known, Complete, Waiting
  <2> QED BY <1>0, <2>1, <2>7, <2>8, <2>9 DEF IInv
<1>7. ASSUME NEW t \in Tasks, SubTaskSucceeded(t) \/ SubTaskFailed(t) PROVE IInv'
  <2>1. child[t] = "Running" /\ t \in m_doing
        /\ (\A x \in Tasks \ {t} : child'[x] = child[x]) /\ child'[t] # "Running"
        /\ UNCHANGED <<m_aborted, added, attempts>>
    BY <1>0, <1>7 DEF SubTaskSucceeded, SubTaskFailed, TypeOK
  <2>2. \A i \in DOMAIN posted : posted[i] # NextEvent => posted[i] # t
    BY <2>1 DEF IInv, Books, Fresh
  <2>3. posted \in Seq(Tasks \union {NextEvent}) /\ m_doing \subseteq Tasks
        /\ m_done \subseteq Tasks /\ m_failed \subseteq Tasks
    BY <1>0 DEF TypeOK
  <2>4. Fresh(m_doing \ {t}, posted, child')
    BY <2>1, <2>2, <2>3 DEF IInv, Books, Fresh
  <2>5. Books(m_queue, m_doing \ {t}, m_failed, posted, child', attempts, m_try)
        /\ Books(m_queue, m_doing \ {t}, m_failed \union {t}, posted, child', attempts, m_try)
    BY <2>1, <2>4 DEF IInv, Books
  <2>6. CASE SubTaskSucceeded(t)
    <3>1. StartNext(m_doing \ {t}, m_done \union {t}, m_failed, posted)
      BY <2>6 DEF SubTaskSucceeded
    <3> QED BY <1>0, <2>1, <2>3, <2>5, <3>1, HandlerKeeps
  <2>7. CASE SubTaskFailed(t)
    <3>1. StartNext(m_doing \ {t}, m_done \union {t}, m_failed \union {t}, posted)
      BY <2>7 DEF SubTaskFailed
    <3> QED BY <1>0, <2>1, <2>3, <2>5, <3>1, HandlerKeeps
  <2> QED BY <1>7, <2>6, <2>7
<1>8. ASSUME NEW t \in Tasks, SubTaskVanished(t) PROVE IInv'
  <2>1. UNCHANGED <<m_queue, m_doing, m_done, m_failed, m_aborted, m_try, posted, added, attempts>>
        /\ \A x \in Tasks : child'[x] \in {child[x], "AbortedByUser"}
    BY <1>0, <1>8 DEF SubTaskVanished, TypeOK
  <2>2. Fresh(m_doing, posted, child')
    BY <1>0, <2>1 DEF IInv, Books, Fresh, TypeOK
  <2>3. Books(m_queue, m_doing, m_failed, posted, child', attempts, m_try)
    BY <2>1, <2>2 DEF IInv, Books
  <2> QED BY <1>0, <2>1, <2>3 DEF IInv, Known, Complete, RetryBound, Waiting
<1>9. CASE UNCHANGED vars
  BY <1>0, <1>9 DEF vars, IInv, Known, Complete, RetryBound, Waiting
<1> QED BY <1>1, <1>2, <1>3, <1>4, <1>5, <1>6, <1>7, <1>8, <1>9 DEF Next

-----------------------------------------------------------------------------
(* The theorems.                                                             *)

LEMMA InitBooks == Init => IInv
<1> SUFFICES ASSUME Init PROVE IInv
  OBVIOUS
<1>1. TypeOK
  BY InitTyped
<1>2. /\ ToSet(m_queue) = {} /\ ToSet(posted) = {} /\ ToSet(added) = {} /\ Waiting = {}
      /\ IsInjective(m_queue) /\ DOMAIN posted = {}
  BY DEF Init, ToSet, Waiting, IsInjective
<1>3. Known /\ Complete /\ RetryBound
  BY <1>2 DEF Init, Known, Complete, RetryBound
<1>4. Books(m_queue, m_doing, m_failed, posted, child, attempts, m_try)
  BY <1>2 DEF Init, Books, Fresh
<1> QED BY <1>1, <1>3, <1>4 DEF IInv

LEMMA BooksInvariant == Spec => []IInv
BY InitBooks, BooksStep, PTL DEF Spec

\* A running child is in m_doing, where abort() finds it and its end is awaited.
THEOREM RunningStaysTracked == Spec => []RunningTracked
<1>1. IInv => RunningTracked
  BY DEF IInv, Books, RunningTracked
<1> QED BY <1>1, BooksInvariant, PTL

\* Until ConcurrentTask::abort() every added child waits, is handed out, has
\* reported or has failed; it never waits twice or while it is handed out.
THEOREM NoChildIsLost == Spec => []NoChildLost
<1>1. IInv => NoChildLost
  BY DEF IInv, Books, Complete, NoChildLost, Waiting
<1> QED BY <1>1, BooksInvariant, PTL

\* start() is posted once, for a child that was handed out and does not run:
\* Task::start() of a child never finds it running.
THEOREM StartsStayFresh == Spec => []StartsAreFresh
<1>1. IInv => StartsAreFresh
  BY DEF IInv, Books, Fresh, StartsAreFresh
<1> QED BY <1>1, BooksInvariant, PTL

\* A child is started at most once a round, and a NetJob makes three rounds
\* (m_try, by TypeCorrect), however often it is aborted and restarted.
THEOREM TriesAreBounded == Spec => [](RetryBound /\ m_try <= 3)
<1>1. IInv => RetryBound /\ m_try <= 3
  BY DEF IInv, TypeOK, MaxTries
<1> QED BY <1>1, BooksInvariant, PTL

\* The books of a container stay balanced as a whole: tracking, places, starts
\* and tries, for any children, aborts and restarts.
THEOREM BooksBalance == Spec => []Bookkeeping
<1>1. TypeOK /\ RunningTracked /\ NoChildLost /\ StartsAreFresh /\ RetryBound => Bookkeeping
  BY DEF Bookkeeping
<1> QED BY <1>1, TypeCorrect, RunningStaysTracked, NoChildIsLost, StartsStayFresh, TriesAreBounded, PTL

-----------------------------------------------------------------------------
(* After ConcurrentTask::abort().                                            *)

\* startNext() of any class hands out nothing once m_aborted is set.
LEMMA StartNextWhenAborted ==
    ASSUME m_aborted, NEW dg, NEW dn, NEW fl, NEW post, StartNext(dg, dn, fl, post)
    PROVE  m_doing' = dg
<1>1. ASSUME NEW q, BaseStartNext(q, dg, post)
      PROVE  m_doing' = dg
  BY <1>1 DEF BaseStartNext, Hold
<1> QED BY <1>1 DEF StartNext, SequentialStartNext, OptionsStartNext, NetJobStartNext, Hold

\* No child is handed out after ConcurrentTask::abort(), not even by the calls of
\* startNext() that were posted before it, in whatever starts follow.
THEOREM AbortStopsTheQueue == Spec => AbortStopsQueue
<1>1. ASSUME TypeOK, m_aborted, [Next]_vars
      PROVE  m_aborted' /\ m_doing' \subseteq m_doing
  <2>1. CASE \E t \in Tasks : AddTask(t) \/ DeliverChildStart(t) \/ SubTaskVanished(t)
    BY <1>1, <2>1 DEF AddTask, DeliverChildStart, SubTaskVanished
  <2>2. CASE Start \/ BaseAbort \/ NetJobAbort
    BY <1>1, <2>2 DEF Start, BaseAbort, NetJobAbort
  <2>3. CASE DeliverStartNext
    BY <1>1, <2>3, StartNextWhenAborted DEF DeliverStartNext
  <2>4. ASSUME NEW t \in Tasks, SubTaskSucceeded(t) \/ SubTaskFailed(t)
        PROVE  m_aborted' /\ m_doing' \subseteq m_doing
    <3>1. m_doing' = m_doing \ {t} /\ UNCHANGED m_aborted
      BY <1>1, <2>4, StartNextWhenAborted DEF SubTaskSucceeded, SubTaskFailed
    <3> QED BY <1>1, <3>1
  <2>5. CASE UNCHANGED vars
    BY <1>1, <2>5 DEF vars
  <2> QED BY <1>1, <2>1, <2>2, <2>3, <2>4, <2>5 DEF Next
<1> QED BY <1>1, TypeCorrect, PTL DEF Spec, AbortStopsQueue
-----------------------------------------------------------------------------
(* The pace: how many children are at work, and in which order they come.    *)

\* The calls of startNext() that are posted; each may hand out one child.
Calls(post) == {i \in DOMAIN post : post[i] = NextEvent}
Room(dg, post) == Cardinality(dg) + Cardinality(Calls(post))
Single == kind \in {"sequential", "options"}

\* Each child at work, and each call to come, took the place of a slot, but for
\* what a restart adds; the sequential classes have one place while they run.
Pace ==
    /\ Cardinality(m_doing) <= Slots + 1
    /\ starts = 0 => Room(m_doing, posted) = 0
    /\ starts <= 1 => Room(m_doing, posted) <= Slots
    /\ Single => Cardinality(m_doing) <= 1
    /\ Single /\ ~m_aborted => Room(m_doing, posted) <= IF m_state = "Running" THEN 1 ELSE 0

\* What the books say of the children that reported, in the middle of a call:
\* who failed is known, and an option is at work only while all before it failed.
Outcomes(q, dg, dn, fl, ch) ==
    /\ \A t \in dn : t \in ToSet(q) \union dg \union fl \/ ch[t] = "Succeeded"
    /\ kind # "netjob" => /\ dn \intersect (ToSet(q) \union dg) = {}
                          /\ fl \subseteq dn
                          /\ \A t \in fl : ch[t] = "Failed"
    /\ kind = "options" /\ dg # {} => dn = fl

\* Except by a NetJob, a child that left "Inactive" was tried, and none is twice.
Tried == kind # "netjob" => /\ m_try = 1
                            /\ \A t \in Tasks : child[t] # "Inactive" => attempts[t] # 0

\* Whatever was added before a child that is or was at work has ended as end.
Ordered(end, dg, ch) ==
    \A i, j \in DOMAIN added :
        i < j /\ (added[j] \in dg \/ ch[added[j]] # "Inactive") => ch[added[i]] = end
ClassOrder(dg, ch) == /\ kind = "sequential" => Ordered("Succeeded", dg, ch)
                      /\ kind = "options" => Ordered("Failed", dg, ch)
\* The queue of a sequential class is what was added last.
QueueIsRest ==
    Single /\ ~m_aborted =>
        /\ Len(m_queue) <= Len(added)
        /\ \A k \in DOMAIN m_queue : m_queue[k] = added[Len(added) - Len(m_queue) + k]
InOrder == /\ IsInjective(added)
           /\ QueueIsRest
           /\ ClassOrder(m_doing, child)

PInv == /\ IInv /\ Pace /\ Tried /\ InOrder
        /\ Outcomes(m_queue, m_doing, m_done, m_failed, child)

-----------------------------------------------------------------------------
(* Counting.                                                                 *)

LEMMA CallsFinite ==
    ASSUME NEW post \in Seq(Tasks \union {NextEvent})
    PROVE  IsFiniteSet(Calls(post)) /\ Cardinality(Calls(post)) \in Nat
<1>1. Len(post) \in Nat /\ DOMAIN post = 1..Len(post)
  OBVIOUS
<1>2. IsFiniteSet(1..Len(post)) /\ Calls(post) \subseteq 1..Len(post)
  BY <1>1, FS_Interval DEF Calls
<1> QED BY <1>2, FS_Subset, FS_CardinalityType

\* Taking an event out of the queue.
LEMMA CallsTaken ==
    ASSUME NEW post \in Seq(Tasks \union {NextEvent}), post # << >>
    PROVE  /\ Cardinality(Calls(Tail(post))) <= Cardinality(Calls(post))
           /\ Head(post) = NextEvent =>
                Cardinality(Calls(Tail(post))) + 1 <= Cardinality(Calls(post))
<1> DEFINE S == Calls(Tail(post))
           T == Calls(post)
           f == [i \in S |-> i + 1]
<1>1. Len(post) \in Nat /\ Len(post) > 0 /\ DOMAIN post = 1..Len(post) /\ Head(post) = post[1]
      /\ Tail(post) \in Seq(Tasks \union {NextEvent})
      /\ DOMAIN Tail(post) = 1..(Len(post) - 1)
      /\ \A i \in 1..(Len(post) - 1) : Tail(post)[i] = post[i + 1]
  OBVIOUS
<1>2. IsFiniteSet(S) /\ IsFiniteSet(T) /\ Cardinality(S) \in Nat /\ Cardinality(T) \in Nat
  BY <1>1, CallsFinite
<1>3. S \subseteq Int /\ \A i \in S : i + 1 \in T \ {1}
  BY <1>1 DEF Calls
<1>4. f \in Injection(S, T \ {1})
  BY <1>3 DEF Injection, IsInjective
<1>5. IsFiniteSet(T \ {1})
      /\ Cardinality(T \ {1}) = IF 1 \in T THEN Cardinality(T) - 1 ELSE Cardinality(T)
  BY <1>2, FS_RemoveElement
<1>6. Cardinality(S) <= Cardinality(T \ {1})
  BY <1>4, <1>5, FS_Injection
<1>7. Head(post) = NextEvent => 1 \in T
  BY <1>1 DEF Calls
<1> QED BY <1>2, <1>5, <1>6, <1>7

\* Posting the start of a child.
LEMMA CallsPut ==
    ASSUME NEW post \in Seq(Tasks \union {NextEvent}), NEW t \in Tasks
    PROVE  Calls(Append(post, t)) = Calls(post)
<1>1. Len(post) \in Nat /\ DOMAIN post = 1..Len(post)
      /\ DOMAIN Append(post, t) = 1..(Len(post) + 1)
      /\ Append(post, t)[Len(post) + 1] = t
      /\ \A i \in 1..Len(post) : Append(post, t)[i] = post[i]
  OBVIOUS
<1>2. t # NextEvent
  BY EventAssumption
<1>3. \A i \in 1..(Len(post) + 1) : i \in 1..Len(post) \/ i = Len(post) + 1
  BY <1>1
<1>4. \A i \in 1..Len(post) : i \in 1..(Len(post) + 1)
  BY <1>1
<1> QED BY <1>1, <1>2, <1>3, <1>4 DEF Calls

\* Posting n calls of startNext().
LEMMA CallsStarted ==
    ASSUME NEW post \in Seq(Tasks \union {NextEvent}), NEW n \in Nat,
           NEW new \in Seq(Tasks \union {NextEvent}), Len(new) = n
    PROVE  Cardinality(Calls(post \o new)) <= Cardinality(Calls(post)) + n
<1>1. /\ post \o new \in Seq(Tasks \union {NextEvent})
      /\ Len(post) \in Nat /\ DOMAIN post = 1..Len(post)
      /\ DOMAIN (post \o new) = 1..(Len(post) + n)
      /\ \A i \in 1..Len(post) : (post \o new)[i] = post[i]
  OBVIOUS
<1> DEFINE I == (Len(post) + 1)..(Len(post) + n)
<1>2. IsFiniteSet(I) /\ Cardinality(I) = n
  <2>1. Len(post) + 1 \in Int /\ Len(post) + n \in Int
    BY <1>1
  <2>2. IsFiniteSet(I) /\ Cardinality(I) = IF Len(post) + 1 > Len(post) + n THEN 0 ELSE (Len(post) + n) - (Len(post) + 1) + 1
    BY <2>1, FS_Interval
  <2> QED BY <1>1, <2>2
<1>3. Calls(post \o new) \subseteq Calls(post) \union I
  BY <1>1 DEF Calls
<1>4. /\ IsFiniteSet(Calls(post)) /\ IsFiniteSet(Calls(post \o new))
      /\ Cardinality(Calls(post)) \in Nat /\ Cardinality(Calls(post \o new)) \in Nat
  BY <1>1, CallsFinite
<1>5. IsFiniteSet(Calls(post) \union I)
      /\ Cardinality(Calls(post) \union I) <= Cardinality(Calls(post)) + Cardinality(I)
  <2>1. IsFiniteSet(Calls(post) \union I) /\ IsFiniteSet(Calls(post) \intersect I)
        /\ Cardinality(Calls(post) \union I)
             = Cardinality(Calls(post)) + Cardinality(I) - Cardinality(Calls(post) \intersect I)
    BY <1>2, <1>4, FS_Union, FS_Intersection
  <2>2. Cardinality(Calls(post) \intersect I) \in Nat
    BY <2>1, FS_CardinalityType
  <2> QED BY <1>2, <1>4, <2>1, <2>2
<1>6. Cardinality(Calls(post \o new)) <= Cardinality(Calls(post) \union I)
  BY <1>3, <1>5, FS_Subset
<1>7. Cardinality(Calls(post) \union I) \in Nat
  BY <1>5, FS_CardinalityType
<1> QED BY <1>2, <1>4, <1>5, <1>6, <1>7

\* Children at work are counted.
LEMMA WorkFinite ==
    ASSUME NEW dg \in SUBSET Tasks
    PROVE  /\ IsFiniteSet(dg) /\ Cardinality(dg) \in Nat
           /\ Cardinality(dg) <= 0 => dg = {}
           /\ dg = {} => Cardinality(dg) = 0
           /\ \A t : /\ t \in dg => Cardinality(dg \ {t}) = Cardinality(dg) - 1
                     /\ Cardinality(dg \union {t}) \in Nat
                     /\ Cardinality(dg \union {t}) <= Cardinality(dg) + 1
<1>1. IsFiniteSet(dg) /\ Cardinality(dg) \in Nat
  BY TasksAssumption, FS_Subset, FS_CardinalityType
<1>2. (Cardinality(dg) = 0) <=> (dg = {})
  BY <1>1, FS_EmptySet
<1>3. ASSUME NEW t
      PROVE  /\ t \in dg => Cardinality(dg \ {t}) = Cardinality(dg) - 1
             /\ Cardinality(dg \union {t}) \in Nat
             /\ Cardinality(dg \union {t}) <= Cardinality(dg) + 1
  BY <1>1, FS_AddElement, FS_RemoveElement
<1> QED BY <1>1, <1>2, <1>3

-----------------------------------------------------------------------------
(* startNext() again: what it hands out.                                     *)

\* A child of q is handed out.
HandOut(q, dg, post) ==
    /\ ~m_aborted /\ Cardinality(dg) <= Slots /\ q # << >>
    /\ Hold(Tail(q), dg \union {Head(q)}, Append(post, Head(q)))
    /\ UNCHANGED <<m_state, emitted>>

\* Success of a container of the two classes that wait for the last child.
AllEnded(dg) == ~m_aborted /\ m_queue' = << >> /\ dg = {}

LEMMA BaseCases ==
    ASSUME NEW q \in Seq(Tasks), NEW dg \in SUBSET Tasks, NEW post, BaseStartNext(q, dg, post)
    PROVE  \/ HandOut(q, dg, post)
           \/ Hold(q, dg, post) /\ (m_state = "Running" /\ m_state' = "Succeeded" => q = << >> /\ AllEnded(dg))
<1>1. Cardinality(dg) \in Nat /\ Slots \in Nat
  BY WorkFinite, ConcurrencyAssumption DEF Slots
<1> QED BY <1>1 DEF BaseStartNext, HandOut, Hold, AllEnded

\* All classes but NetJob.
LEMMA PlainCases ==
    ASSUME TypeOK, kind # "netjob", NEW dg \in SUBSET Tasks, NEW dn, NEW fl, NEW post,
           StartNext(dg, dn, fl, post)
    PROVE  /\ m_done' = dn /\ m_failed' = fl /\ m_try' = m_try
           /\ \/ /\ HandOut(m_queue, dg, post)
                 /\ kind = "sequential" => fl = {}
                 /\ kind = "options" => Cardinality(dn) = Cardinality(fl)
              \/ /\ Hold(m_queue, dg, post)
                 /\ m_state = "Running" /\ m_state' = "Succeeded" =>
                      \/ kind = "options" /\ Cardinality(dn) # Cardinality(fl)
                      \/ kind = "concurrent" /\ AllEnded(dg)
                      \/ kind = "sequential" /\ AllEnded(dg) /\ fl = {}
<1>1. m_done' = dn /\ m_failed' = fl /\ m_try' = m_try /\ m_queue \in Seq(Tasks)
  BY DEF StartNext, TypeOK
<1>2. BaseStartNext(m_queue, dg, post) =>
        \/ HandOut(m_queue, dg, post)
        \/ /\ Hold(m_queue, dg, post)
           /\ m_state = "Running" /\ m_state' = "Succeeded" => m_queue = << >> /\ AllEnded(dg)
  BY <1>1, BaseCases
<1>3. CASE kind = "concurrent"
  BY <1>1, <1>2, <1>3 DEF StartNext
<1>4. CASE kind = "sequential"
  BY <1>1, <1>2, <1>4 DEF StartNext, SequentialStartNext, Emit
<1>5. CASE kind = "options"
  BY <1>1, <1>2, <1>5 DEF StartNext, OptionsStartNext, Emit
<1> QED BY <1>3, <1>4, <1>5, KindAssumption DEF TypeOK, AllKinds

\* NetJob: a retry first puts what failed back into the queue.
LEMMA NetJobCases ==
    ASSUME TypeOK, kind = "netjob", NEW dg \in SUBSET Tasks, NEW dn, NEW fl \in SUBSET Tasks, NEW post,
           StartNext(dg, dn, fl, post)
    PROVE  \E q \in Seq(Tasks) :
             \/ HandOut(q, dg, post)
             \/ /\ Hold(q, dg, post)
                /\ m_state = "Running" /\ m_state' = "Succeeded" =>
                     /\ AllEnded(dg) /\ m_failed' = fl /\ m_try' = m_try
                     /\ fl = {} \/ m_try = MaxTries
<1>1. NetJobStartNext(dg, fl, post) /\ m_queue \in Seq(Tasks) /\ m_try \in 1..MaxTries
  BY DEF StartNext, TypeOK
<1>2. CASE /\ ~(m_queue = << >> /\ dg = {} /\ fl # {} /\ m_try < MaxTries)
           /\ UNCHANGED m_try /\ m_failed' = fl /\ BaseStartNext(m_queue, dg, post)
  <2>1. \/ HandOut(m_queue, dg, post)
        \/ /\ Hold(m_queue, dg, post)
           /\ m_state = "Running" /\ m_state' = "Succeeded" => m_queue = << >> /\ AllEnded(dg)
    BY <1>1, <1>2, BaseCases
  <2>2. ~(m_try < MaxTries) => m_try = MaxTries
    BY <1>1 DEF MaxTries
  <2>3. m_queue = << >> /\ AllEnded(dg) => fl = {} \/ m_try = MaxTries
    BY <1>2, <2>2 DEF AllEnded
  <2> QED BY <1>1, <1>2, <2>1, <2>3
<1>3. ASSUME fl # {}, NEW q \in SetToSeqs(fl), BaseStartNext(q, dg, post)
      PROVE  /\ q \in Seq(Tasks)
             /\ \/ HandOut(q, dg, post)
                \/ Hold(q, dg, post) /\ ~(m_state = "Running" /\ m_state' = "Succeeded")
  <2>1. q \in Seq(Tasks) /\ ToSet(q) = fl
    BY RetryQueue
  <2>2. q # << >>
    BY <1>3, <2>1 DEF ToSet
  <2> QED BY <1>3, <2>1, <2>2, BaseCases
<1> QED BY <1>1, <1>2, <1>3 DEF NetJobStartNext

\* Whatever the class: nothing, or one child more.
LEMMA AtMostOne ==
    ASSUME TypeOK, NEW dg \in SUBSET Tasks, NEW dn, NEW fl \in SUBSET Tasks, NEW post,
           StartNext(dg, dn, fl, post)
    PROVE  \/ m_doing' = dg /\ posted' = post
           \/ /\ ~m_aborted /\ Cardinality(dg) <= Slots /\ UNCHANGED m_state
              /\ \E t \in Tasks : m_doing' = dg \union {t} /\ posted' = Append(post, t)
<1>1. \E q \in Seq(Tasks) : HandOut(q, dg, post) \/ Hold(q, dg, post)
  BY PlainCases, NetJobCases DEF TypeOK
<1> QED BY <1>1 DEF HandOut, Hold

-----------------------------------------------------------------------------
(* The pace is kept.                                                         *)

\* The parts of PInv that a call of startNext() in the middle of a handler keeps.
LEMMA HandlerPaces ==
    ASSUME PInv, NEW dg \in SUBSET Tasks, NEW dn, NEW fl \in SUBSET Tasks,
           NEW post \in Seq(Tasks \union {NextEvent}),
           Room(dg, post) + 1 <= Room(m_doing, posted), Cardinality(dg) <= Cardinality(m_doing),
           StartNext(dg, dn, fl, post), UNCHANGED <<kind, m_aborted, starts>>
    PROVE  Pace' /\ (Single /\ (m_doing' # dg) => dg = {})
<1>0. TypeOK /\ Pace /\ m_doing \in SUBSET Tasks /\ posted \in Seq(Tasks \union {NextEvent})
      /\ Slots \in Nat /\ Slots' = Slots /\ Single' = Single /\ (Single => Slots = 1)
      /\ starts \in Nat
  BY ConcurrencyAssumption, BoundAssumption DEF PInv, IInv, TypeOK, Slots, Single
<1>1. /\ Cardinality(dg) \in Nat /\ Cardinality(m_doing) \in Nat
      /\ Cardinality(Calls(post)) \in Nat /\ Cardinality(Calls(posted)) \in Nat
  BY <1>0, WorkFinite, CallsFinite
<1>2. Room(dg, post) \in Nat /\ Room(m_doing, posted) \in Nat /\ Cardinality(dg) <= Room(dg, post)
  BY <1>1 DEF Room
<1>3. CASE m_doing' = dg /\ posted' = post
  <2>1. Room(m_doing', posted') = Room(dg, post)
    BY <1>3
  <2>2. Single /\ ~m_aborted => Room(dg, post) = 0
    BY <1>0, <1>2 DEF Pace
  <2> QED BY <1>0, <1>1, <1>2, <1>3, <2>1, <2>2 DEF Pace
<1>4. ASSUME ~m_aborted, Cardinality(dg) <= Slots, UNCHANGED m_state,
             NEW t \in Tasks, m_doing' = dg \union {t}, posted' = Append(post, t)
      PROVE  Pace' /\ (Single => dg = {})
  <2>1. Cardinality(m_doing') \in Nat /\ Cardinality(m_doing') <= Cardinality(dg) + 1
    BY <1>4, WorkFinite
  <2>2. Calls(posted') = Calls(post)
    BY <1>4, CallsPut
  <2>3. Room(m_doing', posted') <= Room(dg, post) + 1 /\ Room(m_doing', posted') \in Nat
    BY <1>1, <2>1, <2>2 DEF Room
  <2>4. Single => Room(dg, post) = 0 /\ m_state = "Running"
    BY <1>0, <1>2, <1>4 DEF Pace
  <2>5. Single => Cardinality(dg) = 0
    BY <1>1, <1>2, <2>4
  <2>6. Single => dg = {}
    BY <2>5, WorkFinite
  <2>7. starts # 0
    BY <1>0, <1>2 DEF Pace
  <2>8. Cardinality(m_doing') <= Slots + 1
    BY <1>0, <1>1, <1>4, <2>1
  <2>9. Single => Cardinality(m_doing') <= 1 /\ Room(m_doing', posted') <= 1
    BY <2>1, <2>3, <2>4, <2>5
  <2>10. starts <= 1 => Room(m_doing', posted') <= Slots
    BY <1>0, <1>2, <2>3 DEF Pace
  <2> QED BY <1>0, <1>4, <2>4, <2>6, <2>7, <2>8, <2>9, <2>10 DEF Pace
<1>5. \/ m_doing' = dg /\ posted' = post
      \/ /\ ~m_aborted /\ Cardinality(dg) <= Slots /\ UNCHANGED m_state
         /\ \E t \in Tasks : m_doing' = dg \union {t} /\ posted' = Append(post, t)
  <2>1. TypeOK
    BY <1>0
  <2> QED BY <2>1, AtMostOne
<1> QED BY <1>3, <1>4, <1>5

\* Who failed, and who did not, is known after a call of startNext() as before.
LEMMA HandlerOutcomes ==
    ASSUME PInv, NEW dg \in SUBSET Tasks, NEW dn \in SUBSET Tasks, NEW fl \in SUBSET Tasks,
           NEW post \in Seq(Tasks \union {NextEvent}), NEW ch,
           Books(m_queue, dg, fl, post, ch, attempts, m_try), Outcomes(m_queue, dg, dn, fl, ch),
           StartNext(dg, dn, fl, post)
    PROVE  Outcomes(m_queue', m_doing', m_done', m_failed', ch)
<1>1. TypeOK /\ m_queue \in Seq(Tasks) /\ attempts \in [Tasks -> Nat] /\ \A t \in Tasks : attempts[t] <= m_try
  BY DEF PInv, IInv, TypeOK, RetryBound
<1>2. /\ ToSet(m_queue') \union m_doing' \union m_failed' = ToSet(m_queue) \union dg \union fl
      /\ m_done' = dn
  BY <1>1, StartNextBooks DEF Waiting
<1>3. \A t \in m_done' : t \in ToSet(m_queue') \union m_doing' \union m_failed' \/ ch[t] = "Succeeded"
  BY <1>2 DEF Outcomes
<1>4. ASSUME kind # "netjob"
      PROVE  /\ m_done' \intersect (ToSet(m_queue') \union m_doing') = {}
             /\ m_failed' \subseteq m_done'
             /\ \A t \in m_failed' : ch[t] = "Failed"
             /\ kind = "options" /\ m_doing' # {} => m_done' = m_failed'
  <2>1. m_done' = dn /\ m_failed' = fl
    BY <1>1, <1>4, PlainCases
  <2>2. CASE Hold(m_queue, dg, post)
    BY <1>4, <2>1, <2>2 DEF Hold, Outcomes
  <2>3. CASE HandOut(m_queue, dg, post) /\ (kind = "options" => Cardinality(dn) = Cardinality(fl))
    <3>1. ToSet(m_queue') \union m_doing' = ToSet(m_queue) \union dg
      BY <1>1, <2>3, TakeFirst DEF HandOut, Hold
    <3>2. fl \subseteq dn /\ IsFiniteSet(dn)
      BY <1>4, WorkFinite DEF Outcomes
    <3>3. Cardinality(dn) = Cardinality(fl) => dn = fl
      BY <3>2, FS_Subset
    <3> QED BY <1>4, <2>1, <2>3, <3>1, <3>3 DEF Outcomes
  <2> QED BY <1>1, <1>4, <2>2, <2>3, PlainCases
<1> QED BY <1>3, <1>4 DEF Outcomes

\* Where the head of the queue of a sequential class was added.
LEMMA QueueHead ==
    ASSUME TypeOK, InOrder, Single, ~m_aborted, m_queue # << >>,
           NEW k, k = Len(added) - Len(m_queue) + 1
    PROVE  /\ k \in DOMAIN added /\ added[k] = Head(m_queue)
           /\ \A i \in DOMAIN added : i < k => added[i] \notin ToSet(m_queue)
           /\ Len(Tail(m_queue)) <= Len(added)
           /\ \A j \in DOMAIN Tail(m_queue) :
                Tail(m_queue)[j] = added[Len(added) - Len(Tail(m_queue)) + j]
<1>1. /\ m_queue \in Seq(Tasks) /\ added \in Seq(Tasks) /\ IsInjective(added)
      /\ Len(m_queue) <= Len(added)
      /\ \A j \in DOMAIN m_queue : m_queue[j] = added[Len(added) - Len(m_queue) + j]
  BY DEF TypeOK, InOrder, QueueIsRest
<1>2. /\ Len(m_queue) \in Nat /\ Len(m_queue) > 0 /\ Len(added) \in Nat
      /\ DOMAIN m_queue = 1..Len(m_queue) /\ DOMAIN added = 1..Len(added)
      /\ Head(m_queue) = m_queue[1]
      /\ Len(Tail(m_queue)) = Len(m_queue) - 1
      /\ DOMAIN Tail(m_queue) = 1..(Len(m_queue) - 1)
      /\ \A j \in 1..(Len(m_queue) - 1) : Tail(m_queue)[j] = m_queue[j + 1]
  BY <1>1
<1>3. k \in DOMAIN added /\ added[k] = Head(m_queue)
  BY <1>1, <1>2
<1>4. ASSUME NEW i \in DOMAIN added, i < k, NEW j \in DOMAIN m_queue, m_queue[j] = added[i]
      PROVE  FALSE
  <2>1. Len(added) - Len(m_queue) + j \in DOMAIN added /\ i # Len(added) - Len(m_queue) + j
    BY <1>1, <1>2, <1>4
  <2> QED BY <1>1, <1>4, <2>1 DEF IsInjective
<1>5. ASSUME NEW j \in DOMAIN Tail(m_queue)
      PROVE  Tail(m_queue)[j] = added[Len(added) - Len(Tail(m_queue)) + j]
  <2>1. j + 1 \in DOMAIN m_queue /\ Tail(m_queue)[j] = m_queue[j + 1]
        /\ Len(added) - Len(m_queue) + (j + 1) = Len(added) - Len(Tail(m_queue)) + j
    BY <1>2
  <2> QED BY <1>1, <2>1
<1> QED BY <1>1, <1>2, <1>3, <1>4, <1>5 DEF ToSet

\* Children change only while they are at work, and not what the order rests on.
LEMMA ChildrenChange ==
    ASSUME NEW end \in {"Succeeded", "Failed"}, NEW dg \in SUBSET m_doing, NEW ch,
           added \in Seq(Tasks), Ordered(end, m_doing, child),
           \A t \in Tasks : \/ ch[t] = child[t]
                            \/ t \in m_doing /\ child[t] \in {"Inactive", "Running"}
    PROVE  Ordered(end, dg, ch)
<1>1. \A i \in DOMAIN added : added[i] \in Tasks
  OBVIOUS
<1>2. ASSUME NEW i \in DOMAIN added, NEW j \in DOMAIN added, i < j,
             added[j] \in dg \/ ch[added[j]] # "Inactive"
      PROVE  ch[added[i]] = end
  <2>1. added[j] \in m_doing \/ child[added[j]] # "Inactive"
    BY <1>1, <1>2
  <2>2. child[added[i]] = end
    BY <1>2, <2>1 DEF Ordered
  <2> QED BY <1>1, <2>2
<1> QED BY <1>2 DEF Ordered

\* startNext() hands out the next child in order, behind ends of the right kind.
LEMMA HandlerOrder ==
    ASSUME PInv, NEW dg \in SUBSET Tasks, NEW dn \in SUBSET Tasks, NEW fl \in SUBSET Tasks,
           NEW post \in Seq(Tasks \union {NextEvent}), NEW ch,
           Outcomes(m_queue, dg, dn, fl, ch), ClassOrder(dg, ch),
           ~m_aborted => ToSet(added) = ToSet(m_queue) \union dg \union dn \union fl,
           StartNext(dg, dn, fl, post), Single /\ m_doing' # dg => dg = {},
           UNCHANGED <<kind, added, m_aborted>>, child' = ch
    PROVE  InOrder'
<1>1. TypeOK /\ InOrder /\ m_queue \in Seq(Tasks) /\ added \in Seq(Tasks)
  BY DEF PInv, IInv, TypeOK
<1>2. /\ Single' = Single
      /\ QueueIsRest' /\ ClassOrder(m_doing', child') => InOrder'
  BY <1>1 DEF InOrder, Single, ClassOrder, Ordered
<1>3. CASE ~Single
  BY <1>2, <1>3 DEF QueueIsRest, Single, ClassOrder
<1>4. CASE Single /\ Hold(m_queue, dg, post)
  BY <1>1, <1>2, <1>4 DEF InOrder, QueueIsRest, Hold
<1>5. ASSUME Single, HandOut(m_queue, dg, post), kind = "sequential" => fl = {},
             kind = "options" => Cardinality(dn) = Cardinality(fl)
      PROVE  InOrder'
  <2> DEFINE k == Len(added) - Len(m_queue) + 1
             t == Head(m_queue)
             end == IF kind = "sequential" THEN "Succeeded" ELSE "Failed"
  <2>1. m_queue # << >> /\ ~m_aborted /\ m_queue' = Tail(m_queue) /\ m_doing' = dg \union {t}
    BY <1>5 DEF HandOut, Hold
  <2>2. /\ k \in DOMAIN added /\ added[k] = t
        /\ \A i \in DOMAIN added : i < k => added[i] \notin ToSet(m_queue)
    BY <1>1, <1>5, <2>1, QueueHead
  <2>3. QueueIsRest'
    BY <1>1, <1>5, <2>1, QueueHead DEF QueueIsRest
  <2>4. dg = {} \/ m_doing' = dg
    BY <1>5
  <2>5. Outcomes(m_queue, dg, dn, fl, ch) /\ kind # "netjob"
    BY <1>5 DEF Single
  <2>6. ASSUME NEW i \in DOMAIN added, i < k, dg = {} PROVE ch[added[i]] = end
    <3>1. added[i] \in ToSet(added) /\ added[i] \notin ToSet(m_queue)
      BY <2>2, <2>6 DEF ToSet
    <3>2. added[i] \in dn
      BY <2>1, <2>5, <2>6, <3>1 DEF Outcomes
    <3>3. CASE kind = "sequential"
      BY <1>5, <2>5, <2>6, <3>1, <3>2, <3>3 DEF Outcomes
    <3>4. CASE kind = "options"
      <4>1. fl \subseteq dn /\ IsFiniteSet(dn)
        BY <2>5, WorkFinite DEF Outcomes
      <4>2. dn = fl
        BY <1>5, <3>4, <4>1, FS_Subset
      <4> QED BY <2>5, <3>2, <3>4, <4>2 DEF Outcomes
    <3> QED BY <1>5, <3>3, <3>4 DEF Single
  <2>7. Ordered(end, dg, ch)
    BY <1>5 DEF ClassOrder, Single
  <2> HIDE DEF k
  <2>8. Ordered(end, m_doing', ch)
    <3>1. CASE m_doing' = dg
      BY <2>7, <3>1
    <3>2. CASE dg = {}
      <4>1. ASSUME NEW i \in DOMAIN added, NEW j \in DOMAIN added, i < j,
                   added[j] \in m_doing' \/ ch[added[j]] # "Inactive"
            PROVE  ch[added[i]] = end
        <5>1. CASE added[j] = t
          <6>1. j = k
            BY <1>1, <2>2, <5>1 DEF InOrder, IsInjective
          <6> QED BY <2>6, <3>2, <4>1, <6>1
        <5>2. CASE added[j] # t
          BY <2>1, <2>7, <3>2, <4>1, <5>2 DEF Ordered
        <5> QED BY <5>1, <5>2
      <4> QED BY <4>1 DEF Ordered
    <3> QED BY <2>4, <3>1, <3>2
  <2>9. ClassOrder(m_doing', child')
    BY <1>5, <2>8 DEF ClassOrder, Single
  <2> QED BY <1>2, <2>3, <2>9
<1>6. CASE Single /\ ~Hold(m_queue, dg, post)
  <2>1. kind # "netjob"
    BY <1>6 DEF Single
  <2> QED BY <1>1, <1>5, <1>6, <2>1, PlainCases
<1> QED BY <1>3, <1>4, <1>6

\* A handler that ends in startNext(): what it did before, and the call.
LEMMA HandlerKeepsPace ==
    ASSUME PInv, IInv', NEW dg \in SUBSET m_doing, NEW dn \in SUBSET Tasks, NEW fl \in SUBSET Tasks,
           NEW post \in Seq(Tasks \union {NextEvent}),
           Books(m_queue, dg, fl, post, child', attempts, m_try),
           Outcomes(m_queue, dg, dn, fl, child'),
           Room(dg, post) + 1 <= Room(m_doing, posted),
           dg \union dn \union fl = m_doing \union m_done \union m_failed,
           \A t \in Tasks : child'[t] = child[t] \/ (t \in m_doing /\ child[t] = "Running"),
           StartNext(dg, dn, fl, post), UNCHANGED <<kind, m_aborted, added, attempts, starts>>
    PROVE  PInv'
<1>1. TypeOK /\ m_doing \in SUBSET Tasks /\ dg \in SUBSET Tasks /\ added \in Seq(Tasks)
  BY DEF PInv, IInv, TypeOK
<1>2. Cardinality(dg) <= Cardinality(m_doing)
  BY <1>1, WorkFinite, FS_Subset
<1>3. Pace' /\ (Single /\ m_doing' # dg => dg = {})
  BY <1>1, <1>2, HandlerPaces
<1>4. Outcomes(m_queue', m_doing', m_done', m_failed', child')
  BY <1>1, HandlerOutcomes
<1>5. Outcomes(m_queue, m_doing, m_done, m_failed, child)'
  BY <1>4 DEF Outcomes
<1>6. ClassOrder(dg, child')
  <2>1. ClassOrder(m_doing, child)
    BY DEF PInv, InOrder
  <2>2. \A t \in Tasks : child'[t] = child[t] \/ (t \in m_doing /\ child[t] \in {"Inactive", "Running"})
    OBVIOUS
  <2> QED BY <1>1, <2>1, <2>2, ChildrenChange DEF ClassOrder
<1>7. ~m_aborted => ToSet(added) = ToSet(m_queue) \union dg \union dn \union fl
  BY DEF PInv, IInv, Complete, Waiting
<1>8. InOrder'
  BY <1>1, <1>3, <1>6, <1>7, HandlerOrder
<1>9. Tried'
  <2>1. kind # "netjob" => m_try' = m_try
    BY <1>1, PlainCases
  <2>2. \A t \in Tasks : child'[t] # "Inactive" => child[t] # "Inactive"
    OBVIOUS
  <2> QED BY <2>1, <2>2 DEF PInv, Tried
<1> QED BY <1>3, <1>5, <1>8, <1>9 DEF PInv

\* A step that hands nothing out, takes nothing from the queue, and moves children only
\* while they are at work.
OtherStep ==
    /\ Cardinality(Calls(posted')) <= Cardinality(Calls(posted))
    /\ posted' \in Seq(Tasks \union {NextEvent})
    /\ m_state' = m_state \/ m_aborted' \/ kind = "netjob"
    /\ \/ m_queue' = m_queue /\ m_failed' = m_failed
       \/ m_queue' = << >> /\ m_failed' = m_failed /\ m_aborted' /\ kind # "netjob"
       \/ m_queue' = << >> /\ m_failed' = m_failed \union Waiting /\ kind = "netjob"
    /\ m_aborted => m_aborted'
    /\ \A t \in Tasks : \/ child'[t] = child[t]
                         \/ /\ t \in m_doing
                            /\ kind # "netjob" => child[t] \in {"Inactive", "Running"}
    /\ \A t \in Tasks : kind # "netjob" /\ child'[t] # "Inactive" => attempts'[t] # 0
    /\ UNCHANGED <<kind, m_doing, m_done, m_try, added, starts>>
LEMMA OtherStepKeepsPace ==
    ASSUME PInv, IInv', OtherStep
    PROVE  PInv'
<1> USE DEF OtherStep
<1>1. /\ TypeOK /\ m_doing \in SUBSET Tasks /\ added \in Seq(Tasks)
      /\ posted \in Seq(Tasks \union {NextEvent}) /\ m_done \subseteq Tasks /\ m_failed \subseteq Tasks
  BY DEF PInv, IInv, TypeOK
<1>2. Pace'
  <2>1. /\ Cardinality(m_doing) \in Nat /\ Cardinality(Calls(posted)) \in Nat
        /\ Cardinality(Calls(posted')) \in Nat
    BY <1>1, WorkFinite, CallsFinite
  <2>2. Room(m_doing', posted') <= Room(m_doing, posted) /\ Room(m_doing', posted') \in Nat
        /\ Room(m_doing, posted) \in Nat
    BY <2>1 DEF Room
  <2>3. Slots' = Slots /\ Single' = Single /\ Slots \in Nat
    BY ConcurrencyAssumption DEF Slots, Single
  <2> HIDE DEF Room
  <2> QED BY <2>1, <2>2, <2>3 DEF PInv, Pace, Single
<1>3. Tried'
  BY DEF PInv, Tried
<1>4. InOrder'
  <2>1. Single' = Single /\ IsInjective(added')
    BY DEF Single, PInv, InOrder
  <2>2. QueueIsRest'
    BY <2>1 DEF PInv, InOrder, QueueIsRest, Single
  <2>3. kind # "netjob" => ClassOrder(m_doing, child')
    BY <1>1, ChildrenChange DEF PInv, InOrder, ClassOrder
  <2>4. ClassOrder(m_doing, child)'
    BY <2>3 DEF ClassOrder, Ordered
  <2> QED BY <2>1, <2>2, <2>4 DEF InOrder
<1>5. Outcomes(m_queue, m_doing, m_done, m_failed, child)'
  <2>1. Outcomes(m_queue, m_doing, m_done, m_failed, child) /\ m_failed \intersect m_doing = {}
    BY DEF PInv, IInv, Books
  <2>2. ToSet(m_queue') \subseteq Waiting
    BY DEF ToSet, Waiting
  <2>3. \A t \in m_done : t \in ToSet(m_queue') \union m_doing \union m_failed' \/ child'[t] = "Succeeded"
    <3> SUFFICES ASSUME NEW t \in m_done, t \notin ToSet(m_queue'), t \notin m_doing, t \notin m_failed'
                 PROVE  child'[t] = "Succeeded"
      OBVIOUS
    <3>1. child'[t] = child[t] /\ t \notin m_failed
      BY <1>1
    <3>2. t \notin ToSet(m_queue)
      BY <2>1 DEF Waiting, Outcomes
    <3> QED BY <2>1, <3>1, <3>2 DEF Outcomes
  <2>4. ASSUME kind # "netjob"
        PROVE  /\ m_done \intersect (ToSet(m_queue') \union m_doing) = {}
               /\ m_failed' \subseteq m_done
               /\ \A t \in m_failed' : child'[t] = "Failed"
               /\ kind = "options" /\ m_doing # {} => m_done = m_failed'
    BY <1>1, <2>1, <2>2, <2>4 DEF Outcomes, Waiting
  <2> QED BY <2>3, <2>4 DEF Outcomes
<1> QED BY <1>2, <1>3, <1>4, <1>5 DEF PInv

LEMMA PaceStep == PInv /\ [Next]_vars => PInv'
<1> SUFFICES ASSUME PInv, [Next]_vars PROVE PInv'
  OBVIOUS
<1>0. /\ IInv /\ IInv' /\ TypeOK /\ kind' = kind
      /\ m_doing \in SUBSET Tasks /\ m_done \in SUBSET Tasks /\ m_failed \in SUBSET Tasks
      /\ posted \in Seq(Tasks \union {NextEvent}) /\ posted' \in Seq(Tasks \union {NextEvent})
      /\ m_queue \in Seq(Tasks) /\ added \in Seq(Tasks)
      /\ Cardinality(Calls(posted)) \in Nat
      /\ child \in [Tasks -> States] /\ attempts \in [Tasks -> Nat] /\ starts \in Nat
  <2>1. IInv /\ IInv' /\ kind' = kind
    BY BooksStep DEF PInv, Next, vars
  <2>2. TypeOK /\ TypeOK'
    BY <2>1 DEF IInv
  <2> QED BY <2>1, <2>2, CallsFinite, BoundAssumption DEF TypeOK
<1>1. \A t \in Tasks : kind # "netjob" /\ child[t] # "Inactive" => attempts[t] # 0
  BY DEF PInv, Tried
<1>2. ASSUME NEW t \in Tasks, AddTask(t) PROVE PInv'
  <2>1. m_queue' = Append(m_queue, t) /\ added' = Append(added, t)
        /\ UNCHANGED <<m_state, m_doing, m_done, m_failed, m_aborted, m_try, child, posted, attempts, starts>>
    BY <1>2 DEF AddTask
  <2>2. t \notin ToSet(added)
    BY <1>0, <1>2 DEF AddTask, Contains, ToSet
  <2>3. t \notin m_doing /\ t \notin m_done /\ attempts[t] = 0
    BY <1>0, <2>2 DEF IInv, Known
  <2>4. /\ Len(added) \in Nat /\ DOMAIN added = 1..Len(added)
        /\ DOMAIN added' = 1..(Len(added) + 1) /\ Len(added') = Len(added) + 1
        /\ added'[Len(added) + 1] = t /\ \A i \in 1..Len(added) : added'[i] = added[i]
    BY <1>0, <2>1
  <2>5. /\ Len(m_queue) \in Nat /\ DOMAIN m_queue = 1..Len(m_queue)
        /\ DOMAIN m_queue' = 1..(Len(m_queue) + 1) /\ Len(m_queue') = Len(m_queue) + 1
        /\ m_queue'[Len(m_queue) + 1] = t /\ \A i \in 1..Len(m_queue) : m_queue'[i] = m_queue[i]
    BY <1>0, <2>1
  <2>6. IsInjective(added') /\ ToSet(m_queue') = ToSet(m_queue) \union {t}
    BY <1>0, <2>1, <2>2, PutLast DEF PInv, InOrder
  <2>7. QueueIsRest'
    <3> SUFFICES ASSUME Single, ~m_aborted
                 PROVE  /\ Len(m_queue') <= Len(added')
                        /\ \A k \in DOMAIN m_queue' :
                             m_queue'[k] = added'[Len(added') - Len(m_queue') + k]
      BY <1>0, <2>1 DEF QueueIsRest, Single
    <3>1. /\ Len(m_queue) <= Len(added)
          /\ \A k \in 1..Len(m_queue) : m_queue[k] = added[Len(added) - Len(m_queue) + k]
      BY <2>5 DEF PInv, InOrder, QueueIsRest
    <3>2. ASSUME NEW k \in 1..Len(m_queue)
          PROVE  m_queue'[k] = added'[Len(added') - Len(m_queue') + k]
      <4>1. Len(added) - Len(m_queue) + k \in 1..Len(added)
            /\ Len(added') - Len(m_queue') + k = Len(added) - Len(m_queue) + k
        BY <2>4, <2>5, <3>1
      <4> QED BY <2>4, <2>5, <3>1, <4>1
    <3>3. Len(added') - Len(m_queue') + (Len(m_queue) + 1) = Len(added) + 1
      BY <2>4, <2>5
    <3>4. \A k \in DOMAIN m_queue' : k \in 1..Len(m_queue) \/ k = Len(m_queue) + 1
      BY <2>5
    <3> QED BY <2>4, <2>5, <3>1, <3>2, <3>3, <3>4
  <2>8. ASSUME NEW end, kind # "netjob", Ordered(end, m_doing, child) PROVE Ordered(end, m_doing, child)'
    <3>1. child[t] = "Inactive"
      BY <1>1, <2>3, <2>8
    <3>2. ASSUME NEW i \in DOMAIN added', NEW j \in DOMAIN added', i < j,
                 added'[j] \in m_doing \/ child[added'[j]] # "Inactive"
          PROVE  child[added'[i]] = end
      <4>1. j # Len(added) + 1
        BY <2>3, <2>4, <3>1, <3>2
      <4>2. i \in DOMAIN added /\ j \in DOMAIN added
        BY <2>4, <3>2, <4>1
      <4> QED BY <2>4, <2>8, <3>2, <4>2 DEF Ordered
    <3> QED BY <2>1, <3>2 DEF Ordered
  <2>9. InOrder'
    BY <1>0, <2>6, <2>7, <2>8 DEF PInv, InOrder, ClassOrder
  <2>10. Outcomes(m_queue, m_doing, m_done, m_failed, child)'
    BY <1>0, <2>1, <2>3, <2>6 DEF PInv, Outcomes
  <2>11. Pace' /\ Tried'
    BY <1>0, <2>1 DEF PInv, Pace, Tried, Slots, Single, Room
  <2> QED BY <1>0, <2>9, <2>10, <2>11 DEF PInv
<1>3. CASE Start
  <2> DEFINE least == IF Len(m_queue) < Slots THEN Len(m_queue) ELSE Slots
             n == IF least < 1 THEN 1 ELSE least
             new == [i \in 1..n |-> NextEvent]
  <2>1. /\ m_state # "Running" /\ m_state' = "Running" /\ posted' = posted \o new /\ starts' = starts + 1
        /\ UNCHANGED <<m_queue, m_doing, m_done, m_failed, m_aborted, m_try, child, added, attempts>>
    BY <1>3 DEF Start
  <2>2. n \in Nat /\ n <= Slots /\ Slots \in Nat /\ (Single => Slots = 1) /\ Slots' = Slots /\ Single' = Single
    BY <1>0, ConcurrencyAssumption DEF Slots, Single
  <2>3. new \in Seq(Tasks \union {NextEvent}) /\ Len(new) = n
    BY <2>2
  <2> HIDE DEF new, n
  <2>4. Cardinality(Calls(posted')) <= Cardinality(Calls(posted)) + n /\ Cardinality(Calls(posted')) \in Nat
    BY <1>0, <2>1, <2>2, <2>3, CallsStarted, CallsFinite
  <2>5. Cardinality(m_doing) \in Nat
    BY <1>0, WorkFinite
  <2>6. Room(m_doing', posted') <= Room(m_doing, posted) + n /\ Room(m_doing, posted) \in Nat
        /\ Room(m_doing', posted') \in Nat
    BY <1>0, <2>1, <2>2, <2>4, <2>5 DEF Room
  <2> HIDE DEF Room
  <2>7. Pace'
    BY <1>0, <2>1, <2>2, <2>5, <2>6 DEF PInv, Pace
  <2> QED BY <1>0, <2>1, <2>2, <2>7
       DEF PInv, Tried, InOrder, QueueIsRest, ClassOrder, Ordered, Outcomes
<1>4. CASE BaseAbort
  <2>1. /\ m_queue' = << >> /\ m_aborted' /\ kind # "netjob"
        /\ \A t \in Tasks : child'[t] = child[t] \/ (t \in m_doing /\ child[t] = "Running")
        /\ UNCHANGED <<m_doing, m_done, m_failed, m_try, posted, added, attempts, starts>>
    BY <1>4 DEF BaseAbort
  <2>2. \A t \in Tasks : kind # "netjob" /\ child'[t] # "Inactive" => attempts'[t] # 0
    BY <1>1, <2>1
  <2>3. OtherStep
    BY <1>0, <2>1, <2>2 DEF OtherStep
  <2> QED BY <1>0, <2>3, OtherStepKeepsPace
<1>5. CASE NetJobAbort
  <2>1. /\ m_queue' = << >> /\ kind = "netjob" /\ m_failed' = m_failed \union Waiting
        /\ \A t \in Tasks : child'[t] = child[t] \/ t \in m_doing
        /\ UNCHANGED <<m_doing, m_done, m_aborted, m_try, posted, added, attempts, starts>>
    BY <1>5 DEF NetJobAbort, Waiting
  <2>2. OtherStep
    BY <1>0, <2>1 DEF OtherStep
  <2> QED BY <1>0, <2>2, OtherStepKeepsPace
<1>6. CASE DeliverStartNext
  <2>1. /\ posted # << >> /\ Head(posted) = NextEvent
        /\ StartNext(m_doing, m_done, m_failed, Tail(posted))
        /\ UNCHANGED <<m_aborted, child, added, attempts, starts>>
    BY <1>6 DEF DeliverStartNext
  <2>2. Tail(posted) \in Seq(Tasks \union {NextEvent})
        /\ Books(m_queue, m_doing, m_failed, Tail(posted), child', attempts, m_try)
    BY <1>0, <2>1, TakeEvent
  <2>3. Outcomes(m_queue, m_doing, m_done, m_failed, child')
    BY <2>1 DEF PInv
  <2>4. Cardinality(Calls(Tail(posted))) + 1 <= Cardinality(Calls(posted))
    BY <1>0, <2>1, CallsTaken
  <2>5. Room(m_doing, Tail(posted)) + 1 <= Room(m_doing, posted)
    <3>1. Cardinality(m_doing) \in Nat /\ Cardinality(Calls(Tail(posted))) \in Nat
      BY <1>0, <2>2, WorkFinite, CallsFinite
    <3> QED BY <1>0, <2>4, <3>1 DEF Room
  <2> QED BY <1>0, <2>1, <2>2, <2>3, <2>5, HandlerKeepsPace
<1>7. ASSUME NEW t \in Tasks, DeliverChildStart(t) PROVE PInv'
  <2>1. /\ posted # << >> /\ Head(posted) = t /\ posted' = Tail(posted)
        /\ child' = [child EXCEPT ![t] = "Running"]
        /\ attempts' = [attempts EXCEPT ![t] = IF child[t] = "Running" THEN @ ELSE @ + 1]
        /\ UNCHANGED <<m_state, m_queue, m_doing, m_done, m_failed, m_aborted, m_try, added, starts>>
    BY <1>7 DEF DeliverChildStart
  <2>2. t # NextEvent /\ m_try \in Nat
    BY <1>0, EventAssumption DEF TypeOK, MaxTries
  <2>3. t \in m_doing /\ child[t] # "Running" /\ attempts[t] < m_try
    BY <1>0, <2>1, <2>2, TakeEvent
  <2>4. kind # "netjob" => child[t] = "Inactive"
    <3>1. kind # "netjob" => m_try = 1
      BY DEF PInv, Tried
    <3> QED BY <1>0, <1>1, <2>3, <3>1
  <2>5. Cardinality(Calls(posted')) <= Cardinality(Calls(posted))
    BY <1>0, <2>1, CallsTaken
  <2>6. \A x \in Tasks : \/ child'[x] = child[x]
                         \/ /\ x \in m_doing
                            /\ kind # "netjob" => child[x] \in {"Inactive", "Running"}
    BY <1>0, <2>1, <2>3, <2>4
  <2>7. \A x \in Tasks : kind # "netjob" /\ child'[x] # "Inactive" => attempts'[x] # 0
    BY <1>0, <1>1, <2>1, <2>3
  <2>8. OtherStep
    BY <1>0, <2>1, <2>5, <2>6, <2>7 DEF OtherStep
  <2> QED BY <1>0, <2>8, OtherStepKeepsPace
<1>8. ASSUME NEW t \in Tasks, SubTaskSucceeded(t) \/ SubTaskFailed(t) PROVE PInv'
  <2> DEFINE dg == m_doing \ {t}
             dn == m_done \union {t}
  <2>1. /\ child[t] = "Running" /\ t \in m_doing
        /\ (\A x \in Tasks \ {t} : child'[x] = child[x])
        /\ UNCHANGED <<m_aborted, added, attempts, starts>>
    BY <1>0, <1>8 DEF SubTaskSucceeded, SubTaskFailed
  <2>2. Room(dg, posted) + 1 <= Room(m_doing, posted)
    <3>1. Cardinality(m_doing \ {t}) = Cardinality(m_doing) - 1 /\ Cardinality(m_doing) \in Nat
      BY <1>0, <2>1, WorkFinite
    <3> QED BY <1>0, <3>1 DEF Room
  <2>3. kind = "options" => dg = {}
    <3>1. kind = "options" => Cardinality(m_doing) <= 1
      BY DEF PInv, Pace, Single
    <3>2. Cardinality(dg) = Cardinality(m_doing) - 1 /\ Cardinality(m_doing) \in Nat
      BY <1>0, <2>1, WorkFinite
    <3>3. dg \in SUBSET Tasks
      BY <1>0
    <3>4. Cardinality(dg) <= 0 => dg = {}
      BY <3>3, WorkFinite
    <3> QED BY <3>1, <3>2, <3>4
  <2>4. /\ Outcomes(m_queue, m_doing, m_done, m_failed, child)
        /\ m_failed \intersect (ToSet(m_queue) \union m_doing) = {} /\ ToSet(m_queue) \intersect m_doing = {}
        /\ Fresh(m_doing, posted, child)
    BY <1>0 DEF PInv, IInv, Books
  <2>5. \A i \in DOMAIN posted : posted[i] # NextEvent => posted[i] # t
    BY <2>1, <2>4 DEF Fresh
  <2>6. child'[t] # "Running" => Fresh(dg, posted, child')
    BY <1>0, <2>1, <2>4, <2>5 DEF Fresh
  <2>7. \A x \in Tasks : child'[x] = child[x] \/ (x \in m_doing /\ child[x] = "Running")
    BY <2>1
  <2>8. CASE SubTaskSucceeded(t)
    <3>1. StartNext(dg, dn, m_failed, posted) /\ child'[t] = "Succeeded"
      BY <1>0, <2>8 DEF SubTaskSucceeded
    <3>2. Books(m_queue, dg, m_failed, posted, child', attempts, m_try)
      BY <1>0, <2>1, <2>6, <3>1 DEF IInv, Books
    <3>3. Outcomes(m_queue, dg, dn, m_failed, child')
      BY <1>0, <2>1, <2>3, <2>4, <3>1 DEF Outcomes
    <3>4. dg \union dn \union m_failed = m_doing \union m_done \union m_failed
      BY <2>1
    <3> QED BY <1>0, <2>1, <2>2, <2>7, <3>1, <3>2, <3>3, <3>4, HandlerKeepsPace
  <2>9. CASE SubTaskFailed(t)
    <3> DEFINE fl == m_failed \union {t}
    <3>1. StartNext(dg, dn, fl, posted) /\ child'[t] = "Failed"
      BY <1>0, <2>9 DEF SubTaskFailed
    <3>2. Books(m_queue, dg, fl, posted, child', attempts, m_try)
      BY <1>0, <2>1, <2>4, <2>6, <3>1 DEF IInv, Books
    <3>3. Outcomes(m_queue, dg, dn, fl, child')
      BY <1>0, <2>1, <2>3, <2>4, <3>1 DEF Outcomes
    <3>4. dg \union dn \union fl = m_doing \union m_done \union m_failed
      BY <2>1
    <3> QED BY <1>0, <2>1, <2>2, <2>7, <3>1, <3>2, <3>3, <3>4, HandlerKeepsPace
  <2> QED BY <1>8, <2>8, <2>9
<1>9. ASSUME NEW t \in Tasks, SubTaskVanished(t) PROVE PInv'
  <2>1. /\ child[t] = "Running" /\ (\A x \in Tasks \ {t} : child'[x] = child[x])
        /\ UNCHANGED <<m_state, m_queue, m_doing, m_done, m_failed, m_aborted, m_try, posted, added, attempts, starts>>
    BY <1>0, <1>9 DEF SubTaskVanished
  <2>2. t \in m_doing
    BY <1>0, <2>1 DEF IInv, Books
  <2>3. \A x \in Tasks : \/ child'[x] = child[x]
                         \/ /\ x \in m_doing
                            /\ kind # "netjob" => child[x] \in {"Inactive", "Running"}
    BY <2>1, <2>2
  <2>4. \A x \in Tasks : kind # "netjob" /\ child'[x] # "Inactive" => attempts'[x] # 0
    BY <1>1, <2>1
  <2>5. OtherStep
    BY <1>0, <2>1, <2>3, <2>4 DEF OtherStep
  <2> QED BY <1>0, <2>5, OtherStepKeepsPace
<1>10. CASE UNCHANGED vars
  BY <1>0, <1>10 DEF vars, PInv, Pace, Room, Slots, Single, Tried, InOrder, QueueIsRest,
                     ClassOrder, Ordered, Outcomes
<1> QED BY <1>2, <1>3, <1>4, <1>5, <1>6, <1>7, <1>8, <1>9, <1>10 DEF Next

LEMMA InitPaced == Init => PInv
<1> SUFFICES ASSUME Init PROVE PInv
  OBVIOUS
<1>1. IInv
  BY InitBooks
<1>2. Cardinality(m_doing) = 0 /\ Calls(posted) = {} /\ Cardinality({}) = 0
  BY FS_EmptySet DEF Init, Calls
<1>3. Room(m_doing, posted) = 0 /\ Slots \in Nat
  BY <1>2, ConcurrencyAssumption DEF Room, Slots
<1>4. Pace
  BY <1>2, <1>3 DEF Pace, Init
<1>5. Tried /\ InOrder /\ Outcomes(m_queue, m_doing, m_done, m_failed, child)
  BY DEF Init, Tried, InOrder, QueueIsRest, ClassOrder, Ordered, Outcomes, IsInjective
<1> QED BY <1>1, <1>4, <1>5 DEF PInv

LEMMA PaceInvariant == Spec => []PInv
BY InitPaced, PaceStep, PTL DEF Spec

\* For any number of children and slots: the children at work stay within the slots during
\* the first run and exceed them by one at most after a restart; a SequentialTask starts
\* a child only behind successes, a MultipleOptionsTask only behind failures.
THEOREM ChildrenStayPaced == Spec => []ChildrenPaced
<1>1. ASSUME PInv PROVE ChildrenPaced
  <2>1. Slots \in Nat /\ starts \in Nat /\ m_doing \in SUBSET Tasks /\ posted \in Seq(Tasks \union {NextEvent})
    BY <1>1, ConcurrencyAssumption, BoundAssumption DEF Slots, PInv, IInv, TypeOK
  <2>2. Cardinality(m_doing) \in Nat /\ Cardinality(Calls(posted)) \in Nat
    BY <2>1, WorkFinite, CallsFinite
  <2>3. ConcurrencyBound
    BY <1>1, <2>1, <2>2 DEF PInv, Pace, Room, ConcurrencyBound
  <2>4. SequentialOrder /\ OptionsOrder
    BY <1>1 DEF PInv, InOrder, ClassOrder, Ordered, SequentialOrder, OptionsOrder
  <2> QED BY <2>3, <2>4 DEF ChildrenPaced
<1> QED BY <1>1, PaceInvariant, PTL

\* A success in the middle of a handler is that of children that ended as they should.
LEMMA HandlerSucceeds ==
    ASSUME PInv, PInv', NEW dg \in SUBSET Tasks, NEW dn \in SUBSET Tasks, NEW fl \in SUBSET Tasks,
           NEW post, Outcomes(m_queue, dg, dn, fl, child'), StartNext(dg, dn, fl, post),
           UNCHANGED <<kind, m_aborted>>, m_state = "Running", m_state' = "Succeeded"
    PROVE  SuccessMeans' /\ m_doing' = {}
<1>1. TypeOK /\ kind \in AllKinds
  BY KindAssumption DEF PInv, IInv, TypeOK
<1>2. /\ ~m_aborted' => ToSet(added') = Waiting' \union m_doing' \union m_done' \union m_failed'
      /\ m_done' \subseteq ToSet(added')
      /\ \A t \in m_done' : t \in ToSet(m_queue') \union m_doing' \union m_failed' \/ child'[t] = "Succeeded"
      /\ kind # "netjob" => m_failed' \subseteq m_done'
  BY DEF PInv, IInv, Complete, Known, Outcomes
<1>3. ASSUME Hold(m_queue, dg, post) \/ (\E q : Hold(q, dg, post)), AllEnded(dg)
      PROVE  /\ m_doing' = {} /\ ToSet(added') = m_done' \union m_failed'
             /\ \A t \in m_done' : t \in m_failed' \/ child'[t] = "Succeeded"
  <2>1. m_queue' = << >> /\ m_doing' = {} /\ ~m_aborted'
    BY <1>3 DEF Hold, AllEnded
  <2>2. ToSet(m_queue') = {} /\ Waiting' = {}
    BY <2>1 DEF ToSet, Waiting
  <2> QED BY <1>2, <2>1, <2>2
<1>4. CASE kind = "netjob"
  <2>1. /\ \E q : Hold(q, dg, post)
        /\ AllEnded(dg) /\ m_failed' = fl /\ m_try' = m_try /\ (fl = {} \/ m_try = MaxTries)
    BY <1>1, <1>4, NetJobCases DEF HandOut
  <2> QED BY <1>3, <1>4, <2>1 DEF SuccessMeans
<1>5. CASE kind = "concurrent"
  <2>1. Hold(m_queue, dg, post) /\ AllEnded(dg)
    BY <1>1, <1>5, PlainCases DEF HandOut
  <2> QED BY <1>2, <1>3, <1>5, <2>1 DEF SuccessMeans
<1>6. CASE kind = "sequential"
  <2>1. Hold(m_queue, dg, post) /\ AllEnded(dg) /\ m_failed' = {}
    BY <1>1, <1>6, PlainCases DEF HandOut
  <2> QED BY <1>3, <1>6, <2>1 DEF SuccessMeans
<1>7. CASE kind = "options"
  <2>1. /\ Hold(m_queue, dg, post) /\ Cardinality(dn) # Cardinality(fl)
        /\ m_done' = dn /\ m_failed' = fl
    BY <1>1, <1>7, PlainCases DEF HandOut
  <2>2. dg = {} /\ fl \subseteq dn /\ dn # fl
    BY <1>7, <2>1 DEF Outcomes
  <2>3. PICK t \in dn : t \notin fl
    BY <2>2
  <2>4. child'[t] = "Succeeded" /\ t \in ToSet(added')
    BY <1>2, <1>7, <2>1, <2>2, <2>3 DEF Outcomes
  <2> QED BY <1>7, <2>1, <2>2, <2>4 DEF SuccessMeans, Hold
<1> QED BY <1>1, <1>4, <1>5, <1>6, <1>7 DEF AllKinds

\* Success is never early: a container succeeds with nothing left at work, and of its children
\* all have reported, all or one have succeeded, or (NetJob) were given up after three
\* tries, as its class promises.
THEOREM SuccessIsNeverEarly == Spec => NoEarlySuccess
<1>1. ASSUME PInv, PInv', [Next]_vars, m_state = "Running", m_state' = "Succeeded"
      PROVE  SuccessMeans' /\ m_doing' = {}
  <2>0. /\ TypeOK /\ kind' = kind /\ m_doing \in SUBSET Tasks
        /\ m_done \in SUBSET Tasks /\ m_failed \in SUBSET Tasks /\ child \in [Tasks -> States]
        /\ Outcomes(m_queue, m_doing, m_done, m_failed, child)
        /\ m_failed \intersect (ToSet(m_queue) \union m_doing) = {} /\ ToSet(m_queue) \intersect m_doing = {}
    BY <1>1 DEF PInv, IInv, Books, TypeOK, Next, vars
  <2>1. CASE \E t \in Tasks : AddTask(t) \/ DeliverChildStart(t) \/ SubTaskVanished(t)
    BY <1>1, <2>1 DEF AddTask, DeliverChildStart, SubTaskVanished
  <2>2. CASE Start \/ BaseAbort \/ NetJobAbort
    BY <1>1, <2>2 DEF Start, BaseAbort, NetJobAbort, Emit
  <2>3. CASE DeliverStartNext
    <3>1. /\ StartNext(m_doing, m_done, m_failed, Tail(posted))
          /\ UNCHANGED <<m_aborted, child>>
      BY <2>3 DEF DeliverStartNext
    <3>2. Outcomes(m_queue, m_doing, m_done, m_failed, child')
      BY <2>0, <3>1
    <3> QED BY <1>1, <2>0, <3>1, <3>2, HandlerSucceeds
  <2>4. ASSUME NEW t \in Tasks, SubTaskSucceeded(t) \/ SubTaskFailed(t)
        PROVE  SuccessMeans' /\ m_doing' = {}
    <3> DEFINE dg == m_doing \ {t}
               dn == m_done \union {t}
    <3>1. t \in m_doing /\ UNCHANGED m_aborted /\ \A x \in Tasks \ {t} : child'[x] = child[x]
      BY <2>0, <2>4 DEF SubTaskSucceeded, SubTaskFailed
    <3>2. kind = "options" => dg = {}
      <4>1. kind = "options" => Cardinality(m_doing) <= 1
        BY <1>1 DEF PInv, Pace, Single
      <4>2. Cardinality(dg) = Cardinality(m_doing) - 1 /\ Cardinality(m_doing) \in Nat
        BY <2>0, <3>1, WorkFinite
      <4>3. dg \in SUBSET Tasks
        BY <2>0
      <4>4. Cardinality(dg) <= 0 => dg = {}
        BY <4>3, WorkFinite
      <4> QED BY <4>1, <4>2, <4>4
    <3>3. CASE SubTaskSucceeded(t)
      <4>1. StartNext(dg, dn, m_failed, posted) /\ child'[t] = "Succeeded"
        BY <2>0, <3>3 DEF SubTaskSucceeded
      <4>2. Outcomes(m_queue, dg, dn, m_failed, child')
        BY <2>0, <3>1, <3>2, <4>1 DEF Outcomes
      <4> QED BY <1>1, <2>0, <3>1, <4>1, <4>2, HandlerSucceeds
    <3>4. CASE SubTaskFailed(t)
      <4> DEFINE fl == m_failed \union {t}
      <4>1. StartNext(dg, dn, fl, posted) /\ child'[t] = "Failed"
        BY <2>0, <3>4 DEF SubTaskFailed
      <4>2. Outcomes(m_queue, dg, dn, fl, child')
        BY <2>0, <3>1, <3>2, <4>1 DEF Outcomes
      <4> QED BY <1>1, <2>0, <3>1, <4>1, <4>2, HandlerSucceeds
    <3> QED BY <2>4, <3>3, <3>4
  <2>5. CASE UNCHANGED vars
    BY <1>1, <2>5 DEF vars
  <2> QED BY <1>1, <2>1, <2>2, <2>3, <2>4, <2>5 DEF Next
<1> QED BY <1>1, PaceInvariant, PTL DEF Spec, NoEarlySuccess
=============================================================================
