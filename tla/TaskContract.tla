---------------------------- MODULE TaskContract ----------------------------
(* What tasks/Task.{h,cpp} promises to the code that starts a task: a task   *)
(* runs only between start() and one terminal signal, the terminal signal    *)
(* names the state the task is left in, and a task that has ended may be     *)
(* started again.  Containers of tasks are shown to implement this module.   *)
VARIABLES m_state,  \* Task::m_state
          emitted   \* terminal signals emitted since the last start()

Ends == {"Succeeded", "Failed", "AbortedByUser"}
States == {"Inactive", "Running"} \union Ends

Init == m_state = "Inactive" /\ emitted = << >>

\* Task::start() in any state but Running; a start() while running is ignored.
Start == /\ m_state # "Running"
         /\ m_state' = "Running"
         /\ emitted' = << >>

\* emitSucceeded(), emitFailed(), emitAborted(): only a running task ends.
End == /\ m_state = "Running"
       /\ \E e \in Ends : m_state' = e /\ emitted' = <<e>>

Next == Start \/ End

vars == <<m_state, emitted>>
Spec == Init /\ [][Next]_vars

\* A task that was started reports how it ended.
Reports == (m_state = "Running") ~> (m_state # "Running")
=============================================================================
