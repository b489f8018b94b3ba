----------------------------- MODULE TaskLedger -----------------------------
(***************************************************************************)
(* What the commercial task service promises about a task: it is accepted  *)
(* once, messages are appended to it while it is open, it is canceled at   *)
(* most once, and nothing follows the cancellation.  TaskStore.tla is      *)
(* shown to implement this specification.                                  *)
(***************************************************************************)
EXTENDS Sequences

CONSTANTS Tasks   \* task identifiers

VARIABLE log      \* [Tasks -> sequence of the types of the task's events]

Open(t) == log[t] # <<>> /\ log[t][Len(log[t])] # "task.canceled"

Record(t, type) == log' = [log EXCEPT ![t] = Append(@, type)]

Init == log = [t \in Tasks |-> <<>>]

Create(t)  == log[t] = <<>> /\ Record(t, "task.accepted")
Message(t) == Open(t) /\ Record(t, "task.message.accepted")
Cancel(t)  == Open(t) /\ Record(t, "task.canceled")

Next == \E t \in Tasks : Create(t) \/ Message(t) \/ Cancel(t)

Spec == Init /\ [][Next]_log
=============================================================================
