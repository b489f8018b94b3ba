----------------------------- MODULE TaskRuntime -----------------------------
(***************************************************************************)
(* The task runtime of the UI development server (packages/ui/vite.config  *)
(* .ts): a map of tasks in the memory of the server, moved by the requests *)
(* /create, /control and /demo and by the timers of the demos.             *)
(*                                                                         *)
(* Every change of a task pushes one event, which carries all that may     *)
(* change of it.  The number of that event therefore stands for progress,  *)
(* attempt, message and time; it is never used again, not even after the   *)
(* server was restarted.  What the handlers write to the global storage    *)
(* and to the runtime log is read by none of them: left out.               *)
(***************************************************************************)
EXTENDS Naturals, Sequences

CONSTANTS Tasks,      \* names of tasks
          Lengths,    \* lengths of the flows of demos: 2, 3 and 4 in the code
          MaxEvents   \* bound on pushed

ASSUME RuntimeAssumption == Lengths \subseteq 2..4 /\ MaxEvents \in Nat

VARIABLES tasks,     \* runtimeTasks: the status of a task and its last event
          demo,      \* the steps its demo timers still have to make
          pushed     \* events pushed so far; a restart is counted with them

runtime == <<tasks, demo, pushed>>

(* TaskState without "queued": "running" is that or retry, "finished" is   *)
(* succeeded, failed or canceled.  No handler tells those apart.           *)
Actions == {"running", "finished"}

Absent == [status |-> "absent", event |-> 0]
Exists(t) == tasks[t] # Absent

(* flowByMode                                                              *)
Flows == { [i \in 1..n |-> IF i = n THEN "finished" ELSE "running"] : n \in Lengths }

(* A task whose generated name was never given out yet.                    *)
Unused == <<"unused">>

RuntimeInit ==
    /\ tasks = [t \in Tasks |-> Absent]
    /\ demo = [t \in Tasks |-> Unused]
    /\ pushed = 0

(* pushRuntimeEvent                                                        *)
Push(t, status) ==
    /\ pushed < MaxEvents /\ pushed' = pushed + 1
    /\ tasks' = [tasks EXCEPT ![t] = [status |-> status, event |-> pushed + 1]]

(* /create: a name that is in use is answered 409.                         *)
Create(t) == ~Exists(t) /\ Push(t, "queued") /\ UNCHANGED demo

(* /control: 404 for a task that does not exist, 400 for "queued"; any     *)
(* other state is reached from any state, a finished one included.         *)
Control(t, action) ==
    /\ Exists(t)
    /\ Push(t, action)
    /\ UNCHANGED demo

(* /demo: a task under a new name, and one timer for each of its steps.    *)
Demo(t, flow) ==
    /\ demo[t] = Unused /\ ~Exists(t)
    /\ Push(t, "queued")
    /\ demo' = [demo EXCEPT ![t] = flow]

(* The next timer of a demo: it does nothing to a task that is finished.   *)
(* The slip moves that one too.                                            *)
UnfinishedOrNot(t) == Exists(t)
Unfinished(t) == Exists(t) /\ tasks[t].status # "finished"
DemoStep(t) ==
    /\ demo[t] \notin {Unused, <<>>}
    /\ demo' = [demo EXCEPT ![t] = Tail(demo[t])]
    /\ \/ Unfinished(t) /\ Push(t, Head(demo[t]))
       \/ ~Unfinished(t) /\ UNCHANGED <<tasks, pushed>>

(* The server closes and starts again: cleanup clears the timers, the map  *)
(* is a new one.                                                           *)
RestartServer ==
    /\ pushed < MaxEvents /\ pushed' = pushed + 1
    /\ tasks' = [t \in Tasks |-> Absent]
    /\ demo' = [t \in Tasks |-> IF demo[t] = Unused THEN Unused ELSE <<>>]
=============================================================================
