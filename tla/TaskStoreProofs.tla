--------------------------- MODULE TaskStoreProofs ---------------------------
(***************************************************************************)
(* Theorems about TaskStore, for every set of tasks and calls and every    *)
(* bound: its types; then the files, with calls that overlap, operations   *)
(* that fail and processes that die at any step, by the history of         *)
(* TaskStoreHistory; then the maps, as long as calls do not share a turn   *)
(* of the event loop and the process lives.                                *)
(***************************************************************************)
EXTENDS TaskStoreHistory, SequenceTheorems, FiniteSetTheorems, TLAPS

(* No task is without a status but the one that is not there.              *)
ProperTasks == {ts \in [Tasks -> Task] : \A t \in Tasks : ts[t].status = "none" => ts[t] = NoTask}
Logs == [Tasks -> Seq(Row)]

(* A text that parses holds what its file is for.                          *)
Content(f) == IF f = "tasks" THEN ProperTasks ELSE Logs
IsText(f, x) == x.ok \in BOOLEAN /\ (x.ok => x.data \in Content(f))

(* A call that has begun names a method and a task; at appendEvent it is a *)
(* message or a cancellation that found a task.  An answered call is done. *)
CallBooks ==
    \A c \in Calls :
        /\ pc[c] # "idle" => arg[c] \in Tasks /\ op[c] \in {"create", "message", "cancel"}
        /\ pc[c] = "append" =>
              op[c] \in {"message", "cancel"} /\ seen[c] \in {"accepted", "canceled"}
        /\ reply[c] # "none" => pc[c] = "done"

(* No call waits twice in the microtask queue.                             *)
QueuedOnce == \A i, j \in DOMAIN queue : queue[i] = queue[j] => i = j

TextBooks ==
    /\ DOMAIN inode = Files /\ DOMAIN draft = Calls
    /\ \A f \in Files : DOMAIN inode[f] = Calls
    /\ \A f \in Files : \A c \in Calls : IsText(f, inode[f][c])
    /\ \A c \in Calls : pc[c] \in {"open", "write"} => IsText(stage[c], draft[c])
    /\ \A c \in Calls : pc[c] = "write" => fd[c] \in Calls

IInv == TypeOK /\ tasks \in ProperTasks /\ CallBooks /\ QueuedOnce /\ TextBooks
-----------------------------------------------------------------------------
LEMMA InitTypes == Init => IInv
  <1> SUFFICES ASSUME Init PROVE IInv OBVIOUS
  <1> USE DEF Init
  <1>1. TypeOK
    BY BoundAssumption DEF TypeOK, NoTasks, NoTask, Task, NoRows, Waiting, FileOps, Files
  <1>2. tasks \in ProperTasks
    BY DEF ProperTasks, NoTasks, NoTask, Task
  <1>3. CallBooks /\ QueuedOnce
    BY DEF CallBooks, QueuedOnce
  <1>4. TextBooks
    BY DEF TextBooks, IsText, NoContent
  <1> QED BY <1>1, <1>2, <1>3, <1>4 DEF IInv

LEMMA CallTypes ==
  ASSUME IInv, NEW c \in Calls, NEW o \in {"create", "message", "cancel"}, NEW t \in Tasks,
         Call(c, o, t)
  PROVE  IInv'
  <1> USE DEF IInv, Call, store, disk
  <1>q. /\ queue' \in Seq(Calls) /\ Len(queue') = Len(queue) + 1
        /\ \A i \in 1..Len(queue) : queue'[i] = queue[i]
        /\ queue'[Len(queue) + 1] = c
        /\ DOMAIN queue' = 1..(Len(queue) + 1) /\ DOMAIN queue = 1..Len(queue)
        /\ Len(queue) \in Nat
    BY AppendProperties DEF TypeOK
  <1>n. \A i \in DOMAIN queue : queue[i] # c
    BY DEF TypeOK, Waiting
  <1>1. TypeOK'
    <2>1. \A i \in DOMAIN queue' : pc'[queue'[i]] \in Waiting
      BY <1>q DEF TypeOK, Waiting
    <2>2. turn' \in 0..MaxTurn
      BY BoundAssumption DEF TypeOK
    <2> QED BY <1>q, <2>1, <2>2 DEF TypeOK, Waiting, FileOps
  <1>2. CallBooks'
    BY DEF CallBooks, TypeOK
  <1>3. QueuedOnce'
    BY <1>q, <1>n DEF QueuedOnce
  <1>4. TextBooks'
    BY DEF TextBooks, TypeOK
  <1> QED BY <1>1, <1>2, <1>3, <1>4

(* Whoever is resumed leaves the queue, or goes to its end.                *)
LEMMA QueueShrinks ==
  ASSUME TypeOK, QueuedOnce, NEW c \in Calls, queue # <<>>, c = Head(queue), queue' = Tail(queue),
         \A d \in Calls \ {c} : pc'[d] = pc[d]
  PROVE  /\ queue' \in Seq(Calls)
         /\ \A i \in DOMAIN queue' : pc'[queue'[i]] \in Waiting /\ queue'[i] # c
         /\ QueuedOnce'
  <1>1. /\ queue' \in Seq(Calls) /\ Len(queue') = Len(queue) - 1 /\ Len(queue) \in Nat
        /\ \A i \in 1..Len(queue') : queue'[i] = queue[i + 1]
        /\ DOMAIN queue' = 1..Len(queue') /\ DOMAIN queue = 1..Len(queue)
        /\ c = queue[1] /\ 1 \in DOMAIN queue
    BY HeadTailProperties, EmptySeq DEF TypeOK
  <1>2. \A i \in DOMAIN queue' : i + 1 \in DOMAIN queue /\ queue'[i] \in Calls
    BY <1>1 DEF TypeOK
  <1>3. \A i \in DOMAIN queue' : queue'[i] # c
    BY <1>1, <1>2 DEF QueuedOnce
  <1> QED BY <1>1, <1>2, <1>3 DEF TypeOK, QueuedOnce

LEMMA QueueTurns ==
  ASSUME TypeOK, QueuedOnce, NEW c \in Calls, queue # <<>>, c = Head(queue),
         queue' = Append(Tail(queue), c), pc'[c] \in Waiting,
         \A d \in Calls \ {c} : pc'[d] = pc[d]
  PROVE  /\ queue' \in Seq(Calls)
         /\ \A i \in DOMAIN queue' : pc'[queue'[i]] \in Waiting
         /\ QueuedOnce'
  <1> DEFINE rest == Tail(queue)
  <1>1. /\ rest \in Seq(Calls) /\ Len(rest) = Len(queue) - 1 /\ Len(queue) \in Nat
        /\ \A i \in 1..Len(rest) : rest[i] = queue[i + 1]
        /\ DOMAIN rest = 1..Len(rest) /\ DOMAIN queue = 1..Len(queue)
        /\ c = queue[1] /\ 1 \in DOMAIN queue
    BY HeadTailProperties, EmptySeq DEF TypeOK
  <1>2. \A i \in DOMAIN rest : i + 1 \in DOMAIN queue /\ rest[i] \in Calls
    BY <1>1 DEF TypeOK
  <1>3. \A i \in DOMAIN rest : rest[i] # c
    BY <1>1, <1>2 DEF QueuedOnce
  <1>4. /\ queue' \in Seq(Calls) /\ Len(queue') = Len(rest) + 1
        /\ \A i \in 1..Len(rest) : queue'[i] = rest[i]
        /\ queue'[Len(rest) + 1] = c
        /\ DOMAIN queue' = 1..(Len(rest) + 1) /\ Len(rest) \in Nat
    BY <1>1, AppendProperties
  <1>5. \A i \in DOMAIN queue' : i \in DOMAIN rest \/ i = Len(rest) + 1
    BY <1>1, <1>4
  <1>6. \A i \in DOMAIN queue' : pc'[queue'[i]] \in Waiting
    BY <1>1, <1>2, <1>3, <1>4, <1>5 DEF TypeOK
  <1>7. QueuedOnce'
    <2> SUFFICES ASSUME NEW i \in DOMAIN queue', NEW j \in DOMAIN queue', queue'[i] = queue'[j]
                 PROVE i = j
      BY DEF QueuedOnce
    <2>1. CASE i \in DOMAIN rest /\ j \in DOMAIN rest
      <3>1. queue[i + 1] = queue[j + 1] /\ i + 1 \in DOMAIN queue /\ j + 1 \in DOMAIN queue
        BY <1>1, <1>2, <1>4, <2>1
      <3> QED BY <1>1, <2>1, <3>1 DEF QueuedOnce
    <2> QED BY <1>1, <1>3, <1>4, <1>5, <2>1
  <1> QED BY <1>4, <1>6, <1>7

(* What the maps get from an event.                                        *)
LEMMA EventTypes ==
  ASSUME NEW c \in Calls, op[c] \in {"create", "message", "cancel"}
  PROVE  /\ EventType(c) \in {"task.accepted", "task.message.accepted", "task.canceled"}
         /\ Summary(c) \in {"task accepted", "message accepted", "task canceled"}
  BY DEF EventType, Summary

LEMMA CreateTaskTypes == ASSUME IInv, NEW c \in Calls, CreateTask(c) PROVE IInv'
  <1> USE DEF CreateTask, Resumes, Awaits, disk
  <1>c. arg[c] \in Tasks /\ op[c] \in {"create", "message", "cancel"}
    BY DEF IInv, CallBooks
  <1>q. /\ queue' \in Seq(Calls)
        /\ \A i \in DOMAIN queue' : pc'[queue'[i]] \in Waiting
        /\ QueuedOnce'
    <2>1. pc'[c] \in Waiting /\ \A d \in Calls \ {c} : pc'[d] = pc[d]
      BY DEF IInv, TypeOK, Waiting
    <2> QED BY <2>1, QueueTurns DEF IInv
  <1>t. tasks' \in ProperTasks /\ tasks' \in [Tasks -> Task]
    BY <1>c, EventTypes DEF IInv, ProperTasks, Task, TypeOK
  <1>e. events' \in [Tasks -> Seq(Row)]
    <2> DEFINE row == [type |-> EventType(c), status |-> "accepted", by |-> c]
    <2>1. row \in Row
      BY <1>c, EventTypes DEF Row
    <2>2. <<row>> \in Seq(Row)
      BY <2>1
    <2> QED BY <2>2, <1>c DEF IInv, TypeOK
  <1>1. TypeOK'
    BY <1>q, <1>t, <1>e, BoundAssumption DEF IInv, TypeOK, Waiting, FileOps
  <1>2. CallBooks'
    BY DEF IInv, CallBooks, TypeOK
  <1>3. TextBooks'
    BY DEF IInv, TextBooks, TypeOK
  <1> QED BY <1>1, <1>2, <1>3, <1>q, <1>t DEF IInv

LEMMA CheckTaskTypes == ASSUME IInv, NEW c \in Calls, CheckTask(c) PROVE IInv'
  <1> USE DEF CheckTask, Resumes, disk, store
  <1>c. arg[c] \in Tasks /\ op[c] \in {"message", "cancel"} /\ pc[c] = "resume"
    BY DEF IInv, CallBooks
  <1>o. \A d \in Calls \ {c} : pc'[d] = pc[d]
    BY DEF IInv, TypeOK, Returns, Awaits
  <1>q. /\ queue' \in Seq(Calls)
        /\ \A i \in DOMAIN queue' : pc'[queue'[i]] \in Waiting
        /\ QueuedOnce'
    <2>1. CASE queue' = Tail(queue)
      BY <2>1, <1>o, QueueShrinks DEF IInv
    <2>2. CASE queue' = Append(Tail(queue), c) /\ pc'[c] = "append"
      BY <2>2, <1>o, QueueTurns DEF IInv, Waiting
    <2>3. pc' = [pc EXCEPT ![c] = "append"] => pc'[c] = "append"
      BY DEF IInv, TypeOK
    <2> QED BY <2>1, <2>2, <2>3 DEF Returns, Awaits
  <1>s. tasks[arg[c]] # NoTask => tasks[arg[c]].status \in {"accepted", "canceled"}
    BY <1>c DEF IInv, ProperTasks, Task
  <1>1. TypeOK'
    <2>1. pc' \in [Calls -> Waiting \cup FileOps \cup {"idle", "done", "dead"}]
      <3>1. pc' = [pc EXCEPT ![c] = "done"] \/ pc' = [pc EXCEPT ![c] = "append"]
        BY DEF Returns, Awaits
      <3> QED BY ONLY <3>1, IInv DEF IInv, TypeOK, Waiting
    <2>2. seen' \in [Calls -> {"none", "accepted", "canceled"}]
      BY <1>s DEF IInv, TypeOK
    <2>3. reply' \in [Calls -> {"none", "ok", "not_found", "terminal", "error"}]
      BY DEF IInv, TypeOK, Returns, Awaits
    <2> QED BY <1>q, <2>1, <2>2, <2>3, BoundAssumption DEF IInv, TypeOK
  <1>2. CallBooks'
    BY <1>c, <1>s DEF IInv, CallBooks, TypeOK, Returns, Awaits
  <1>3. TextBooks'
    BY DEF IInv, TextBooks, TypeOK, Returns, Awaits
  <1>4. tasks' \in ProperTasks
    BY DEF IInv
  <1> QED BY <1>1, <1>2, <1>3, <1>4, <1>q DEF IInv

LEMMA AppendEventTypes == ASSUME IInv, NEW c \in Calls, AppendEvent(c) PROVE IInv'
  <1> USE DEF AppendEvent, Resumes, Awaits, disk
  <1>c. /\ arg[c] \in Tasks /\ op[c] \in {"message", "cancel"}
        /\ seen[c] \in {"accepted", "canceled"}
    BY DEF IInv, CallBooks
  <1>s. RowStatus(c) \in {"accepted", "canceled"}
    BY <1>c DEF RowStatus
  <1>q. /\ queue' \in Seq(Calls)
        /\ \A i \in DOMAIN queue' : pc'[queue'[i]] \in Waiting
        /\ QueuedOnce'
    <2>1. pc'[c] \in Waiting /\ \A d \in Calls \ {c} : pc'[d] = pc[d]
      BY DEF IInv, TypeOK, Waiting
    <2> QED BY <2>1, QueueTurns DEF IInv
  <1>t. tasks' \in ProperTasks /\ tasks' \in [Tasks -> Task]
    BY <1>c, <1>s, EventTypes DEF IInv, ProperTasks, Task, TypeOK, TaskStatus
  <1>e. events' \in [Tasks -> Seq(Row)]
    <2> DEFINE row == [type |-> EventType(c), status |-> RowStatus(c), by |-> c]
    <2>1. row \in Row
      BY <1>c, <1>s, EventTypes DEF Row
    <2>2. events[arg[c]] \in Seq(Row)
      BY <1>c DEF IInv, TypeOK
    <2>3. Append(events[arg[c]], row) \in Seq(Row)
      BY <2>1, <2>2, AppendProperties
    <2> QED BY <2>3, <1>c DEF IInv, TypeOK, RowPushed
  <1>1. TypeOK'
    BY <1>q, <1>t, <1>e, BoundAssumption DEF IInv, TypeOK, Waiting, FileOps
  <1>2. CallBooks'
    BY DEF IInv, CallBooks, TypeOK
  <1>3. TextBooks'
    BY DEF IInv, TextBooks, TypeOK
  <1> QED BY <1>1, <1>2, <1>3, <1>q, <1>t DEF IInv

(* Both texts of a moment hold what the files are for.                     *)
LEMMA TextsOfMaps ==
  ASSUME IInv, NEW ks
  PROVE  IsText("tasks", TasksText) /\ IsText("events", EventsText(ks))
  <1>1. IsText("tasks", TasksText)
    BY DEF IInv, IsText, TasksText, Content
  <1>2. IsText("events", EventsText(ks))
    <2> DEFINE rows == [t \in Tasks |-> IF t \in ks THEN events[t] ELSE <<>>]
    <2>1. rows \in [Tasks -> Seq(Row)]
      BY DEF IInv, TypeOK
    <2> HIDE DEF rows
    <2>2. EventsText(ks) = [ok |-> TRUE, data |-> rows, size |-> RowsSize(rows)]
      BY DEF EventsText, rows
    <2> QED BY <2>1, <2>2 DEF IsText, Content, Logs
  <1> QED BY <1>1, <1>2

LEMMA BeginPersistTypes == ASSUME IInv, NEW c \in Calls, BeginPersist(c) PROVE IInv'
  <1> USE DEF BeginPersist, Resumes, disk, store
  <1>o. \A d \in Calls \ {c} : pc'[d] = pc[d]
    BY DEF IInv, TypeOK
  <1>q. /\ queue' \in Seq(Calls)
        /\ \A i \in DOMAIN queue' : pc'[queue'[i]] \in Waiting
        /\ QueuedOnce'
    BY <1>o, QueueShrinks DEF IInv
  <1>1. TypeOK'
    BY <1>q, BoundAssumption DEF IInv, TypeOK, Waiting, FileOps, Files
  <1>2. CallBooks'
    BY DEF IInv, CallBooks, TypeOK
  <1>3. TextBooks'
    <2>1. \A d \in Calls : pc'[d] \in {"open", "write"} => IsText(stage'[d], draft'[d])
      <3> TAKE d \in Calls
      <3>1. CASE d = c
        <4>1. stage'[d] = "tasks" /\ draft'[d] = TasksText
          BY <3>1 DEF IInv, TypeOK, TextBooks
        <4> QED BY <4>1, TextsOfMaps
      <3>2. CASE d # c
        BY <3>2 DEF IInv, TypeOK, TextBooks
      <3> QED BY <3>1, <3>2
    <2>2. DOMAIN draft' = Calls
      BY DEF IInv, TextBooks
    <2> QED BY <2>1, <2>2 DEF IInv, TextBooks, TypeOK
  <1>4. tasks' \in ProperTasks
    BY DEF IInv
  <1> QED BY <1>1, <1>2, <1>3, <1>4, <1>q DEF IInv

LEMMA OpenTempTypes == ASSUME IInv, NEW c \in Calls, OpenTemp(c) PROVE IInv'
  <1> DEFINE f == stage[c]
             i == TempInode(f, c)
  <1> USE DEF OpenTemp, Performs, store
  <1>c. f \in Files /\ i \in Calls /\ pc[c] = "open"
    BY DEF IInv, TypeOK, TempInode
  <1>i. inode' = [inode EXCEPT ![f] = [inode[f] EXCEPT ![i] = NoContent]]
    BY <1>c
  <1>1. TypeOK'
    BY <1>c, BoundAssumption DEF IInv, TypeOK, FileOps, Waiting
  <1>2. CallBooks'
    BY DEF IInv, CallBooks, TypeOK
  <1>3. TextBooks'
    <2> HIDE DEF i
    <2>1. /\ DOMAIN inode' = Files /\ \A g \in Files : DOMAIN inode'[g] = Calls
          /\ \A g \in Files : \A d \in Calls :
                inode'[g][d] = IF g = f /\ d = i THEN NoContent ELSE inode[g][d]
      BY <1>c, <1>i DEF IInv, TextBooks
    <2>2. \A g \in Files : IsText(g, NoContent)
      BY DEF IsText, NoContent
    <2>3. \A d \in Calls : pc'[d] \in {"open", "write"} => pc[d] \in {"open", "write"}
      BY <1>c DEF IInv, TypeOK
    <2>4. \A d \in Calls : pc'[d] = "write" => fd'[d] \in Calls
      BY <1>c DEF IInv, TypeOK, TextBooks, i
    <2> QED BY <2>1, <2>2, <2>3, <2>4 DEF IInv, TextBooks
  <1>4. tasks' \in ProperTasks /\ QueuedOnce'
    BY DEF IInv, QueuedOnce
  <1> QED BY <1>1, <1>2, <1>3, <1>4 DEF IInv

LEMMA WriteTempTypes == ASSUME IInv, NEW c \in Calls, WriteTemp(c) PROVE IInv'
  <1> DEFINE f == stage[c]
             old == inode[f][fd[c]]
             new == IF old.size = 0 \/ draft[c].size >= old.size THEN draft[c]
                    ELSE [ok |-> FALSE, size |-> old.size]
  <1> USE DEF WriteTemp, Performs, store
  <1>c. f \in Files /\ fd[c] \in Calls /\ pc[c] = "write"
    BY DEF IInv, TypeOK, TextBooks
  <1>i. inode' = [inode EXCEPT ![f] = [inode[f] EXCEPT ![fd[c]] = new]]
    BY <1>c
  <1>1. TypeOK'
    BY <1>c, BoundAssumption DEF IInv, TypeOK, FileOps, Waiting
  <1>2. CallBooks'
    BY DEF IInv, CallBooks, TypeOK
  <1>3. TextBooks'
    <2>n. IsText(f, new)
      BY <1>c DEF IInv, TextBooks, IsText
    <2> HIDE DEF new
    <2>1. /\ DOMAIN inode' = Files /\ \A g \in Files : DOMAIN inode'[g] = Calls
          /\ \A g \in Files : \A d \in Calls :
                inode'[g][d] = IF g = f /\ d = fd[c] THEN new ELSE inode[g][d]
      BY ONLY <1>c, <1>i, IInv DEF IInv, TextBooks
    <2>2. \A d \in Calls : pc'[d] \in {"open", "write"} => pc'[d] = pc[d]
      BY <1>c DEF IInv, TypeOK
    <2> QED BY <2>n, <2>1, <2>2 DEF IInv, TextBooks
  <1>4. tasks' \in ProperTasks /\ QueuedOnce'
    BY DEF IInv, QueuedOnce
  <1> QED BY <1>1, <1>2, <1>3, <1>4 DEF IInv

LEMMA RenameTempTypes == ASSUME IInv, NEW c \in Calls, RenameTemp(c) PROVE IInv'
  <1> USE DEF RenameTemp, Performs, store, Answers
  <1>c. stage[c] \in Files /\ pc[c] = "rename" /\ tmp[stage[c]] \in Calls
    BY DEF IInv, TypeOK
  <1>p. \/ stage[c] = "tasks" /\ pc' = [pc EXCEPT ![c] = "open"]
        \/ stage[c] = "events" /\ pc' = [pc EXCEPT ![c] = "done"]
    OBVIOUS
  <1>1. TypeOK'
    <2>1. pc' \in [Calls -> Waiting \cup FileOps \cup {"idle", "done", "dead"}]
      BY <1>p DEF IInv, TypeOK, FileOps
    <2>2. \A j \in DOMAIN queue' : pc'[queue'[j]] \in Waiting
      OBVIOUS
    <2>3. stage' \in [Calls -> Files]
      BY DEF IInv, TypeOK, Files
    <2>4. /\ fd' \in [Calls -> Calls \cup {NoInode}]
          /\ reply' \in [Calls -> {"none", "ok", "not_found", "terminal", "error"}]
      <3>1. /\ fd' = fd \/ fd' = [fd EXCEPT ![c] = NoInode]
            /\ reply' = reply \/ reply' = [reply EXCEPT ![c] = "ok"]
        OBVIOUS
      <3> QED BY ONLY <3>1, IInv DEF IInv, TypeOK
    <2> QED BY <1>c, <2>1, <2>2, <2>3, <2>4, BoundAssumption DEF IInv, TypeOK
  <1>2. CallBooks'
    BY <1>p DEF IInv, CallBooks, TypeOK
  <1>3. TextBooks'
    <2>1. DOMAIN draft' = Calls
      BY DEF IInv, TextBooks
    <2>2. \A d \in Calls : pc'[d] \in {"open", "write"} => IsText(stage'[d], draft'[d])
      <3> TAKE d \in Calls
      <3>1. CASE d = c
        <4>1. CASE stage[c] = "tasks"
          <5>1. stage'[d] = "events" /\ draft'[d] = EventsText(keys[c])
            BY <3>1, <4>1 DEF IInv, TypeOK, TextBooks
          <5> QED BY <5>1, TextsOfMaps
        <4>2. CASE stage[c] = "events"
          BY <3>1, <4>2 DEF IInv, TypeOK
        <4> QED BY <4>1, <4>2
      <3>2. CASE d # c
        <4>1. stage'[d] = stage[d] /\ draft'[d] = draft[d] /\ pc'[d] = pc[d]
          BY <3>2 DEF IInv, TypeOK, TextBooks
        <4> QED BY <4>1 DEF IInv, TextBooks
      <3> QED BY <3>1, <3>2
    <2>3. \A d \in Calls : pc'[d] = "write" => fd'[d] = fd[d] /\ pc[d] = "write"
      BY <1>c, <1>p DEF IInv, TypeOK
    <2> QED BY <2>1, <2>2, <2>3 DEF IInv, TextBooks
  <1>4. tasks' \in ProperTasks /\ QueuedOnce'
    BY DEF IInv, QueuedOnce
  <1> QED BY <1>1, <1>2, <1>3, <1>4 DEF IInv

(* A call that fails: what is left of it, whatever else changed.           *)
LEMMA FailsTypes ==
  ASSUME IInv, NEW c \in Calls, Fails(c), queue = <<>>, pc[c] \in FileOps,
         faults' \in 0..MaxFaults, turn' = 0,
         UNCHANGED <<up, store, queue, op, arg, seen, keys, crashes>>,
         DOMAIN inode' = Files, \A f \in Files : DOMAIN inode'[f] = Calls,
         \A f \in Files : \A d \in Calls : IsText(f, inode'[f][d])
  PROVE  IInv'
  <1> USE DEF Fails, Answers, Failure, store
  <1>1. TypeOK'
    BY BoundAssumption DEF IInv, TypeOK
  <1>2. CallBooks'
    BY DEF IInv, CallBooks, TypeOK, FileOps
  <1>3. TextBooks'
    <2>1. DOMAIN draft' = Calls
      BY DEF IInv, TextBooks
    <2>2. \A d \in Calls : pc'[d] \in {"open", "write"} =>
              pc'[d] = pc[d] /\ stage'[d] = stage[d] /\ draft'[d] = draft[d] /\ fd'[d] = fd[d]
      BY DEF IInv, TypeOK, TextBooks
    <2> QED BY <2>1, <2>2 DEF IInv, TextBooks
  <1>4. tasks' \in ProperTasks /\ QueuedOnce'
    BY DEF IInv, QueuedOnce
  <1> QED BY <1>1, <1>2, <1>3, <1>4 DEF IInv

LEMMA RenameMissesTypes == ASSUME IInv, NEW c \in Calls, RenameMisses(c) PROVE IInv'
  <1>1. /\ Fails(c) /\ queue = <<>> /\ pc[c] \in FileOps /\ turn' = 0
        /\ faults' = faults /\ inode' = inode
        /\ UNCHANGED <<up, store, queue, op, arg, seen, keys, crashes>>
    BY DEF RenameMisses, Performs, FileOps
  <1>2. faults' \in 0..MaxFaults
    BY <1>1 DEF IInv, TypeOK
  <1>3. /\ DOMAIN inode' = Files /\ \A f \in Files : DOMAIN inode'[f] = Calls
        /\ \A f \in Files : \A d \in Calls : IsText(f, inode'[f][d])
    BY <1>1 DEF IInv, TextBooks
  <1> QED BY <1>1, <1>2, <1>3, FailsTypes

LEMMA DiskFaultTypes == ASSUME IInv, NEW c \in Calls, DiskFault(c) PROVE IInv'
  <1>1. /\ Fails(c) /\ queue = <<>> /\ pc[c] \in FileOps /\ turn' = 0
        /\ UNCHANGED <<up, store, queue, op, arg, seen, keys, crashes>>
    BY DEF DiskFault, Performs, FileOps
  <1>2. faults' \in 0..MaxFaults
    BY BoundAssumption DEF IInv, TypeOK, DiskFault
  <1>3. /\ DOMAIN inode' = Files /\ \A f \in Files : DOMAIN inode'[f] = Calls
        /\ \A f \in Files : \A d \in Calls : IsText(f, inode'[f][d])
    <2>1. CASE inode' = inode
      BY <2>1 DEF IInv, TextBooks
    <2>2. CASE /\ pc[c] = "write"
               /\ inode' = [inode EXCEPT ![stage[c]][fd[c]] = [ok |-> FALSE, size |-> @.size]]
      <3> DEFINE bad == [ok |-> FALSE, size |-> inode[stage[c]][fd[c]].size]
      <3>1. stage[c] \in Files /\ fd[c] \in Calls
        BY <2>2 DEF IInv, TypeOK, TextBooks
      <3>2. inode' = [inode EXCEPT ![stage[c]] = [inode[stage[c]] EXCEPT ![fd[c]] = bad]]
        BY <2>2, <3>1 DEF IInv, TextBooks
      <3>3. \A f \in Files : IsText(f, bad)
        BY DEF IsText
      <3> HIDE DEF bad
      <3>4. \A g \in Files : \A d \in Calls :
              inode'[g][d] = IF g = stage[c] /\ d = fd[c] THEN bad ELSE inode[g][d]
        BY <3>1, <3>2 DEF IInv, TextBooks
      <3> QED BY <3>1, <3>2, <3>3, <3>4 DEF IInv, TextBooks
    <2> QED BY <2>1, <2>2 DEF DiskFault, Performs
  <1> QED BY <1>1, <1>2, <1>3, FailsTypes

LEMMA CrashTypes == ASSUME IInv, Crash PROVE IInv'
  <1> USE DEF Crash
  <1>1. TypeOK'
    <2>1. tasks' \in [Tasks -> Task] /\ events' \in [Tasks -> Seq(Row)]
      BY DEF NoTasks, NoTask, Task, NoRows
    <2>2. pc' \in [Calls -> Waiting \cup FileOps \cup {"idle", "done", "dead"}]
      BY DEF IInv, TypeOK
    <2>3. /\ queue' \in Seq(Calls) /\ \A i \in DOMAIN queue' : pc'[queue'[i]] \in Waiting
          /\ crashes' \in 0..MaxCrashes /\ turn' \in 0..MaxTurn
          /\ tmp' \in [Files -> Calls \cup {NoInode}]
          /\ fd' \in [Calls -> Calls \cup {NoInode}]
      BY BoundAssumption DEF IInv, TypeOK
    <2> QED BY <2>1, <2>2, <2>3 DEF IInv, TypeOK
  <1>2. tasks' \in ProperTasks
    BY DEF ProperTasks, NoTasks, NoTask, Task
  <1>3. CallBooks'
    BY DEF IInv, CallBooks, TypeOK, InFlight, Waiting, FileOps
  <1>4. QueuedOnce'
    BY DEF QueuedOnce
  <1>5. TextBooks'
    BY DEF IInv, TextBooks, TypeOK, InFlight, Waiting, FileOps
  <1> QED BY <1>1, <1>2, <1>3, <1>4, <1>5 DEF IInv

LEMMA BootTypes == ASSUME IInv, Boot PROVE IInv'
  <1> USE DEF Boot, disk
  <1>1. tasks' \in ProperTasks
    <2>1. CASE main["tasks"] = NoInode
      BY <2>1 DEF OnDisk, ProperTasks, NoTasks, NoTask, Task
    <2>2. CASE main["tasks"] # NoInode
      <3>1. main["tasks"] \in Calls /\ inode["tasks"][main["tasks"]].ok
        BY <2>2 DEF IInv, TypeOK, Readable, Files
      <3>2. inode["tasks"][main["tasks"]].data \in ProperTasks
        BY <3>1 DEF IInv, TextBooks, IsText, Content, Files
      <3> QED BY <2>2, <3>2 DEF OnDisk
    <2> QED BY <2>1, <2>2
  <1>2. events' \in [Tasks -> Seq(Row)]
    <2>1. CASE main["events"] = NoInode
      BY <2>1 DEF OnDisk, NoRows
    <2>2. CASE main["events"] # NoInode
      <3>1. main["events"] \in Calls /\ inode["events"][main["events"]].ok
        BY <2>2 DEF IInv, TypeOK, Readable, Files
      <3>2. inode["events"][main["events"]].data \in Logs
        BY <3>1 DEF IInv, TextBooks, IsText, Content, Files
      <3> QED BY <2>2, <3>2 DEF OnDisk, Logs
    <2> QED BY <2>1, <2>2
  <1>3. TypeOK'
    BY <1>1, <1>2, BoundAssumption DEF IInv, TypeOK, ProperTasks
  <1>4. CallBooks' /\ QueuedOnce'
    BY DEF IInv, CallBooks, QueuedOnce
  <1>5. TextBooks'
    BY DEF IInv, TextBooks
  <1> QED BY <1>1, <1>3, <1>4, <1>5 DEF IInv

LEMMA StutterTypes == ASSUME IInv, UNCHANGED vars PROVE IInv'
  BY DEF IInv, TypeOK, CallBooks, QueuedOnce, TextBooks, vars

LEMMA TypesStep == IInv /\ [Next]_vars => IInv'
  <1> SUFFICES ASSUME IInv, [Next]_vars PROVE IInv'
    OBVIOUS
  <1>1. ASSUME NEW c \in Calls, NEW o \in {"create", "message", "cancel"}, NEW t \in Tasks,
               Call(c, o, t)
        PROVE IInv'
    BY <1>1, CallTypes
  <1>2. ASSUME NEW c \in Calls, Resume(c) PROVE IInv'
    BY <1>2, CreateTaskTypes, CheckTaskTypes, AppendEventTypes, BeginPersistTypes DEF Resume
  <1>3. ASSUME NEW c \in Calls, FileOp(c) PROVE IInv'
    BY <1>3, OpenTempTypes, WriteTempTypes, RenameTempTypes, RenameMissesTypes DEF FileOp
  <1> QED BY <1>1, <1>2, <1>3, DiskFaultTypes, CrashTypes, BootTypes, StutterTypes DEF Next

LEMMA TypesInvariance == Spec => []IInv
  BY InitTypes, TypesStep, PTL DEF Spec

(* Every variable of the store keeps its type, and no call waits twice in  *)
(* the queue, for any number of calls in a turn, in flight, and of crashes.*)
THEOREM TypeCorrect == Spec => []TypeOK
  <1>1. IInv => TypeOK
    BY DEF IInv
  <1> QED BY <1>1, TypesInvariance, PTL
-----------------------------------------------------------------------------
(* No call is forgotten: one that has not come to its files waits in the    *)
(* microtask queue of a living process, at one place.                       *)
Queued(c) == \E i \in DOMAIN queue : queue[i] = c
NoneForgotten ==
    /\ \A c \in Calls : pc[c] \in Waiting => up /\ Queued(c)
    /\ \A c \in Calls : pc[c] \in FileOps => up

LEMMA RestQueued ==
  ASSUME IInv, NoneForgotten, NEW c \in Calls, queue # <<>>, c = Head(queue),
         queue' = Tail(queue) \/ queue' = Append(Tail(queue), c)
  PROVE  /\ \A d \in Calls \ {c} : pc[d] \in Waiting => Queued(d)'
         /\ queue' = Append(Tail(queue), c) => Queued(c)'
  <1> DEFINE rest == Tail(queue)
  <1>1. /\ rest \in Seq(Calls) /\ Len(rest) = Len(queue) - 1 /\ Len(queue) \in Nat
        /\ \A i \in 1..Len(rest) : rest[i] = queue[i + 1]
        /\ DOMAIN rest = 1..Len(rest) /\ DOMAIN queue = 1..Len(queue)
        /\ c = queue[1]
    BY HeadTailProperties, EmptySeq DEF IInv, TypeOK
  <1>r. queue' = rest \/ queue' = Append(rest, c)
    OBVIOUS
  <1> HIDE DEF rest
  <1>2. ASSUME queue' = Append(rest, c)
        PROVE  /\ queue' \in Seq(Calls) /\ Len(queue') = Len(rest) + 1
               /\ \A i \in 1..Len(rest) : queue'[i] = rest[i]
               /\ queue'[Len(rest) + 1] = c
               /\ DOMAIN queue' = 1..(Len(rest) + 1) /\ Len(rest) \in Nat
    BY <1>1, <1>2, AppendProperties
  <1>3. ASSUME NEW d \in Calls \ {c}, pc[d] \in Waiting PROVE Queued(d)'
    <2>1. PICK i \in DOMAIN queue : queue[i] = d
      BY <1>3 DEF NoneForgotten, Queued
    <2>2. i # 1 /\ i - 1 \in 1..Len(rest) /\ (i - 1) + 1 = i
      BY <1>1, <2>1
    <2>3. rest[i - 1] = d
      BY <1>1, <2>1, <2>2
    <2>4. i - 1 \in DOMAIN queue' /\ queue'[i - 1] = d
      BY <1>r, <1>1, <1>2, <2>2, <2>3
    <2> QED BY <2>4 DEF Queued
  <1>4. ASSUME queue' = Append(rest, c) PROVE Queued(c)'
    <2>1. Len(rest) + 1 \in DOMAIN queue' /\ queue'[Len(rest) + 1] = c
      BY <1>2, <1>4
    <2> QED BY <2>1 DEF Queued
  <1> QED BY <1>3, <1>4 DEF rest

LEMMA ForgottenStep == IInv /\ NoneForgotten /\ [Next]_vars => NoneForgotten'
  <1> SUFFICES ASSUME IInv, NoneForgotten, [Next]_vars PROVE NoneForgotten'
    OBVIOUS
  <1>1. ASSUME NEW c \in Calls, NEW o \in {"create", "message", "cancel"}, NEW t \in Tasks,
               Call(c, o, t)
        PROVE NoneForgotten'
    <2>1. /\ up /\ up' /\ queue' = Append(queue, c) /\ pc' = [pc EXCEPT ![c] = "resume"]
          /\ queue \in Seq(Calls)
      BY <1>1 DEF Call, IInv, TypeOK
    <2>2. /\ \A i \in 1..Len(queue) : queue'[i] = queue[i]
          /\ queue'[Len(queue) + 1] = c
          /\ DOMAIN queue' = 1..(Len(queue) + 1) /\ DOMAIN queue = 1..Len(queue)
          /\ Len(queue) \in Nat
      BY <2>1, AppendProperties
    <2>3. Queued(c)' /\ \A d \in Calls : Queued(d) => Queued(d)'
      <3>1. Len(queue) + 1 \in DOMAIN queue' /\ \A i \in DOMAIN queue : i \in DOMAIN queue'
        BY <2>2
      <3> QED BY <2>2, <3>1 DEF Queued
    <2>4. pc'[c] = "resume" /\ \A d \in Calls \ {c} : pc'[d] = pc[d]
      BY <2>1 DEF IInv, TypeOK
    <2> QED BY <2>1, <2>3, <2>4 DEF NoneForgotten, FileOps
  <1>2. ASSUME NEW c \in Calls, Resume(c) PROVE NoneForgotten'
    <2>1. /\ up /\ up' /\ queue # <<>> /\ c = Head(queue)
          /\ \/ queue' = Append(Tail(queue), c)
             \/ queue' = Tail(queue) /\ pc'[c] \notin Waiting
          /\ \A d \in Calls \ {c} : pc'[d] = pc[d]
      BY <1>2 DEF Resume, CreateTask, CheckTask, AppendEvent, BeginPersist, Resumes, Awaits, Returns,
                  Waiting, IInv, TypeOK
    <2> QED BY <2>1, RestQueued DEF NoneForgotten
  <1>3. ASSUME NEW c \in Calls, FileOp(c) \/ DiskFault(c) PROVE NoneForgotten'
    <2>1. /\ up /\ up' /\ queue' = queue /\ pc[c] \in FileOps
          /\ \E p \in FileOps \cup {"done"} : pc' = [pc EXCEPT ![c] = p]
      BY <1>3 DEF FileOp, OpenTemp, WriteTemp, RenameTemp, RenameMisses, DiskFault, Fails, Answers,
                  Performs, FileOps
    <2>2. pc'[c] \notin Waiting /\ \A d \in Calls \ {c} : pc'[d] = pc[d]
      BY <2>1 DEF IInv, TypeOK, FileOps, Waiting
    <2> QED BY <2>1, <2>2 DEF NoneForgotten, Queued
  <1>4. CASE Crash
    <2>1. \A c \in Calls : pc'[c] \notin Waiting \cup FileOps
      BY <1>4 DEF Crash, InFlight, Waiting, FileOps
    <2> QED BY <2>1 DEF NoneForgotten
  <1>5. CASE Boot
    BY <1>5 DEF Boot, NoneForgotten, Queued
  <1>6. CASE UNCHANGED vars
    BY <1>6 DEF vars, NoneForgotten, Queued
  <1> QED BY <1>1, <1>2, <1>3, <1>4, <1>5, <1>6 DEF Next

(* However many calls share a turn, fail in their files or are cut off by   *)
(* crashes: the living process always has a continuation for each call it   *)
(* has not answered.                                                        *)
THEOREM CallsKept == Spec => []NoneForgotten
  <1>1. Init => NoneForgotten
    BY DEF Init, NoneForgotten, Waiting, FileOps
  <1> QED BY <1>1, ForgottenStep, TypesInvariance, PTL DEF Spec
-----------------------------------------------------------------------------
(* The files, however calls overlap.                                       *)

(* A call that has not opened a file of a kind owns no inode of that kind. *)
Unopened(c, f) == \/ pc[c] \in {"idle"} \cup Waiting
                  \/ pc[c] \in FileOps /\ stage[c] = "tasks" /\ f = "events"
                  \/ pc[c] = "open" /\ stage[c] = f

(* A name that is free or temporary is where a text is opened; a process   *)
(* that is down has no temporary files of a living one.                    *)
NameBooks ==
    /\ \A f \in Files : tmp[f] # NoInode => tmp[f] # main[f]
    /\ \A c \in Calls : \A f \in Files : Unopened(c, f) => main[f] # c /\ tmp[f] # c
    /\ ~up => \A f \in Files : tmp[f] = NoInode

(* A task has one call that creates it, and a call comes to appendEvent    *)
(* for a task it found and found open.                                     *)
CallOrder ==
    /\ \A c, d \in Calls : op[c] = "create" /\ op[d] = "create" /\ arg[c] = arg[d] => c = d
    /\ \A c \in Calls : pc[c] = "append" => tasks[arg[c]] # NoTask /\ seen[c] # "canceled"

DiskTasks == OnDisk("tasks", NoTasks)
DiskRows  == OnDisk("events", NoRows)

(* A log says of its task that it is there, and canceled.                  *)
Covers(ts, rows) ==
    \A t \in Tasks : \A i \in DOMAIN rows[t] :
        /\ ts[t] # NoTask
        /\ rows[t][i].status = "canceled" => ts[t].status = "canceled"

(* A task comes from a call that named it.                                 *)
Begun(t) == \E c \in Calls : pc[c] # "idle" /\ arg[c] = t

(* Whose the events of a log are, and that nothing follows a cancellation. *)
RowBooks(rows) ==
    \A t \in Tasks : \A i \in DOMAIN rows[t] :
        /\ arg[rows[t][i].by] = t
        /\ pc[rows[t][i].by] \notin {"idle", "resume", "append"}
        /\ \A j \in DOMAIN rows[t] : rows[t][j].by = rows[t][i].by => j = i
        /\ rows[t][i].type = "task.canceled" =>
              i = Len(rows[t]) /\ rows[t][i].status = "canceled"

(* What a call has made of the tasks and the events, wherever they are.    *)
HasMade(c, ts, rows) ==
    /\ ts[arg[c]] # NoTask
    /\ op[c] = "cancel" => ts[arg[c]].status = "canceled"
    /\ \E i \in DOMAIN rows[arg[c]] : rows[arg[c]][i].by = c

(* The maps, until something is lost: the logs are closed and covered, and *)
(* a living process holds whatever it acknowledged or is about to write.   *)
MapBooks ==
    /\ Covers(tasks, events) /\ RowBooks(events)
    /\ \A t \in Tasks : tasks[t] # NoTask => Begun(t)
    /\ \A c \in Calls : pc[c] = "resume" /\ op[c] = "create" => tasks[arg[c]] = NoTask
    /\ up => \A c \in Calls : c \in Writers \/ reply[c] = "ok" => HasMade(c, tasks, events)

(* A text is no further than the maps.                                     *)
PastTasks(ts) ==
    \A t \in Tasks : /\ ts[t] # NoTask => tasks[t] # NoTask
                     /\ ts[t].status = "canceled" => tasks[t].status = "canceled"
PastRows(rows) ==
    \A t \in Tasks : \A i \in DOMAIN rows[t] : i \in DOMAIN events[t] /\ events[t][i] = rows[t][i]
Past(f, x) == x.ok => IF f = "tasks" THEN PastTasks(x.data) ELSE PastRows(x.data)

(* ... neither those behind the files' names nor those about to be written *)
(* there.                                                                  *)
PastBooks ==
    /\ \A f \in Files : \A c \in Calls : c \in {main[f], tmp[f]} => Past(f, inode[f][c])
    /\ \A c \in Calls : pc[c] \in {"open", "write"} => Past(stage[c], draft[c])

(* A call that has the store to itself writes what the maps hold, the      *)
(* tasks first, behind a name nobody else writes to.                       *)
WritesAlone(c) ==
    /\ pc[c] \in FileOps =>
         /\ keys[c] = {t \in Tasks : events[t] # <<>>}
         /\ draft[c].ok
         /\ stage[c] = "tasks" => draft[c].data = tasks
         /\ stage[c] = "events" => draft[c].data = events /\ Readable("tasks") /\ DiskTasks = tasks
    /\ pc[c] = "write" => /\ fd[c] # NoInode /\ fd[c] = tmp[stage[c]]
                          /\ inode[stage[c]][fd[c]] = NoContent
    /\ pc[c] = "rename" => /\ tmp[stage[c]] # NoInode
                           /\ inode[stage[c]][tmp[stage[c]]] = draft[c]

(* The files, while they are to be trusted; when no process is up the next *)
(* one will take them for its maps.                                        *)
DiskBooks ==
    /\ DiskReadable /\ Covers(DiskTasks, DiskRows)
    /\ \A c \in Calls : reply[c] = "ok" => HasMade(c, DiskTasks, DiskRows)
    /\ ~up => RowBooks(DiskRows) /\ \A t \in Tasks : DiskTasks[t] # NoTask => Begun(t)

(* The history: only the one writer writes alone, the files are worth      *)
(* their name as long as nobody else does, and a death decides.            *)
HistoryBooks ==
    /\ HistoryTypeOK
    /\ \A c \in alone : Writers = {c}
    /\ trust = "whole" => Writers \subseteq alone
    /\ trust = "shared" => up

Books == /\ IInv /\ NoneForgotten /\ NameBooks /\ CallOrder /\ HistoryBooks
         /\ trust # "lost" => MapBooks
         /\ trust # "lost" /\ up => PastBooks
         /\ \A c \in alone : WritesAlone(c)
         /\ trust = "whole" => DiskBooks
-----------------------------------------------------------------------------
LEMMA InitBooks == HInit => Books
  <1> SUFFICES ASSUME HInit PROVE Books OBVIOUS
  <1> USE DEF HInit, Init
  <1>d. DiskTasks = NoTasks /\ DiskRows = NoRows /\ DiskReadable
    BY DEF DiskTasks, DiskRows, OnDisk, Files, DiskReadable, Readable
  <1>w. Writers = {}
    BY DEF Writers, FileOps
  <1>1. IInv /\ NoneForgotten
    BY InitTypes DEF NoneForgotten, Waiting, FileOps
  <1>2. NameBooks /\ CallOrder
    BY NoInodeAssumption DEF NameBooks, CallOrder
  <1>3. HistoryBooks
    BY <1>w DEF HistoryBooks, HistoryTypeOK
  <1>4. MapBooks
    BY <1>w DEF MapBooks, Covers, RowBooks, NoTasks, NoRows
  <1>5. PastBooks
    BY NoInodeAssumption DEF PastBooks
  <1>6. DiskBooks
    BY <1>d DEF DiskBooks, Covers, NoRows
  <1> QED BY <1>1, <1>2, <1>3, <1>4, <1>5, <1>6 DEF Books

(* The steps of the store by what they touch.                              *)
LEMMA NamesStep == IInv /\ NoneForgotten /\ NameBooks /\ [Next]_vars => NameBooks'
  <1> SUFFICES ASSUME IInv, NoneForgotten, NameBooks, [Next]_vars PROVE NameBooks'
    OBVIOUS
  <1>1. ASSUME UNCHANGED <<main, tmp>>, up' = up,
               \A d \in Calls : \A f \in Files : Unopened(d, f)' => Unopened(d, f)
        PROVE  NameBooks'
    BY <1>1 DEF NameBooks
  <1>2. ASSUME NEW c \in Calls, NEW o \in {"create", "message", "cancel"}, NEW t \in Tasks,
               Call(c, o, t)
        PROVE  NameBooks'
    <2>1. \A d \in Calls : \A f \in Files : Unopened(d, f)' => Unopened(d, f)
      BY <1>2 DEF Call, IInv, TypeOK, Unopened, FileOps, Waiting
    <2> QED BY <1>1, <1>2, <2>1 DEF Call, disk
  <1>3. ASSUME NEW c \in Calls, Resume(c) PROVE NameBooks'
    <2>1. /\ UNCHANGED <<up, main, tmp>> /\ pc[c] \in Waiting
          /\ \A d \in Calls \ {c} : pc'[d] = pc[d] /\ stage'[d] = stage[d]
      BY <1>3 DEF Resume, CreateTask, CheckTask, AppendEvent, BeginPersist, Resumes, Awaits, Returns,
                  Waiting, IInv, TypeOK, disk
    <2>2. \A d \in Calls : \A f \in Files : Unopened(d, f)' => Unopened(d, f)
      <3> SUFFICES ASSUME NEW d \in Calls, NEW f \in Files, Unopened(d, f)' PROVE Unopened(d, f)
        OBVIOUS
      <3>1. CASE d = c
        BY <2>1, <3>1 DEF Unopened
      <3>2. CASE d # c
        BY <2>1, <3>2 DEF Unopened
      <3> QED BY <3>1, <3>2
    <2> QED BY <1>1, <2>1, <2>2
  <1>4. ASSUME NEW c \in Calls, OpenTemp(c) PROVE NameBooks'
    <2> DEFINE f == stage[c]
               i == TempInode(f, c)
    <2>1. /\ f \in Files /\ i \in Calls /\ pc[c] = "open" /\ up /\ up'
          /\ tmp' = [tmp EXCEPT ![f] = i] /\ UNCHANGED <<main, stage>>
          /\ pc' = [pc EXCEPT ![c] = "write"]
      BY <1>4 DEF OpenTemp, Performs, IInv, TypeOK, TempInode
    <2>2. Unopened(c, f)
      BY <2>1 DEF Unopened
    <2>3. i # main[f] /\ i # NoInode
      BY <2>1, <2>2, NoInodeAssumption DEF NameBooks, TempInode
    <2>4. tmp'[f] = i /\ \A g \in Files : g # f => tmp'[g] = tmp[g]
      BY <2>1 DEF IInv, TypeOK
    <2>5. \A d \in Calls \ {c} : tmp[f] # d => i # d
      BY DEF TempInode
    <2>6. /\ \A g \in Files : Unopened(c, g)' => Unopened(c, g) /\ g # f
          /\ \A d \in Calls \ {c} : \A g \in Files : Unopened(d, g)' => Unopened(d, g)
      BY <2>1 DEF Unopened, IInv, TypeOK, FileOps, Waiting
    <2> HIDE DEF i
    <2> QED BY <2>1, <2>3, <2>4, <2>5, <2>6 DEF NameBooks
  <1>5. ASSUME NEW c \in Calls, RenameTemp(c) PROVE NameBooks'
    <2> DEFINE f == stage[c]
    <2>1. /\ f \in Files /\ pc[c] = "rename" /\ tmp[f] # NoInode /\ up /\ up'
          /\ main' = [main EXCEPT ![f] = tmp[f]] /\ tmp' = [tmp EXCEPT ![f] = NoInode]
          /\ \/ /\ f = "tasks" /\ pc' = [pc EXCEPT ![c] = "open"]
                /\ stage' = [stage EXCEPT ![c] = "events"]
             \/ f = "events" /\ pc' = [pc EXCEPT ![c] = "done"] /\ stage' = stage
      BY <1>5 DEF RenameTemp, Performs, Answers, IInv, TypeOK
    <2>2. /\ main'[f] = tmp[f] /\ tmp'[f] = NoInode
          /\ \A g \in Files : g # f => main'[g] = main[g] /\ tmp'[g] = tmp[g]
      BY <2>1 DEF IInv, TypeOK
    <2>3. ASSUME NEW d \in Calls, NEW g \in Files, Unopened(d, g)'
          PROVE  Unopened(d, g) /\ (d = c => g # f)
      <3>1. CASE d = c
        <4>1. f = "tasks" /\ pc'[c] = "open" /\ stage'[c] = "events"
          BY <2>1, <2>3, <3>1 DEF Unopened, IInv, TypeOK, FileOps, Waiting
        <4>2. g = "events"
          BY <2>3, <3>1, <4>1 DEF Unopened, Waiting, FileOps
        <4> QED BY <2>1, <3>1, <4>1, <4>2 DEF Unopened, FileOps
      <3>2. CASE d # c
        BY <2>1, <2>3, <3>2 DEF Unopened, IInv, TypeOK
      <3> QED BY <3>1, <3>2
    <2>4. \A d \in Calls : d # NoInode
      BY NoInodeAssumption
    <2> QED BY <2>1, <2>2, <2>3, <2>4 DEF NameBooks
  <1>6. ASSUME NEW c \in Calls, WriteTemp(c) \/ RenameMisses(c) \/ DiskFault(c) PROVE NameBooks'
    <2>1. /\ UNCHANGED <<up, main, tmp, stage>> /\ pc[c] \in FileOps
          /\ \E p \in {"rename", "done"} : pc' = [pc EXCEPT ![c] = p]
          /\ pc' = [pc EXCEPT ![c] = "rename"] => pc[c] = "write"
      BY <1>6 DEF WriteTemp, RenameMisses, DiskFault, Fails, Answers, Performs, FileOps, IInv, TypeOK
    <2>2. \A d \in Calls : \A f \in Files : Unopened(d, f)' => Unopened(d, f)
      <3> SUFFICES ASSUME NEW d \in Calls, NEW f \in Files, Unopened(d, f)' PROVE Unopened(d, f)
        OBVIOUS
      <3>1. CASE d = c
        BY <2>1, <3>1 DEF Unopened, IInv, TypeOK, FileOps, Waiting
      <3>2. CASE d # c
        BY <2>1, <3>2 DEF Unopened, IInv, TypeOK
      <3> QED BY <3>1, <3>2
    <2> QED BY <1>1, <2>1, <2>2
  <1>7. CASE Crash
    <2>1. \A d \in Calls : \A f \in Files : Unopened(d, f)' => Unopened(d, f) /\ d # NoInode
      BY <1>7, NoInodeAssumption DEF Crash, Unopened, Waiting, FileOps, InFlight
    <2> QED BY <1>7, <2>1 DEF Crash, NameBooks
  <1>8. CASE Boot
    BY <1>8 DEF Boot, NameBooks, Unopened, disk
  <1>9. CASE UNCHANGED vars
    BY <1>9 DEF vars, NameBooks, Unopened
  <1> QED BY <1>2, <1>3, <1>4, <1>5, <1>6, <1>7, <1>8, <1>9 DEF Next, FileOp

LEMMA OrderStep == IInv /\ NoneForgotten /\ CallOrder /\ [Next]_vars => CallOrder'
  <1> SUFFICES ASSUME IInv, NoneForgotten, CallOrder, [Next]_vars PROVE CallOrder'
    OBVIOUS
  <1>1. ASSUME NEW c \in Calls, NEW o \in {"create", "message", "cancel"}, NEW t \in Tasks,
               Call(c, o, t)
        PROVE  CallOrder'
    <2>1. /\ \A d \in Calls \ {c} : arg'[d] = arg[d] /\ op'[d] = op[d] /\ pc'[d] = pc[d]
          /\ arg'[c] = t /\ op'[c] = o /\ pc'[c] = "resume"
          /\ tasks' = tasks /\ seen' = seen
          /\ o = "create" => \A d \in Calls : arg[d] # t
      BY <1>1 DEF Call, store, IInv, TypeOK
    <2> QED BY <2>1 DEF CallOrder
  <1>2. ASSUME UNCHANGED <<op, arg, tasks, seen>>, \A c \in Calls : pc'[c] = "append" => pc[c] = "append"
        PROVE  CallOrder'
    BY <1>2 DEF CallOrder
  <1>3. ASSUME NEW c \in Calls, CreateTask(c) \/ AppendEvent(c) PROVE CallOrder'
    <2>1. /\ UNCHANGED <<op, arg, seen>> /\ pc' = [pc EXCEPT ![c] = "persist"]
          /\ arg[c] \in Tasks
          /\ \E x \in Task : x # NoTask /\ tasks' = [tasks EXCEPT ![arg[c]] = x]
      <3>1. /\ UNCHANGED <<op, arg, seen>> /\ pc' = [pc EXCEPT ![c] = "persist"]
            /\ arg[c] \in Tasks
        BY <1>3 DEF CreateTask, AppendEvent, Resumes, Awaits, IInv, CallBooks
      <3>2. /\ op[c] \in {"create", "message", "cancel"}
            /\ pc[c] = "append" => op[c] \in {"message", "cancel"} /\ seen[c] \in {"accepted", "canceled"}
        BY <1>3 DEF CreateTask, AppendEvent, Resumes, IInv, CallBooks
      <3>3. Summary(c) \in {"task accepted", "message accepted", "task canceled"}
        BY <3>2, EventTypes
      <3>4. CASE CreateTask(c)
        <4>1. [status |-> "accepted", summary |-> Summary(c)] \in Task
              /\ [status |-> "accepted", summary |-> Summary(c)] # NoTask
          BY <3>3 DEF Task, NoTask
        <4> QED BY <3>1, <3>4, <4>1 DEF CreateTask
      <3>5. CASE AppendEvent(c)
        <4>0. RowStatus(c) \in {"accepted", "canceled"}
          BY <3>2, <3>5 DEF RowStatus, AppendEvent, Resumes
        <4>1. [status |-> RowStatus(c), summary |-> Summary(c)] \in Task
              /\ [status |-> RowStatus(c), summary |-> Summary(c)] # NoTask
          BY <3>3, <4>0 DEF Task, NoTask
        <4> QED BY <3>1, <3>5, <4>1 DEF AppendEvent, TaskStatus
      <3> QED BY <1>3, <3>4, <3>5
    <2>2. \A t \in Tasks : tasks[t] # NoTask => tasks'[t] # NoTask
      BY <2>1 DEF IInv, TypeOK
    <2>3. \A d \in Calls : pc'[d] = "append" => pc[d] = "append" /\ arg[d] \in Tasks
      BY <2>1 DEF IInv, TypeOK, CallBooks
    <2> QED BY <2>1, <2>2, <2>3 DEF CallOrder
  <1>4. ASSUME NEW c \in Calls, CheckTask(c) PROVE CallOrder'
    <2>1. /\ UNCHANGED <<op, arg, tasks>>
          /\ \A d \in Calls \ {c} : pc'[d] = pc[d] /\ seen'[d] = seen[d]
          /\ pc'[c] = "append" => /\ tasks[arg[c]] # NoTask
                                  /\ seen'[c] = tasks[arg[c]].status /\ seen'[c] # "canceled"
      BY <1>4 DEF CheckTask, Resumes, Returns, Awaits, IsTerminal, store, IInv, TypeOK
    <2> QED BY <2>1 DEF CallOrder
  <1>5. ASSUME NEW c \in Calls, BeginPersist(c) \/ FileOp(c) \/ DiskFault(c) PROVE CallOrder'
    <2>1. /\ UNCHANGED <<op, arg, tasks, seen>>
          /\ \E p \in FileOps \cup {"done"} : pc' = [pc EXCEPT ![c] = p]
      BY <1>5 DEF BeginPersist, Resumes, FileOp, OpenTemp, WriteTemp, RenameTemp, RenameMisses, DiskFault, Fails, Answers,
                  Performs, FileOps, store
    <2> QED BY <1>2, <2>1 DEF IInv, TypeOK, FileOps
  <1>6. CASE Crash
    <2>1. \A c \in Calls : pc'[c] # "append"
      BY <1>6 DEF Crash, InFlight, Waiting, FileOps, IInv, TypeOK
    <2> QED BY <1>6, <2>1 DEF Crash, CallOrder
  <1>7. CASE Boot
    BY <1>7 DEF Boot, CallOrder, NoneForgotten, Waiting
  <1>8. CASE UNCHANGED vars
    BY <1>2, <1>8 DEF vars
  <1> QED BY <1>1, <1>3, <1>4, <1>5, <1>6, <1>7, <1>8 DEF Next, Resume
-----------------------------------------------------------------------------
(* What the history says of a step.                                        *)
LEMMA Judged ==
  ASSUME HistoryTypeOK, Records
  PROVE  /\ trust' # "lost" => trust # "lost" /\ ~PushesStale /\ ~DiesShared
         /\ trust' = "whole" => ~Overlapping' /\ (trust = "whole" \/ \E c \in alone : reply'[c] = "ok")
         /\ trust' = "shared" => Overlapping' \/ (trust = "shared" /\ ~DiesShared)
         /\ \A c \in alone' : c \in Calls /\ Writers' = {c} /\ (c \in alone \/ c \notin Writers)
         /\ \A c \in Calls : Writers' = {c} /\ (c \in alone \/ c \notin Writers) => c \in alone'
  <1> DEFINE ok == \E c \in alone : reply'[c] = "ok"
             over == Overlapping'
             bad == trust = "lost" \/ PushesStale \/ DiesShared
  <1>1. trust' = IF bad THEN "lost" ELSE IF over THEN "shared" ELSE IF ok THEN "whole" ELSE trust
    BY DEF Records
  <1>2. \A c : c \in alone' <=> c \in Calls /\ Writers' = {c} /\ (c \in alone \/ c \notin Writers)
    BY DEF Records
  <1> HIDE DEF ok, over, bad
  <1>3. /\ trust' # "lost" => ~bad
        /\ trust' = "whole" => ~over /\ (trust = "whole" \/ ok)
        /\ trust' = "shared" => over \/ trust = "shared"
        /\ bad => trust' = "lost"
    BY <1>1 DEF HistoryTypeOK
  <1>4. trust' = "shared" => ~bad
    BY <1>1
  <1> QED BY <1>2, <1>3, <1>4 DEF ok, over, bad

LEMMA WritersAreUp == ASSUME NoneForgotten, ~up PROVE Writers = {}
  BY DEF NoneForgotten, Writers, Waiting

LEMMA HistoryStep ==
  ASSUME IInv', NoneForgotten, NoneForgotten', HistoryBooks, Records PROVE HistoryBooks'
  <1>j. /\ trust' = "whole" => ~Overlapping' /\ (trust = "whole" \/ \E c \in alone : reply'[c] = "ok")
        /\ trust' = "shared" => Overlapping' \/ (trust = "shared" /\ ~DiesShared)
        /\ \A c \in alone' : c \in Calls /\ Writers' = {c} /\ (c \in alone \/ c \notin Writers)
        /\ \A c \in Calls : Writers' = {c} /\ (c \in alone \/ c \notin Writers) => c \in alone'
    BY Judged DEF HistoryBooks
  <1>1. HistoryTypeOK'
    <2>1. trust' \in {"whole", "shared", "lost"}
      BY DEF HistoryBooks, HistoryTypeOK, Records
    <2> QED BY <1>j, <2>1 DEF HistoryTypeOK
  <1>2. ASSUME trust' = "whole", NEW w \in Writers' PROVE w \in alone'
    <2>1. w \in Calls /\ Writers' = {w}
      BY <1>j, <1>2 DEF Overlapping, Writers
    <2>2. CASE trust = "whole"
      BY <1>j, <2>1, <2>2 DEF HistoryBooks
    <2>3. CASE \E c \in alone : reply'[c] = "ok"
      <3>1. PICK c \in alone : reply'[c] = "ok"
        BY <2>3
      <3>2. c \in Calls /\ Writers = {c}
        BY DEF HistoryBooks, HistoryTypeOK
      <3>3. pc'[c] = "done"
        BY <3>1, <3>2 DEF IInv, CallBooks
      <3>4. w # c
        BY <3>3 DEF Writers, FileOps
      <3> QED BY <1>j, <2>1, <3>2, <3>4
    <2> QED BY <1>j, <1>2, <2>2, <2>3
  <1>3. ASSUME trust' = "shared" PROVE up'
    <2>1. Writers' # {} => up'
      BY DEF NoneForgotten, Writers, Waiting
    <2>2. Overlapping' => Writers' # {}
      BY DEF Overlapping
    <2> QED BY <1>j, <1>3, <2>1, <2>2 DEF HistoryBooks, DiesShared
  <1> QED BY <1>1, <1>2, <1>3, <1>j DEF HistoryBooks
-----------------------------------------------------------------------------
(* The maps.                                                               *)
LEMMA RowsByCalls ==
  ASSUME TypeOK PROVE \A t \in Tasks : \A i \in DOMAIN events[t] : events[t][i].by \in Calls
  <1> SUFFICES ASSUME NEW t \in Tasks, NEW i \in DOMAIN events[t] PROVE events[t][i].by \in Calls
    OBVIOUS
  <1>1. events[t] \in Seq(Row)
    BY DEF TypeOK
  <1>2. events[t][i] \in Row
    BY <1>1
  <1> QED BY <1>2 DEF Row

(* The rows of a map that no step has touched.                             *)
LEMMA RowsKept ==
  ASSUME NEW rows, RowBooks(rows), \A t \in Tasks : \A i \in DOMAIN rows[t] : rows[t][i].by \in Calls,
         \A c \in Calls : pc[c] \notin {"idle", "resume", "append"} =>
            arg'[c] = arg[c] /\ pc'[c] \notin {"idle", "resume", "append"}
  PROVE  \A t \in Tasks : \A i \in DOMAIN rows[t] :
        /\ arg'[rows[t][i].by] = t
        /\ pc'[rows[t][i].by] \notin {"idle", "resume", "append"}
        /\ \A j \in DOMAIN rows[t] : rows[t][j].by = rows[t][i].by => j = i
        /\ rows[t][i].type = "task.canceled" =>
              i = Len(rows[t]) /\ rows[t][i].status = "canceled"
  BY DEF RowBooks

LEMMA CallMaps ==
  ASSUME IInv, MapBooks, NEW c \in Calls, NEW o \in {"create", "message", "cancel"}, NEW t \in Tasks,
         Call(c, o, t)
  PROVE  MapBooks'
  <1>1. /\ \A d \in Calls \ {c} : arg'[d] = arg[d] /\ op'[d] = op[d] /\ pc'[d] = pc[d]
        /\ arg'[c] = t /\ op'[c] = o /\ pc'[c] = "resume" /\ pc[c] = "idle" /\ reply[c] = "none"
        /\ up /\ tasks' = tasks /\ events' = events /\ reply' = reply
        /\ o = "create" => \A d \in Calls : arg[d] # t
    BY DEF Call, store, IInv, TypeOK, CallBooks
  <1>2. RowBooks(events)'
    <2>1. \A d \in Calls : pc[d] \notin {"idle", "resume", "append"} =>
            arg'[d] = arg[d] /\ pc'[d] \notin {"idle", "resume", "append"}
      BY <1>1
    <2> QED BY <1>1, <2>1, RowsByCalls, RowsKept DEF IInv, MapBooks, RowBooks
  <1>3. \A u \in Tasks : Begun(u) => Begun(u)'
    BY <1>1 DEF Begun
  <1>4. o = "create" => tasks[t] = NoTask
    BY <1>1 DEF MapBooks, Begun
  <1>5. \A d \in Calls : d \in Writers' \/ reply'[d] = "ok" => d # c /\ (d \in Writers \/ reply[d] = "ok")
    BY <1>1 DEF Writers, FileOps
  <1> QED BY <1>1, <1>2, <1>3, <1>4, <1>5 DEF MapBooks, Covers, HasMade

(* A step of a living process that leaves the maps and whose tasks the     *)
(* calls are for.                                                          *)
LEMMA MapsStay ==
  ASSUME IInv, MapBooks, up, UNCHANGED <<op, arg, tasks, events>>,
         \A c \in Calls : pc[c] \notin {"idle", "resume", "append"} =>
             pc'[c] \notin {"idle", "resume", "append"},
         \A c \in Calls : pc[c] # "idle" => pc'[c] # "idle",
         \A c \in Calls : pc'[c] = "resume" => pc[c] = "resume",
         \A c \in Calls : c \in Writers' \/ reply'[c] = "ok" => c \in Writers \/ reply[c] = "ok"
  PROVE  MapBooks'
  <1>1. RowBooks(events)'
    BY RowsByCalls, RowsKept DEF IInv, MapBooks, RowBooks
  <1>2. \A u \in Tasks : Begun(u) => Begun(u)'
    BY DEF Begun
  <1> QED BY <1>1, <1>2 DEF MapBooks, Covers, HasMade

LEMMA CreateTaskMaps ==
  ASSUME IInv, CallOrder, MapBooks, NEW c \in Calls, CreateTask(c) PROVE MapBooks'
  <1> DEFINE t == arg[c]
             row == [type |-> EventType(c), status |-> "accepted", by |-> c]
             task == [status |-> "accepted", summary |-> Summary(c)]
  <1>1. /\ t \in Tasks /\ op[c] = "create" /\ pc[c] = "resume" /\ up /\ up'
        /\ UNCHANGED <<op, arg, reply>> /\ pc' = [pc EXCEPT ![c] = "persist"]
    BY DEF CreateTask, Resumes, Awaits, IInv, CallBooks
  <1>2. /\ pc'[c] = "persist" /\ \A d \in Calls \ {c} : pc'[d] = pc[d]
        /\ row.by = c /\ row.type = "task.accepted" /\ row.status = "accepted"
        /\ task # NoTask /\ task.status = "accepted" /\ tasks[t] = NoTask
    BY <1>1 DEF IInv, TypeOK, EventType, NoTask, MapBooks
  <1>3. \A u \in Tasks : /\ tasks'[u] = IF u = t THEN task ELSE tasks[u]
                         /\ events'[u] = IF u = t THEN <<row>> ELSE events[u]
    BY <1>1 DEF CreateTask, IInv, TypeOK
  <1>4. DOMAIN <<row>> = {1} /\ <<row>>[1] = row /\ Len(<<row>>) = 1
    OBVIOUS
  <1> HIDE DEF row, task, t
  <1>5. Covers(tasks, events)'
    BY <1>2, <1>3, <1>4 DEF MapBooks, Covers
  <1>6. RowBooks(events)'
    <2> SUFFICES ASSUME NEW u \in Tasks, NEW i \in DOMAIN events'[u]
        PROVE  /\ arg'[events'[u][i].by] = u
               /\ pc'[events'[u][i].by] \notin {"idle", "resume", "append"}
               /\ \A j \in DOMAIN events'[u] : events'[u][j].by = events'[u][i].by => j = i
               /\ events'[u][i].type = "task.canceled" =>
                     i = Len(events'[u]) /\ events'[u][i].status = "canceled"
      BY DEF RowBooks
    <2>1. CASE u = t
      BY <1>1, <1>2, <1>3, <1>4, <2>1 DEF t
    <2>2. CASE u # t
      <3>1. events'[u] = events[u] /\ events[u][i].by \in Calls
        BY <1>3, <2>2, RowsByCalls DEF IInv
      <3> QED BY <1>1, <1>2, <3>1 DEF MapBooks, RowBooks
    <2> QED BY <2>1, <2>2
  <1>7. \A u \in Tasks : tasks'[u] # NoTask => Begun(u)'
    <2>1. \A u \in Tasks : Begun(u) => Begun(u)'
      BY <1>1, <1>2 DEF Begun
    <2>2. \A u \in Tasks : u = t => Begun(u)'
      BY <1>1, <1>2 DEF Begun, t
    <2> QED BY <1>3, <2>1, <2>2 DEF MapBooks
  <1>8. ASSUME NEW d \in Calls, pc'[d] = "resume", op'[d] = "create" PROVE tasks'[arg'[d]] = NoTask
    <2>1. d # c /\ pc[d] = "resume" /\ op[d] = "create" /\ arg[d] \in Tasks
      BY <1>1, <1>2, <1>8 DEF IInv, CallBooks
    <2>2. arg[d] # t
      BY <1>1, <2>1 DEF CallOrder, t
    <2> QED BY <1>1, <1>3, <2>1, <2>2 DEF MapBooks
  <1>9. ASSUME NEW d \in Calls, d \in Writers' \/ reply'[d] = "ok" PROVE HasMade(d, tasks, events)'
    <2>1. CASE d = c
      BY <1>1, <1>2, <1>3, <1>4, <2>1 DEF HasMade, t
    <2>2. CASE d # c
      <3>1. /\ d \in Writers \/ reply[d] = "ok"
            /\ arg[d] \in Tasks
        BY <1>1, <1>2, <1>9, <2>2 DEF Writers, FileOps, IInv, CallBooks
      <3>2. HasMade(d, tasks, events)
        BY <1>1, <3>1 DEF MapBooks
      <3>3. arg[d] # t
        BY <1>2, <3>2 DEF HasMade
      <3> QED BY <1>1, <1>3, <3>1, <3>2, <3>3 DEF HasMade
    <2> QED BY <2>1, <2>2
  <1> QED BY <1>5, <1>6, <1>7, <1>8, <1>9 DEF MapBooks

LEMMA AppendEventMaps ==
  ASSUME IInv, CallOrder, MapBooks, NEW c \in Calls, AppendEvent(c), ~PushesStale PROVE MapBooks'
  <1> DEFINE t == arg[c]
             row == [type |-> EventType(c), status |-> RowStatus(c), by |-> c]
             task == [status |-> RowStatus(c), summary |-> Summary(c)]
             old == events[arg[c]]
             n == Len(old) + 1
  <1>1. /\ t \in Tasks /\ op[c] \in {"message", "cancel"} /\ pc[c] = "append" /\ up /\ up'
        /\ seen[c] \in {"accepted", "canceled"}
        /\ UNCHANGED <<op, arg, reply>> /\ pc' = [pc EXCEPT ![c] = "persist"]
    BY DEF AppendEvent, Resumes, Awaits, IInv, CallBooks
  <1>2. pc'[c] = "persist" /\ \A d \in Calls \ {c} : pc'[d] = pc[d]
    BY <1>1 DEF IInv, TypeOK
  <1>o. /\ tasks[t] # NoTask /\ tasks[t].status = seen[c] /\ seen[c] = "accepted"
    BY <1>1, <1>2 DEF CallOrder, PushesStale
  <1>r. /\ row.by = c /\ row.status = RowStatus(c) /\ row \in Row
        /\ task # NoTask /\ task.status = RowStatus(c)
        /\ row.type = "task.canceled" => row.status = "canceled"
        /\ op[c] = "cancel" => RowStatus(c) = "canceled"
    BY <1>1, EventTypes DEF Row, RowStatus, EventType, NoTask
  <1>3. \A u \in Tasks : /\ tasks'[u] = IF u = t THEN task ELSE tasks[u]
                         /\ events'[u] = IF u = t THEN Append(old, row) ELSE events[u]
    BY <1>1 DEF AppendEvent, IInv, TypeOK, TaskStatus, RowPushed
  <1>4. /\ Len(old) \in Nat /\ DOMAIN old = 1..Len(old)
        /\ DOMAIN Append(old, row) = 1..n /\ Append(old, row)[n] = row
        /\ Len(Append(old, row)) = n
        /\ \A i \in DOMAIN old : Append(old, row)[i] = old[i]
    <2>1. old \in Seq(Row)
      BY <1>1 DEF IInv, TypeOK
    <2> HIDE DEF row, old
    <2>2. /\ Append(old, row) \in Seq(Row) /\ Len(Append(old, row)) = Len(old) + 1
          /\ \A i \in 1..Len(old) : Append(old, row)[i] = old[i]
          /\ Append(old, row)[Len(old) + 1] = row
          /\ Len(old) \in Nat /\ DOMAIN old = 1..Len(old)
          /\ DOMAIN Append(old, row) = 1..Len(Append(old, row))
      BY ONLY <2>1, <1>r, AppendProperties
    <2> QED BY ONLY <2>2
  <1>5. \A i \in DOMAIN old : /\ old[i].status # "canceled" /\ old[i].type # "task.canceled"
                              /\ old[i].by \in Calls /\ old[i].by # c /\ arg[old[i].by] = t
                              /\ pc[old[i].by] \notin {"idle", "resume", "append"}
                              /\ \A j \in DOMAIN old : old[j].by = old[i].by => j = i
    <2>1. \A i \in DOMAIN old : old[i].status # "canceled"
      BY <1>1, <1>o DEF MapBooks, Covers
    <2> QED BY <1>1, <2>1, RowsByCalls DEF IInv, MapBooks, RowBooks
  <1> HIDE DEF row, task, old, t
  <1>6. n \in 1..n /\ \A i \in 1..n : i = n \/ i \in DOMAIN old
    BY <1>4
  <1> DEFINE new == Append(old, row)
  <1>7. /\ \A i \in DOMAIN new : \/ i = n /\ new[i] = row
                                 \/ i \in DOMAIN old /\ new[i] = old[i]
        /\ n \in DOMAIN new /\ new[n] = row /\ Len(new) = n
        /\ \A i \in DOMAIN old : i \in DOMAIN new /\ new[i] = old[i]
    BY <1>4, <1>6
  <1>8. \A u \in Tasks : /\ u = t => events'[u] = new /\ tasks'[u] = task
                         /\ u # t => events'[u] = events[u] /\ tasks'[u] = tasks[u]
    BY <1>3
  <1> HIDE DEF new, n
  <1>9. Covers(tasks, events)'
    <2> SUFFICES ASSUME NEW u \in Tasks, NEW i \in DOMAIN events'[u]
                 PROVE  /\ tasks'[u] # NoTask
                        /\ events'[u][i].status = "canceled" => tasks'[u].status = "canceled"
      BY DEF Covers
    <2>1. CASE u # t
      BY <1>8, <2>1 DEF MapBooks, Covers
    <2>2. CASE u = t
      BY <1>5, <1>7, <1>8, <1>r, <2>2
    <2> QED BY <2>1, <2>2
  <1>10. RowBooks(events)'
    <2> SUFFICES ASSUME NEW u \in Tasks, NEW i \in DOMAIN events'[u]
        PROVE  /\ arg'[events'[u][i].by] = u
               /\ pc'[events'[u][i].by] \notin {"idle", "resume", "append"}
               /\ \A j \in DOMAIN events'[u] : events'[u][j].by = events'[u][i].by => j = i
               /\ events'[u][i].type = "task.canceled" =>
                     i = Len(events'[u]) /\ events'[u][i].status = "canceled"
      BY DEF RowBooks
    <2>1. CASE u = t
      <3>1. /\ arg[new[i].by] = t /\ pc'[new[i].by] \notin {"idle", "resume", "append"}
            /\ \A j \in DOMAIN new : new[j].by = new[i].by => j = i
            /\ new[i].type = "task.canceled" => i = Len(new) /\ new[i].status = "canceled"
        <4>1. i \in DOMAIN new
          BY <1>8, <2>1
        <4>2. CASE i = n /\ new[i] = row
          BY <1>2, <1>5, <1>7, <1>r, <4>2 DEF t
        <4>3. CASE i \in DOMAIN old /\ new[i] = old[i]
          BY <1>2, <1>5, <1>7, <1>r, <4>3
        <4> QED BY <1>7, <4>1, <4>2, <4>3
      <3> QED BY <1>1, <1>8, <2>1, <3>1
    <2>2. CASE u # t
      <3>1. events'[u] = events[u] /\ events[u][i].by \in Calls
        BY <1>8, <2>2, RowsByCalls DEF IInv
      <3> QED BY <1>1, <1>2, <3>1 DEF MapBooks, RowBooks
    <2> QED BY <2>1, <2>2
  <1>11. \A u \in Tasks : tasks'[u] # NoTask => Begun(u)'
    <2>1. \A u \in Tasks : Begun(u) => Begun(u)'
      BY <1>1, <1>2 DEF Begun
    <2> QED BY <1>8, <1>o, <2>1 DEF MapBooks
  <1>12. ASSUME NEW d \in Calls, pc'[d] = "resume", op'[d] = "create" PROVE tasks'[arg'[d]] = NoTask
    <2>1. d # c /\ pc[d] = "resume" /\ op[d] = "create" /\ arg[d] \in Tasks
      BY <1>1, <1>2, <1>12 DEF IInv, CallBooks
    <2>2. tasks[arg[d]] = NoTask
      BY <2>1 DEF MapBooks
    <2> QED BY <1>1, <1>8, <1>o, <2>1, <2>2
  <1>13. ASSUME NEW d \in Calls, d \in Writers' \/ reply'[d] = "ok" PROVE HasMade(d, tasks, events)'
    <2>1. CASE d = c
      BY <1>1, <1>7, <1>8, <1>r, <2>1 DEF HasMade, t
    <2>2. CASE d # c
      <3>1. /\ d \in Writers \/ reply[d] = "ok"
            /\ arg[d] \in Tasks
        BY <1>1, <1>2, <1>13, <2>2 DEF Writers, FileOps, IInv, CallBooks
      <3>2. HasMade(d, tasks, events)
        BY <1>1, <3>1 DEF MapBooks
      <3>3. CASE arg[d] # t
        BY <1>1, <1>8, <3>1, <3>2, <3>3 DEF HasMade
      <3>4. CASE arg[d] = t
        <4>1. op[d] # "cancel"
          BY <1>o, <3>2, <3>4 DEF HasMade
        <4>2. PICK i \in DOMAIN old : old[i].by = d
          BY <3>2, <3>4 DEF HasMade, old, t
        <4>3. i \in DOMAIN new /\ new[i].by = d
          BY <1>7, <4>2
        <4>4. tasks'[arg[d]] # NoTask /\ i \in DOMAIN events'[arg[d]] /\ events'[arg[d]][i].by = d
          BY <1>8, <1>r, <3>1, <3>4, <4>3
        <4> QED BY <1>1, <4>1, <4>4 DEF HasMade
      <3> QED BY <3>3, <3>4
    <2> QED BY <2>1, <2>2
  <1> QED BY <1>9, <1>10, <1>11, <1>12, <1>13 DEF MapBooks

LEMMA SameDisk ==
  ASSUME UNCHANGED disk
  PROVE  DiskTasks' = DiskTasks /\ DiskRows' = DiskRows /\ DiskReadable' = DiskReadable
  BY DEF disk, DiskTasks, DiskRows, OnDisk, DiskReadable, Readable

(* A store that loads files that are to be trusted.                        *)
LEMMA BootMaps == ASSUME IInv, NoneForgotten, DiskBooks, Boot PROVE MapBooks'
  <1>1. /\ ~up /\ UNCHANGED <<op, arg, pc, reply>> /\ tasks' = DiskTasks /\ events' = DiskRows
    BY DEF Boot, DiskTasks, DiskRows
  <1>2. \A d \in Calls : pc[d] # "resume"
    BY <1>1 DEF NoneForgotten, Waiting
  <1>3. Writers' = {}
    BY <1>1, WritersAreUp DEF Writers
  <1>4. \A t \in Tasks : DiskTasks[t] # NoTask => Begun(t)'
    BY <1>1 DEF DiskBooks, Begun
  <1>5. RowBooks(events)' /\ Covers(tasks, events)'
    BY <1>1 DEF DiskBooks, RowBooks, Covers
  <1>6. \A c \in Calls : reply'[c] = "ok" => HasMade(c, tasks, events)'
    BY <1>1 DEF DiskBooks, HasMade
  <1> QED BY <1>1, <1>2, <1>3, <1>4, <1>5, <1>6 DEF MapBooks

LEMMA CrashMaps == ASSUME IInv, Crash PROVE MapBooks'
  <1>1. tasks' = NoTasks /\ events' = NoRows /\ ~up'
    BY DEF Crash
  <1>2. \A d \in Calls : pc'[d] # "resume"
    BY DEF Crash, InFlight, Waiting, IInv, TypeOK
  <1> QED BY <1>1, <1>2 DEF MapBooks, Covers, RowBooks, NoTasks, NoRows

(* Until something is lost the maps keep their books.                      *)
LEMMA MapsStep ==
  ASSUME Books, Next, Records, trust' # "lost" PROVE MapBooks'
  <1>j. trust # "lost" /\ ~PushesStale
    BY Judged DEF Books, HistoryBooks
  <1>b. IInv /\ MapBooks /\ CallOrder /\ NoneForgotten
    BY <1>j DEF Books
  <1>1. ASSUME NEW c \in Calls, CheckTask(c) PROVE MapBooks'
    <2>1. /\ up /\ UNCHANGED <<op, arg, tasks, events>> /\ pc[c] = "resume"
          /\ \A d \in Calls \ {c} : pc'[d] = pc[d] /\ reply'[d] = reply[d]
          /\ pc'[c] \in {"append", "done"} /\ (reply'[c] = "ok" => reply[c] = "ok")
      BY <1>1, <1>b DEF CheckTask, Resumes, Returns, Awaits, store, IInv, TypeOK
    <2>2. \A d \in Calls : d \in Writers' => d \in Writers
      BY <2>1 DEF Writers, FileOps
    <2> QED BY <1>b, <2>1, <2>2, MapsStay
  <1>2. ASSUME NEW c \in Calls, BeginPersist(c) \/ FileOp(c) \/ DiskFault(c) PROVE MapBooks'
    <2>1. /\ up /\ UNCHANGED <<op, arg, tasks, events>> /\ c \in Writers
          /\ \E p \in FileOps \cup {"done"} : pc' = [pc EXCEPT ![c] = p]
          /\ \/ reply' = reply
             \/ \E r \in {"ok", "error"} : reply' = [reply EXCEPT ![c] = r]
      BY <1>2 DEF BeginPersist, Resumes, FileOp, OpenTemp, WriteTemp, RenameTemp, RenameMisses,
                  DiskFault, Fails, Failure, Answers, Performs, Writers, FileOps, store
    <2>2. /\ \A d \in Calls \ {c} : pc'[d] = pc[d] /\ reply'[d] = reply[d]
          /\ pc'[c] \in FileOps \cup {"done"} /\ pc[c] \in FileOps \cup {"persist"}
      BY <1>b, <2>1 DEF IInv, TypeOK, Writers
    <2>3. \A d \in Calls : d \in Writers' \/ reply'[d] = "ok" => d \in Writers \/ reply[d] = "ok"
      BY <2>1, <2>2 DEF Writers
    <2> QED BY <1>b, <2>1, <2>2, <2>3, MapsStay DEF FileOps
  <1>3. CASE Boot
    <2>1. ~up
      BY <1>3 DEF Boot
    <2>2. trust = "whole"
      BY <1>j, <2>1 DEF Books, HistoryBooks, HistoryTypeOK
    <2> QED BY <1>b, <1>3, <2>2, BootMaps DEF Books
  <1> QED BY <1>1, <1>2, <1>3, <1>b, <1>j, CallMaps, CreateTaskMaps, AppendEventMaps, CrashMaps DEF Next, Resume
-----------------------------------------------------------------------------
(* What is behind the names of the files.                                  *)
Grows ==
    \A t \in Tasks :
        /\ tasks[t] # NoTask => tasks'[t] # NoTask
        /\ tasks[t].status = "canceled" => tasks'[t].status = "canceled"
        /\ \A i \in DOMAIN events[t] : i \in DOMAIN events'[t] /\ events'[t][i] = events[t][i]

LEMMA CreateTaskGrows ==
  ASSUME IInv, MapBooks, NEW c \in Calls, CreateTask(c) PROVE Grows
  <1>1. /\ arg[c] \in Tasks /\ tasks[arg[c]] = NoTask
        /\ \A t \in Tasks : t # arg[c] => tasks'[t] = tasks[t] /\ events'[t] = events[t]
    BY DEF CreateTask, Resumes, IInv, CallBooks, TypeOK, MapBooks
  <1>2. DOMAIN events[arg[c]] = {} /\ NoTask.status # "canceled"
    BY <1>1 DEF MapBooks, Covers, NoTask
  <1> QED BY <1>1, <1>2 DEF Grows

LEMMA AppendEventGrows ==
  ASSUME IInv, CallOrder, NEW c \in Calls, AppendEvent(c), ~PushesStale PROVE Grows
  <1> DEFINE row == [type |-> EventType(c), status |-> RowStatus(c), by |-> c]
             task == [status |-> RowStatus(c), summary |-> Summary(c)]
  <1>1. /\ arg[c] \in Tasks /\ pc[c] = "append" /\ op[c] \in {"message", "cancel"}
        /\ pc' = [pc EXCEPT ![c] = "persist"] /\ seen[c] \in {"accepted", "canceled"}
        /\ \A t \in Tasks : t # arg[c] => tasks'[t] = tasks[t] /\ events'[t] = events[t]
        /\ tasks'[arg[c]] = task /\ events'[arg[c]] = Append(events[arg[c]], row)
    BY DEF AppendEvent, Resumes, Awaits, RowPushed, TaskStatus, IInv, CallBooks, TypeOK
  <1>2. tasks[arg[c]].status # "canceled" /\ task # NoTask
    <2>1. pc'[c] = "persist"
      BY <1>1 DEF IInv, TypeOK
    <2> QED BY <1>1, <2>1 DEF CallOrder, PushesStale, RowStatus, NoTask
  <1>3. \A i \in DOMAIN events[arg[c]] : i \in DOMAIN events'[arg[c]]
                                         /\ events'[arg[c]][i] = events[arg[c]][i]
    <2>1. events[arg[c]] \in Seq(Row) /\ row \in Row
      BY <1>1, EventTypes DEF IInv, TypeOK, Row, RowStatus
    <2> HIDE DEF row
    <2> DEFINE old == events[arg[c]]
    <2>2. \A i \in DOMAIN old : i \in DOMAIN Append(old, row) /\ Append(old, row)[i] = old[i]
      <3> HIDE DEF old
      <3>1. old \in Seq(Row)
        BY <2>1 DEF old
      <3>2. /\ Append(old, row) \in Seq(Row) /\ Len(Append(old, row)) = Len(old) + 1
            /\ \A i \in 1..Len(old) : Append(old, row)[i] = old[i]
            /\ Len(old) \in Nat /\ DOMAIN old = 1..Len(old)
            /\ DOMAIN Append(old, row) = 1..Len(Append(old, row))
        BY ONLY <3>1, <2>1, AppendProperties
      <3> QED BY ONLY <3>2
    <2> QED BY <1>1, <2>2
  <1> HIDE DEF row, task
  <1> QED BY <1>1, <1>2, <1>3 DEF Grows

(* Where a text comes from.                                                *)
FromDraft(f, c) ==
    \/ c \in {main[f], tmp[f]} /\ inode'[f][c] = inode[f][c]
    \/ ~inode'[f][c].ok
    \/ \E d \in Calls : pc[d] = "write" /\ stage[d] = f /\ inode'[f][c] = draft[d]
FromMaps(c) ==
    \/ pc[c] \in {"open", "write"} /\ stage'[c] = stage[c] /\ draft'[c] = draft[c]
    \/ stage'[c] = "tasks" /\ draft'[c] = TasksText
    \/ stage'[c] = "events" /\ draft'[c] = EventsText(keys[c])

LEMMA EventsTextIsPast ==
  ASSUME events \in [Tasks -> Seq(Row)], NEW ks
  PROVE  /\ EventsText(ks).ok /\ PastRows(EventsText(ks).data)
         /\ ks = {t \in Tasks : events[t] # <<>>} => EventsText(ks).data = events
  <1> DEFINE rows == [t \in Tasks |-> IF t \in ks THEN events[t] ELSE <<>>]
  <1>1. EventsText(ks) = [ok |-> TRUE, data |-> rows, size |-> RowsSize(rows)]
    BY DEF EventsText
  <1>2. PastRows(rows)
    BY DEF PastRows
  <1>3. ks = {t \in Tasks : events[t] # <<>>} => rows = events
    OBVIOUS
  <1> HIDE DEF rows
  <1> QED BY <1>1, <1>2, <1>3

LEMMA TasksTextIsTasks == TasksText.ok /\ TasksText.data = tasks
  BY DEF TasksText

LEMMA PastKept ==
  ASSUME IInv, PastBooks, Grows,
         \A f \in Files : \A c \in Calls : c \in {main'[f], tmp'[f]} => FromDraft(f, c),
         \A c \in Calls : pc'[c] \in {"open", "write"} => FromMaps(c)
  PROVE  PastBooks'
  <1>1. ASSUME NEW f \in Files, NEW c \in Calls, c \in {main'[f], tmp'[f]}
        PROVE  Past(f, inode[f][c])'
    <2>1. \/ ~inode'[f][c].ok
          \/ inode'[f][c].ok => IF f = "tasks" THEN PastTasks(inode'[f][c].data)
                                               ELSE PastRows(inode'[f][c].data)
      BY <1>1 DEF FromDraft, PastBooks, Past
    <2> QED BY <2>1 DEF Past, PastTasks, PastRows, Grows
  <1>2. ASSUME NEW c \in Calls, pc'[c] \in {"open", "write"}
        PROVE  Past(stage[c], draft[c])'
    <2>1. draft'[c].ok => IF stage'[c] = "tasks" THEN PastTasks(draft'[c].data)
                                                 ELSE PastRows(draft'[c].data)
      <3>1. CASE stage'[c] = stage[c] /\ draft'[c] = draft[c] /\ pc[c] \in {"open", "write"}
        BY <3>1 DEF PastBooks, Past
      <3>2. CASE stage'[c] = "tasks" /\ draft'[c] = TasksText
        BY <3>2, TasksTextIsTasks DEF PastTasks
      <3>3. CASE stage'[c] = "events" /\ draft'[c] = EventsText(keys[c])
        BY <3>3, EventsTextIsPast DEF IInv, TypeOK
      <3> QED BY <1>2, <3>1, <3>2, <3>3 DEF FromMaps
    <2> QED BY <2>1 DEF Past, PastTasks, PastRows, Grows
  <1> QED BY <1>1, <1>2 DEF PastBooks

LEMMA BootPast == ASSUME IInv, NoneForgotten, NameBooks, Boot PROVE PastBooks'
  <1>1. /\ ~up /\ UNCHANGED <<pc, main, tmp, inode>> /\ tasks' = DiskTasks /\ events' = DiskRows
        /\ \A f \in Files : tmp[f] = NoInode
    BY DEF Boot, disk, NameBooks, DiskTasks, DiskRows
  <1>2. \A d \in Calls : pc[d] \notin {"open", "write"}
    BY <1>1 DEF NoneForgotten, FileOps
  <1>3. ASSUME NEW f \in Files, NEW c \in Calls, c = main[f], inode[f][c].ok
        PROVE  /\ f = "tasks" => inode[f][c].data = tasks'
               /\ f = "events" => inode[f][c].data = events'
    BY <1>1, <1>3, NoInodeAssumption DEF DiskTasks, DiskRows, OnDisk
  <1> QED BY <1>1, <1>2, <1>3, NoInodeAssumption DEF PastBooks, Past, PastTasks, PastRows, Files

LEMMA PastStep ==
  ASSUME Books, Next, Records, trust' # "lost", up' PROVE PastBooks'
  <1>j. trust # "lost" /\ ~PushesStale
    BY Judged DEF Books, HistoryBooks
  <1>b. IInv /\ MapBooks /\ CallOrder /\ NoneForgotten /\ NameBooks /\ (up => PastBooks)
    BY <1>j DEF Books
  <1>s. ASSUME UNCHANGED <<tasks, events>> PROVE Grows
    BY <1>s DEF Grows
  <1>d. ASSUME UNCHANGED <<main, tmp, inode>>
        PROVE  \A f \in Files : \A c \in Calls : c \in {main'[f], tmp'[f]} => FromDraft(f, c)
    BY <1>d DEF FromDraft
  <1>1. ASSUME NEW c \in Calls, NEW o \in {"create", "message", "cancel"}, NEW t \in Tasks,
               Call(c, o, t)
        PROVE  PastBooks'
    <2>1. /\ up /\ UNCHANGED <<tasks, events, main, tmp, inode>>
          /\ \A d \in Calls : pc'[d] \in {"open", "write"} => FromMaps(d)
      BY <1>1, <1>b DEF Call, store, disk, FromMaps, IInv, TypeOK
    <2> QED BY <1>b, <1>s, <1>d, <2>1, PastKept
  <1>2. ASSUME NEW c \in Calls, CreateTask(c) \/ AppendEvent(c) PROVE PastBooks'
    <2>1. /\ up /\ UNCHANGED <<main, tmp, inode>>
          /\ \A d \in Calls : pc'[d] \in {"open", "write"} => FromMaps(d)
      BY <1>2, <1>b DEF CreateTask, AppendEvent, Resumes, Awaits, disk, FromMaps, IInv, TypeOK
    <2>2. Grows
      BY <1>2, <1>b, <1>j, CreateTaskGrows, AppendEventGrows
    <2> QED BY <1>b, <1>d, <2>1, <2>2, PastKept
  <1>3. ASSUME NEW c \in Calls, CheckTask(c) PROVE PastBooks'
    <2>1. /\ up /\ UNCHANGED <<tasks, events, main, tmp, inode>>
          /\ \A d \in Calls : pc'[d] \in {"open", "write"} => FromMaps(d)
      BY <1>3, <1>b DEF CheckTask, Resumes, Returns, Awaits, store, disk, FromMaps, IInv, TypeOK
    <2> QED BY <1>b, <1>s, <1>d, <2>1, PastKept
  <1>4. ASSUME NEW c \in Calls, BeginPersist(c) PROVE PastBooks'
    <2>1. /\ up /\ UNCHANGED <<tasks, events, main, tmp, inode>>
          /\ stage' = [stage EXCEPT ![c] = "tasks"] /\ draft' = [draft EXCEPT ![c] = TasksText]
          /\ pc' = [pc EXCEPT ![c] = "open"]
      BY <1>4 DEF BeginPersist, Resumes, store, disk
    <2>2. \A d \in Calls : pc'[d] \in {"open", "write"} => FromMaps(d)
      BY <1>b, <2>1 DEF FromMaps, IInv, TypeOK, TextBooks
    <2> QED BY <1>b, <1>s, <1>d, <2>1, <2>2, PastKept
  <1>5. ASSUME NEW c \in Calls, OpenTemp(c) PROVE PastBooks'
    <2> DEFINE f == stage[c]
               i == TempInode(f, c)
    <2>1. /\ up /\ UNCHANGED <<tasks, events, main, stage, draft>>
          /\ f \in Files /\ i \in Calls /\ pc[c] = "open"
          /\ pc' = [pc EXCEPT ![c] = "write"] /\ tmp' = [tmp EXCEPT ![f] = i]
          /\ inode' = [inode EXCEPT ![f] = [inode[f] EXCEPT ![i] = NoContent]]
      BY <1>5, <1>b DEF OpenTemp, Performs, store, TempInode, IInv, TypeOK, TextBooks
    <2> HIDE DEF i
    <2>2. \A g \in Files : \A d \in Calls :
              inode'[g][d] = IF g = f /\ d = i THEN NoContent ELSE inode[g][d]
      BY <1>b, <2>1 DEF IInv, TextBooks
    <2>3. \A g \in Files : \A d \in Calls : d \in {main'[g], tmp'[g]} => FromDraft(g, d)
      BY <1>b, <2>1, <2>2 DEF FromDraft, NoContent, IInv, TypeOK
    <2>4. \A d \in Calls : pc'[d] \in {"open", "write"} => FromMaps(d)
      BY <1>b, <2>1 DEF FromMaps, IInv, TypeOK
    <2> QED BY <1>b, <1>s, <2>1, <2>3, <2>4, PastKept
  <1>6. ASSUME NEW c \in Calls, WriteTemp(c) PROVE PastBooks'
    <2> DEFINE f == stage[c]
               old == inode[f][fd[c]]
               new == IF old.size = 0 \/ draft[c].size >= old.size THEN draft[c]
                      ELSE [ok |-> FALSE, size |-> old.size]
    <2>1. /\ up /\ UNCHANGED <<tasks, events, main, tmp, stage, draft>>
          /\ f \in Files /\ fd[c] \in Calls /\ pc[c] = "write"
          /\ pc' = [pc EXCEPT ![c] = "rename"]
          /\ inode' = [inode EXCEPT ![f] = [inode[f] EXCEPT ![fd[c]] = new]]
      BY <1>6, <1>b DEF WriteTemp, Performs, store, IInv, TypeOK, TextBooks
    <2>2. new = draft[c] \/ ~new.ok
      OBVIOUS
    <2> HIDE DEF new, old
    <2>3. \A g \in Files : \A d \in Calls :
              inode'[g][d] = IF g = f /\ d = fd[c] THEN new ELSE inode[g][d]
      BY <1>b, <2>1 DEF IInv, TextBooks
    <2>4. \A g \in Files : \A d \in Calls : d \in {main'[g], tmp'[g]} => FromDraft(g, d)
      BY <2>1, <2>2, <2>3 DEF FromDraft
    <2>5. \A d \in Calls : pc'[d] \in {"open", "write"} => FromMaps(d)
      BY <1>b, <2>1 DEF FromMaps, IInv, TypeOK
    <2> QED BY <1>b, <1>s, <2>1, <2>4, <2>5, PastKept
  <1>7. ASSUME NEW c \in Calls, RenameTemp(c) PROVE PastBooks'
    <2> DEFINE f == stage[c]
    <2>1. /\ up /\ UNCHANGED <<tasks, events, inode>>
          /\ f \in Files /\ pc[c] = "rename"
          /\ main' = [main EXCEPT ![f] = tmp[f]] /\ tmp' = [tmp EXCEPT ![f] = NoInode]
          /\ \/ /\ pc' = [pc EXCEPT ![c] = "open"] /\ stage' = [stage EXCEPT ![c] = "events"]
                /\ draft' = [draft EXCEPT ![c] = EventsText(keys[c])]
             \/ /\ pc' = [pc EXCEPT ![c] = "done"] /\ stage' = stage
                /\ draft' = [draft EXCEPT ![c] = NoContent]
      BY <1>7, <1>b DEF RenameTemp, Answers, Performs, store, IInv, TypeOK
    <2>2. \A g \in Files : \A d \in Calls : d \in {main'[g], tmp'[g]} => FromDraft(g, d)
      BY <1>b, <2>1, NoInodeAssumption DEF FromDraft, IInv, TypeOK
    <2>3. \A d \in Calls : pc'[d] \in {"open", "write"} => FromMaps(d)
      BY <1>b, <2>1 DEF FromMaps, IInv, TypeOK, TextBooks
    <2> QED BY <1>b, <1>s, <2>1, <2>2, <2>3, PastKept
  <1>8. ASSUME NEW c \in Calls, RenameMisses(c) \/ DiskFault(c) PROVE PastBooks'
    <2>1. /\ up /\ UNCHANGED <<tasks, events, main, tmp, stage>>
          /\ pc' = [pc EXCEPT ![c] = "done"] /\ draft' = [draft EXCEPT ![c] = NoContent]
          /\ \/ inode' = inode
             \/ /\ pc[c] = "write"
                /\ inode' = [inode EXCEPT ![stage[c]][fd[c]] = [ok |-> FALSE, size |-> @.size]]
      BY <1>8 DEF RenameMisses, DiskFault, Fails, Answers, Performs, store
    <2>2. \A g \in Files : \A d \in Calls : inode'[g][d] = inode[g][d] \/ ~inode'[g][d].ok
      <3>1. CASE /\ pc[c] = "write"
                 /\ inode' = [inode EXCEPT ![stage[c]][fd[c]] = [ok |-> FALSE, size |-> @.size]]
        <4> DEFINE bad == [ok |-> FALSE, size |-> inode[stage[c]][fd[c]].size]
        <4>1. /\ inode' = [inode EXCEPT ![stage[c]] = [inode[stage[c]] EXCEPT ![fd[c]] = bad]]
              /\ ~bad.ok
          BY <1>b, <3>1 DEF IInv, TypeOK, TextBooks
        <4> HIDE DEF bad
        <4> QED BY <1>b, <4>1 DEF IInv, TypeOK, TextBooks
      <3> QED BY <2>1, <3>1
    <2>3. \A g \in Files : \A d \in Calls : d \in {main'[g], tmp'[g]} => FromDraft(g, d)
      BY <2>1, <2>2 DEF FromDraft
    <2>4. \A d \in Calls : pc'[d] \in {"open", "write"} => FromMaps(d)
      BY <1>b, <2>1 DEF FromMaps, IInv, TypeOK, TextBooks
    <2> QED BY <1>b, <1>s, <2>1, <2>3, <2>4, PastKept
  <1>9. ~Crash
    BY DEF Crash
  <1> QED BY <1>1, <1>2, <1>3, <1>4, <1>5, <1>6, <1>7, <1>8, <1>9, <1>b, BootPast DEF Next, Resume, FileOp
-----------------------------------------------------------------------------
(* The call that has the store to itself.                                  *)
LEMMA OnlyWriter ==
  ASSUME Books, Records, NEW c \in alone'
  PROVE  /\ c \in Calls /\ Writers' = {c}
         /\ c \in Writers => Writers = {c} /\ WritesAlone(c)
  <1>1. c \in Calls /\ Writers' = {c} /\ (c \in alone \/ c \notin Writers)
    BY Judged DEF Books, HistoryBooks
  <1>2. \A d \in alone : Writers = {d} /\ WritesAlone(d)
    BY DEF Books, HistoryBooks
  <1> QED BY <1>1, <1>2

(* A call becomes a writer with its change of the maps.                    *)
LEMMA WriterEnters ==
  ASSUME IInv, Next, NEW c \in Calls, c \notin Writers, c \in Writers' PROVE pc'[c] = "persist"
  <1>0. pc[c] \notin {"persist"} \cup FileOps
    BY DEF Writers
  <1>1. ASSUME NEW d \in Calls, NEW p \in {"resume", "append", "persist", "done"},
               pc' = [pc EXCEPT ![d] = p]
        PROVE  pc'[c] = "persist"
    BY <1>0, <1>1 DEF Writers, FileOps, IInv, TypeOK
  <1>2. ASSUME NEW d \in Calls, d \in Writers, NEW p, pc' = [pc EXCEPT ![d] = p]
        PROVE  pc'[c] = "persist"
    BY <1>2 DEF Writers, FileOps, IInv, TypeOK
  <1>3. ASSUME NEW d \in Calls, CreateTask(d) \/ AppendEvent(d) \/ CheckTask(d) PROVE pc'[c] = "persist"
    <2>1. \E p \in {"append", "persist", "done"} : pc' = [pc EXCEPT ![d] = p]
      BY <1>3 DEF CreateTask, AppendEvent, CheckTask, Awaits, Returns
    <2> QED BY <1>1, <2>1
  <1>4. ASSUME NEW d \in Calls, BeginPersist(d) \/ FileOp(d) \/ DiskFault(d) PROVE pc'[c] = "persist"
    <2>1. d \in Writers /\ \E p : pc' = [pc EXCEPT ![d] = p]
      BY <1>4 DEF BeginPersist, Resumes, FileOp, OpenTemp, WriteTemp, RenameTemp, RenameMisses,
                  DiskFault, Fails, Answers, Performs, Writers, FileOps
    <2> QED BY <1>2, <2>1
  <1>5. ASSUME NEW d \in Calls, NEW o \in {"create", "message", "cancel"}, NEW t \in Tasks,
               Call(d, o, t)
        PROVE  pc'[c] = "persist"
    BY <1>1, <1>5 DEF Call
  <1>6. ~Crash /\ ~Boot
    BY <1>0 DEF Crash, Boot, Writers, InFlight, FileOps, Waiting, IInv, TypeOK
  <1> QED BY <1>3, <1>4, <1>5, <1>6 DEF Next, Resume

LEMMA AloneStep ==
  ASSUME Books, Next, Records, NEW c \in alone' PROVE WritesAlone(c)'
  <1>j. c \in Calls /\ Writers' = {c} /\ (c \in Writers => Writers = {c} /\ WritesAlone(c))
    BY OnlyWriter
  <1>b. IInv /\ NoneForgotten /\ NameBooks
    BY DEF Books
  <1>n. ASSUME pc'[c] = "persist" PROVE WritesAlone(c)'
    BY <1>n DEF WritesAlone, FileOps
  <1>0. CASE c \notin Writers
    BY <1>0, <1>b, <1>j, <1>n, WriterEnters
  <1> SUFFICES ASSUME c \in Writers PROVE WritesAlone(c)'
    BY <1>0
  <1>w. /\ c \in Calls /\ WritesAlone(c) /\ pc[c] \in {"persist"} \cup FileOps /\ pc'[c] \in {"persist"} \cup FileOps
        /\ \A d \in Calls : pc[d] \in {"persist"} \cup FileOps \/ pc'[d] \in {"persist"} \cup FileOps
                            => d = c
    BY <1>j DEF Writers
  <1>u. up
    BY <1>b, <1>j, WritersAreUp
  <1>1. ASSUME UNCHANGED <<tasks, events, main, tmp, inode>>,
               pc'[c] = pc[c], keys'[c] = keys[c], draft'[c] = draft[c], stage'[c] = stage[c],
               fd'[c] = fd[c]
        PROVE  WritesAlone(c)'
    BY <1>1, <1>w DEF WritesAlone, OnDisk, DiskTasks, Readable
  <1>2. ASSUME NEW d \in Calls, NEW o \in {"create", "message", "cancel"}, NEW t \in Tasks,
               Call(d, o, t)
        PROVE  WritesAlone(c)'
    <2>1. d # c
      BY <1>2, <1>w DEF Call, FileOps
    <2> QED BY <1>1, <1>2, <1>b, <2>1 DEF Call, store, disk, IInv, TypeOK
  <1>3. ASSUME NEW d \in Calls, CheckTask(d) PROVE WritesAlone(c)'
    <2>1. d # c
      BY <1>3, <1>w DEF CheckTask, Resumes, FileOps
    <2>2. /\ UNCHANGED <<tasks, events, main, tmp, inode, keys, draft, stage, fd>>
          /\ \E p : pc' = [pc EXCEPT ![d] = p]
      BY <1>3 DEF CheckTask, Resumes, Awaits, Returns, store, disk
    <2>3. pc'[c] = pc[c]
      BY <1>b, <2>1, <2>2 DEF IInv, TypeOK
    <2> QED BY <1>1, <2>2, <2>3
  <1>4. ASSUME NEW d \in Calls, CreateTask(d) \/ AppendEvent(d) PROVE FALSE
    <2>1. pc[d] \in {"resume", "append"} /\ pc' = [pc EXCEPT ![d] = "persist"]
      BY <1>4 DEF CreateTask, AppendEvent, Resumes, Awaits
    <2>2. pc'[d] = "persist"
      BY <1>b, <2>1 DEF IInv, TypeOK
    <2> QED BY <1>w, <2>1, <2>2 DEF FileOps
  <1>5. ASSUME NEW d \in Calls, BeginPersist(d) PROVE WritesAlone(c)'
    <2>1. d = c
      BY <1>5, <1>w DEF BeginPersist, Resumes
    <2>2. /\ keys'[c] = {t \in Tasks : events[t] # <<>>} /\ stage'[c] = "tasks"
          /\ draft'[c] = TasksText /\ pc'[c] = "open"
          /\ UNCHANGED <<tasks, events>>
      BY <1>5, <1>b, <2>1 DEF BeginPersist, store, IInv, TypeOK, TextBooks
    <2>3. draft'[c].ok /\ draft'[c].data = tasks
      BY <2>2, TasksTextIsTasks
    <2> QED BY <2>2, <2>3 DEF WritesAlone
  <1>6. ASSUME NEW d \in Calls, OpenTemp(d) PROVE WritesAlone(c)'
    <2>1. d = c
      BY <1>6, <1>w DEF OpenTemp, Performs, FileOps
    <2> DEFINE f == stage[c]
               i == TempInode(f, c)
    <2>2. /\ UNCHANGED <<tasks, events, keys, main, stage, draft>>
          /\ f \in Files /\ i \in Calls /\ pc[c] = "open"
          /\ pc'[c] = "write" /\ tmp' = [tmp EXCEPT ![f] = i] /\ fd'[c] = i
          /\ inode' = [inode EXCEPT ![f] = [inode[f] EXCEPT ![i] = NoContent]]
      BY <1>6, <1>b, <2>1 DEF OpenTemp, Performs, store, TempInode, IInv, TypeOK, TextBooks
    <2>3. i # main[f]
      BY <1>b, <2>2 DEF NameBooks, TempInode, Unopened
    <2> HIDE DEF i
    <2>4. \A g \in Files : \A e \in Calls :
              inode'[g][e] = IF g = f /\ e = i THEN NoContent ELSE inode[g][e]
      BY <1>b, <2>2 DEF IInv, TextBooks
    <2>5. main["tasks"] # NoInode => inode'["tasks"][main["tasks"]] = inode["tasks"][main["tasks"]]
      BY <1>b, <2>3, <2>4 DEF IInv, TypeOK, Files
    <2>6. DiskTasks' = DiskTasks /\ Readable("tasks")' = Readable("tasks")
      BY <2>2, <2>5 DEF DiskTasks, OnDisk, Readable
    <2>7. /\ fd'[c] # NoInode /\ fd'[c] = tmp'[stage'[c]]
          /\ inode'[stage'[c]][fd'[c]] = NoContent
      BY <1>b, <2>2, <2>4, NoInodeAssumption DEF IInv, TypeOK
    <2> QED BY <1>w, <2>2, <2>6, <2>7 DEF WritesAlone, FileOps
  <1>7. ASSUME NEW d \in Calls, WriteTemp(d) PROVE WritesAlone(c)'
    <2>1. d = c
      BY <1>7, <1>w DEF WriteTemp, Performs, FileOps
    <2> DEFINE f == stage[c]
    <2>2. /\ UNCHANGED <<tasks, events, keys, main, tmp, stage, draft>>
          /\ f \in Files /\ pc[c] = "write" /\ pc'[c] = "rename"
          /\ fd[c] = tmp[f] /\ tmp[f] # NoInode /\ tmp[f] \in Calls /\ inode[f][fd[c]] = NoContent
          /\ tmp[f] # main[f]
      BY <1>7, <1>b, <1>w, <2>1 DEF WriteTemp, Performs, store, IInv, TypeOK, NameBooks, WritesAlone
    <2>3. inode' = [inode EXCEPT ![f] = [inode[f] EXCEPT ![tmp[f]] = draft[c]]]
      BY <1>7, <1>b, <2>1, <2>2 DEF WriteTemp, NoContent, IInv, TextBooks
    <2>4. \A g \in Files : \A e \in Calls :
              inode'[g][e] = IF g = f /\ e = tmp[f] THEN draft[c] ELSE inode[g][e]
      BY <1>b, <2>2, <2>3 DEF IInv, TextBooks
    <2>5. main["tasks"] # NoInode => inode'["tasks"][main["tasks"]] = inode["tasks"][main["tasks"]]
      BY <1>b, <2>2, <2>4 DEF IInv, TypeOK, Files
    <2>6. DiskTasks' = DiskTasks /\ Readable("tasks")' = Readable("tasks")
      BY <2>2, <2>5 DEF DiskTasks, OnDisk, Readable
    <2>7. tmp'[stage'[c]] # NoInode /\ inode'[stage'[c]][tmp'[stage'[c]]] = draft'[c]
      BY <2>2, <2>4
    <2> QED BY <1>w, <2>2, <2>6, <2>7 DEF WritesAlone, FileOps
  <1>8. ASSUME NEW d \in Calls, RenameTemp(d) PROVE WritesAlone(c)'
    <2>1. d = c
      BY <1>8, <1>w DEF RenameTemp, Performs, FileOps
    <2>2. /\ stage[c] = "tasks" /\ pc[c] = "rename" /\ UNCHANGED <<tasks, events, keys, inode>>
          /\ main'["tasks"] = tmp["tasks"] /\ tmp["tasks"] # NoInode
          /\ pc'[c] = "open" /\ stage'[c] = "events" /\ draft'[c] = EventsText(keys[c])
      <3>1. stage[c] # "events"
        <4>1. stage[c] = "events" => pc' = [pc EXCEPT ![c] = "done"]
          BY <1>8, <2>1 DEF RenameTemp, Answers
        <4>2. pc'[c] # "done"
          BY <1>w DEF FileOps
        <4> QED BY <1>b, <1>j, <4>1, <4>2 DEF IInv, TypeOK
      <3> QED BY <1>8, <1>b, <2>1, <3>1
              DEF RenameTemp, Performs, store, IInv, TypeOK, TextBooks, Files
    <2>3. draft[c].ok /\ draft[c].data = tasks /\ inode["tasks"][tmp["tasks"]] = draft[c]
          /\ keys[c] = {t \in Tasks : events[t] # <<>>}
      BY <1>w, <2>2 DEF WritesAlone, FileOps
    <2>4. DiskTasks' = tasks /\ Readable("tasks")'
      BY <2>2, <2>3 DEF DiskTasks, OnDisk, Readable
    <2>5. draft'[c].ok /\ draft'[c].data = events
      BY <1>b, <2>2, <2>3, EventsTextIsPast DEF IInv, TypeOK
    <2> QED BY <2>2, <2>3, <2>4, <2>5 DEF WritesAlone
  <1>9. ASSUME NEW d \in Calls, RenameMisses(d) \/ DiskFault(d) PROVE FALSE
    <2>1. pc[d] \in FileOps /\ pc' = [pc EXCEPT ![d] = "done"]
      BY <1>9 DEF RenameMisses, DiskFault, Fails, Answers, Performs, FileOps
    <2> QED BY <1>b, <1>w, <2>1 DEF IInv, TypeOK, FileOps
  <1>10. ~Crash /\ ~Boot
    <2>1. Crash => pc'[c] \notin {"persist"} \cup FileOps
      BY <1>j DEF Crash, InFlight, FileOps, Waiting
    <2> QED BY <1>u, <1>w, <2>1 DEF Boot
  <1> QED BY <1>2, <1>3, <1>4, <1>5, <1>6, <1>7, <1>8, <1>9, <1>10 DEF Next, Resume, FileOp
-----------------------------------------------------------------------------
(* The files.                                                              *)
LEMMA DiskKept ==
  ASSUME IInv, DiskBooks, DiskTasks' = DiskTasks, DiskRows' = DiskRows, DiskReadable' = DiskReadable,
         up', \A c \in Calls : reply'[c] = "ok" =>
                 reply[c] = "ok" /\ op'[c] = op[c] /\ arg'[c] = arg[c]
  PROVE  DiskBooks'
  BY DEF DiskBooks, Covers, HasMade

(* What is on disk, when the named inodes keep their contents.             *)
LEMMA SameContents ==
  ASSUME main' = main,
         \A f \in Files : main[f] # NoInode => inode'[f][main[f]] = inode[f][main[f]]
  PROVE  DiskTasks' = DiskTasks /\ DiskRows' = DiskRows /\ DiskReadable' = DiskReadable
  <1>1. "tasks" \in Files /\ "events" \in Files
    BY DEF Files
  <1> QED BY <1>1 DEF DiskTasks, DiskRows, OnDisk, DiskReadable, Readable

LEMMA RowsOfTexts == ASSUME IInv, DiskReadable PROVE DiskRows \in Logs
  <1>1. CASE main["events"] = NoInode
    BY <1>1 DEF DiskRows, OnDisk, NoRows, Logs
  <1>2. CASE main["events"] # NoInode
    <2>1. main["events"] \in Calls /\ inode["events"][main["events"]].ok
      BY <1>2 DEF IInv, TypeOK, Files, DiskReadable, Readable
    <2>2. IsText("events", inode["events"][main["events"]])
      BY <2>1 DEF IInv, TextBooks, Files
    <2> QED BY <1>2, <2>1, <2>2 DEF IsText, Content, DiskRows, OnDisk
  <1> QED BY <1>1, <1>2

LEMMA DiskIsPast ==
  ASSUME IInv, PastBooks
  PROVE  /\ Readable("tasks") => PastTasks(DiskTasks)
         /\ Readable("events") => PastRows(DiskRows)
  <1>f. /\ "tasks" \in Files /\ "events" \in Files
        /\ main["tasks"] # NoInode => main["tasks"] \in Calls
        /\ main["events"] # NoInode => main["events"] \in Calls
    BY DEF Files, IInv, TypeOK
  <1>1. ASSUME Readable("tasks") PROVE PastTasks(DiskTasks)
    <2>1. CASE main["tasks"] = NoInode
      BY <2>1 DEF DiskTasks, OnDisk, NoTasks, NoTask, PastTasks
    <2>2. CASE main["tasks"] # NoInode
      <3>1. Past("tasks", inode["tasks"][main["tasks"]])
        BY <1>f, <2>2 DEF PastBooks
      <3> QED BY <1>1, <2>2, <3>1 DEF DiskTasks, OnDisk, Readable, Past
    <2> QED BY <2>1, <2>2
  <1>2. ASSUME Readable("events") PROVE PastRows(DiskRows)
    <2>1. CASE main["events"] = NoInode
      BY <2>1 DEF DiskRows, OnDisk, NoRows, PastRows
    <2>2. CASE main["events"] # NoInode
      <3>1. Past("events", inode["events"][main["events"]])
        BY <1>f, <2>2 DEF PastBooks
      <3> QED BY <1>2, <2>2, <3>1 DEF DiskRows, OnDisk, Readable, Past
    <2> QED BY <2>1, <2>2
  <1> QED BY <1>1, <1>2

(* The rows on disk, be they those of a moment ago.                        *)
LEMMA PastRowsAreClosed ==
  ASSUME IInv, RowBooks(events), NEW rows \in Logs, PastRows(rows)
  PROVE  RowBooks(rows) /\ \A t \in Tasks : \A i \in DOMAIN rows[t] : rows[t][i].by \in Calls
  <1> SUFFICES ASSUME NEW t \in Tasks, NEW i \in DOMAIN rows[t]
               PROVE  /\ arg[rows[t][i].by] = t
                      /\ pc[rows[t][i].by] \notin {"idle", "resume", "append"}
                      /\ \A j \in DOMAIN rows[t] : rows[t][j].by = rows[t][i].by => j = i
                      /\ rows[t][i].type = "task.canceled" =>
                            i = Len(rows[t]) /\ rows[t][i].status = "canceled"
                      /\ rows[t][i].by \in Calls
    BY DEF RowBooks
  <1>1. \A j \in DOMAIN rows[t] : j \in DOMAIN events[t] /\ events[t][j] = rows[t][j]
    BY DEF PastRows
  <1>2. ASSUME rows[t][i].type = "task.canceled" PROVE i = Len(rows[t])
    <2>1. events[t] \in Seq(Row) /\ rows[t] \in Seq(Row)
      BY DEF IInv, TypeOK, Logs
    <2>2. i = Len(events[t])
      BY <1>1, <1>2 DEF RowBooks
    <2>3. /\ DOMAIN rows[t] = 1..Len(rows[t]) /\ Len(rows[t]) \in Nat
          /\ DOMAIN events[t] = 1..Len(events[t]) /\ Len(events[t]) \in Nat
      BY <2>1
    <2>4. Len(rows[t]) \in DOMAIN rows[t]
      BY <2>3
    <2> QED BY <1>1, <2>2, <2>3, <2>4
  <1> QED BY <1>1, <1>2, RowsByCalls DEF IInv, RowBooks

LEMMA CrashDisk ==
  ASSUME IInv, MapBooks, PastBooks, DiskBooks, Crash PROVE DiskBooks'
  <1>1. /\ DiskTasks' = DiskTasks /\ DiskRows' = DiskRows /\ DiskReadable' = DiskReadable
        /\ UNCHANGED <<op, arg, reply>>
    BY SameContents DEF Crash
  <1>2. \A c \in Calls : /\ pc[c] # "idle" => pc'[c] # "idle"
                         /\ pc[c] \notin {"idle", "resume", "append"} =>
                               pc'[c] \notin {"idle", "resume", "append"}
    BY DEF Crash, IInv, TypeOK
  <1>3. RowBooks(DiskRows) /\ \A t \in Tasks : \A i \in DOMAIN DiskRows[t] : DiskRows[t][i].by \in Calls
    BY RowsOfTexts, DiskIsPast, PastRowsAreClosed DEF DiskBooks, MapBooks, DiskReadable, Files
  <1>4. RowBooks(DiskRows)'
    BY <1>1, <1>2, <1>3, RowsKept DEF RowBooks
  <1>5. \A t \in Tasks : DiskTasks[t] # NoTask => Begun(t)'
    <2>1. \A t \in Tasks : DiskTasks[t] # NoTask => Begun(t)
      BY DiskIsPast DEF PastTasks, MapBooks, DiskBooks, DiskReadable, Files
    <2> QED BY <1>1, <1>2, <2>1 DEF Begun
  <1> QED BY <1>1, <1>4, <1>5 DEF DiskBooks, Covers, HasMade

(* The call that has the store to itself renames a file.                   *)
LEMMA RenameTasksDisk ==
  ASSUME IInv, MapBooks, PastBooks, DiskBooks, up, NEW c \in Calls, RenameTemp(c), stage[c] = "tasks",
         WritesAlone(c)
  PROVE  DiskBooks'
  <1>1. /\ pc[c] = "rename" /\ up' /\ UNCHANGED <<op, arg, reply, inode>>
        /\ main' = [main EXCEPT !["tasks"] = tmp["tasks"]] /\ tmp["tasks"] # NoInode
    BY DEF RenameTemp, Performs
  <1>2. /\ main'["tasks"] = tmp["tasks"] /\ main'["events"] = main["events"]
        /\ draft[c].ok /\ draft[c].data = tasks /\ inode["tasks"][tmp["tasks"]] = draft[c]
    BY <1>1 DEF WritesAlone, FileOps, IInv, TypeOK, Files
  <1>3. DiskTasks' = tasks /\ DiskRows' = DiskRows /\ DiskReadable'
    BY <1>1, <1>2 DEF DiskTasks, DiskRows, OnDisk, DiskReadable, Readable, Files, DiskBooks
  <1>4. PastTasks(DiskTasks) /\ PastRows(DiskRows)
    BY DiskIsPast DEF DiskBooks, DiskReadable, Files
  <1>5. Covers(tasks, DiskRows)
    BY <1>4 DEF MapBooks, Covers, PastRows
  <1>6. \A d \in Calls : reply[d] = "ok" => HasMade(d, tasks, DiskRows)
    <2> SUFFICES ASSUME NEW d \in Calls, reply[d] = "ok" PROVE HasMade(d, tasks, DiskRows)
      OBVIOUS
    <2>1. arg[d] \in Tasks /\ HasMade(d, DiskTasks, DiskRows)
      BY DEF IInv, CallBooks, DiskBooks
    <2> QED BY <1>4, <2>1 DEF HasMade, PastTasks
  <1> QED BY <1>1, <1>3, <1>5, <1>6 DEF DiskBooks, Covers, HasMade

LEMMA RenameEventsDisk ==
  ASSUME IInv, MapBooks, up, NEW c \in Calls, RenameTemp(c), stage[c] = "events", WritesAlone(c)
  PROVE  DiskBooks'
  <1>1. /\ pc[c] = "rename" /\ up' /\ UNCHANGED <<op, arg, inode, tasks, events>>
        /\ main' = [main EXCEPT !["events"] = tmp["events"]] /\ tmp["events"] # NoInode
        /\ reply' = [reply EXCEPT ![c] = "ok"]
    BY DEF RenameTemp, Performs, Answers, store
  <1>2. /\ main'["events"] = tmp["events"] /\ main'["tasks"] = main["tasks"]
        /\ draft[c].ok /\ draft[c].data = events /\ inode["events"][tmp["events"]] = draft[c]
        /\ Readable("tasks") /\ DiskTasks = tasks
    BY <1>1 DEF WritesAlone, FileOps, IInv, TypeOK, Files
  <1>3. DiskTasks' = tasks /\ DiskRows' = events /\ DiskReadable'
    BY <1>1, <1>2 DEF DiskTasks, DiskRows, OnDisk, DiskReadable, Readable, Files
  <1>4. \A d \in Calls : reply'[d] = "ok" => reply[d] = "ok" \/ d \in Writers
    BY <1>1 DEF Writers, FileOps, IInv, TypeOK
  <1> QED BY <1>1, <1>3, <1>4 DEF DiskBooks, MapBooks, Covers, HasMade

LEMMA DiskStep ==
  ASSUME Books, Next, Records, trust' = "whole" PROVE DiskBooks'
  <1>j. trust # "lost" /\ (trust = "whole" \/ \E c \in alone : reply'[c] = "ok")
    BY Judged DEF Books, HistoryBooks
  <1>b. /\ IInv /\ MapBooks /\ NoneForgotten /\ NameBooks /\ (up => PastBooks)
        /\ trust = "whole" => DiskBooks
        /\ \A c \in alone : c \in Calls /\ c \in Writers /\ Writers = {c} /\ WritesAlone(c)
        /\ trust = "whole" => Writers \subseteq alone
    <2>1. /\ IInv /\ MapBooks /\ NoneForgotten /\ NameBooks /\ (up => PastBooks)
          /\ trust = "whole" => DiskBooks
      BY <1>j DEF Books
    <2>2. alone \subseteq Calls /\ (trust = "whole" => Writers \subseteq alone)
      BY DEF Books, HistoryBooks, HistoryTypeOK
    <2>3. \A c \in alone : Writers = {c} /\ WritesAlone(c)
      BY DEF Books, HistoryBooks
    <2>4. \A c \in alone : c \in Calls /\ c \in Writers /\ Writers = {c} /\ WritesAlone(c)
      <3> SUFFICES ASSUME NEW c \in alone
                   PROVE  c \in Calls /\ c \in Writers /\ Writers = {c} /\ WritesAlone(c)
        OBVIOUS
      <3>1. Writers = {c} /\ WritesAlone(c)
        BY <2>3
      <3>2. c \in {c}
        OBVIOUS
      <3> QED BY <2>2, <3>1, <3>2
    <2> QED BY <2>1, <2>2, <2>4
  <1>n. \A c \in Writers : reply[c] = "none"
    BY <1>b DEF IInv, CallBooks, Writers, FileOps
  <1>o. ASSUME \A c \in Calls : reply'[c] = "ok" => reply[c] = "ok" PROVE trust = "whole" /\ DiskBooks
    BY <1>b, <1>j, <1>n, <1>o
  <1>1. ASSUME NEW c \in Calls, NEW o \in {"create", "message", "cancel"}, NEW t \in Tasks,
               Call(c, o, t)
        PROVE  DiskBooks'
    <2>1. /\ up' /\ UNCHANGED <<main, tmp, inode>> /\ reply' = reply /\ reply[c] = "none"
          /\ \A d \in Calls \ {c} : op'[d] = op[d] /\ arg'[d] = arg[d]
      BY <1>1, <1>b DEF Call, disk, IInv, TypeOK, CallBooks
    <2> QED BY <1>b, <1>o, <2>1, SameDisk, DiskKept DEF disk
  <1>2. ASSUME NEW c \in Calls, Resume(c) PROVE DiskBooks'
    <2>1. /\ up' /\ UNCHANGED <<main, tmp, inode, op, arg>>
          /\ \/ reply' = reply
             \/ \E r \in {"not_found", "terminal"} : reply' = [reply EXCEPT ![c] = r]
      BY <1>2 DEF Resume, CreateTask, CheckTask, AppendEvent, BeginPersist, Resumes, Awaits, Returns, disk
    <2>2. \A d \in Calls : reply'[d] = "ok" => reply[d] = "ok"
      BY <1>b, <2>1 DEF IInv, TypeOK
    <2> QED BY <1>b, <1>o, <2>1, <2>2, SameDisk, DiskKept DEF disk
  <1>3. ASSUME NEW c \in Calls, OpenTemp(c) PROVE DiskBooks'
    <2> DEFINE f == stage[c]
               i == TempInode(f, c)
    <2>1. /\ up' /\ UNCHANGED <<main, op, arg, reply>>
          /\ f \in Files /\ i \in Calls /\ pc[c] = "open"
          /\ inode' = [inode EXCEPT ![f] = [inode[f] EXCEPT ![i] = NoContent]]
      BY <1>3, <1>b DEF OpenTemp, Performs, TempInode, IInv, TypeOK, TextBooks
    <2>2. i # main[f]
      BY <1>b, <2>1 DEF NameBooks, TempInode, Unopened
    <2> HIDE DEF i
    <2>3. \A g \in Files : \A e \in Calls :
              inode'[g][e] = IF g = f /\ e = i THEN NoContent ELSE inode[g][e]
      BY <1>b, <2>1 DEF IInv, TextBooks
    <2>4. \A g \in Files : main[g] # NoInode => inode'[g][main[g]] = inode[g][main[g]]
      BY <1>b, <2>2, <2>3 DEF IInv, TypeOK
    <2> QED BY <1>b, <1>o, <2>1, <2>4, SameContents, DiskKept
  <1>4. ASSUME NEW c \in Calls, WriteTemp(c) \/ RenameMisses(c) \/ DiskFault(c) PROVE DiskBooks'
    <2>1. /\ up' /\ UNCHANGED <<main, op, arg>> /\ c \in Writers
          /\ reply' = reply \/ reply' = [reply EXCEPT ![c] = "error"]
          /\ \/ inode' = inode
             \/ pc[c] = "write" /\ \E x : inode' = [inode EXCEPT ![stage[c]][fd[c]] = x]
      <3>1. CASE WriteTemp(c)
        <4>1. /\ up' /\ UNCHANGED <<main, op, arg>> /\ pc[c] = "write" /\ reply' = reply
          BY <3>1 DEF WriteTemp, Performs
        <4>2. \E x : inode' = [inode EXCEPT ![stage[c]][fd[c]] = x]
          BY <3>1 DEF WriteTemp
        <4> QED BY <4>1, <4>2 DEF Writers, FileOps
      <3>2. CASE RenameMisses(c)
        BY <3>2 DEF RenameMisses, Fails, Failure, Answers, Performs, Writers, FileOps
      <3>3. CASE DiskFault(c)
        <4>1. /\ up' /\ UNCHANGED <<main, op, arg>> /\ pc[c] \in FileOps
              /\ reply' = [reply EXCEPT ![c] = "error"]
          BY <3>3 DEF DiskFault, Fails, Failure, Answers, Performs, FileOps
        <4>2. \/ inode' = inode
              \/ /\ pc[c] = "write"
                 /\ inode' = [inode EXCEPT ![stage[c]][fd[c]] = [ok |-> FALSE, size |-> @.size]]
          BY <3>3 DEF DiskFault, Performs
        <4>3. \/ inode' = inode
              \/ pc[c] = "write" /\ \E x : inode' = [inode EXCEPT ![stage[c]][fd[c]] = x]
          BY <4>2
        <4> QED BY <4>1, <4>3 DEF Writers
      <3> QED BY <1>4, <3>1, <3>2, <3>3
    <2>2. \A d \in Calls : reply'[d] = "ok" => reply[d] = "ok"
      BY <1>b, <2>1 DEF IInv, TypeOK
    <2>3. trust = "whole" /\ WritesAlone(c)
      BY <1>b, <1>o, <2>1, <2>2
    <2>4. \A g \in Files : main[g] # NoInode => inode'[g][main[g]] = inode[g][main[g]]
      <3>1. CASE inode' = inode
        BY <3>1
      <3>2. CASE pc[c] = "write" /\ \E x : inode' = [inode EXCEPT ![stage[c]][fd[c]] = x]
        <4>1. PICK x : inode' = [inode EXCEPT ![stage[c]][fd[c]] = x]
          BY <3>2
        <4>2. stage[c] \in Files /\ fd[c] \in Calls /\ fd[c] # main[stage[c]]
          BY <1>b, <2>3, <3>2 DEF WritesAlone, NameBooks, IInv, TypeOK, TextBooks
        <4>3. \A g \in Files : \A e \in Calls : g # stage[c] \/ e # fd[c] => inode'[g][e] = inode[g][e]
          BY <1>b, <4>1, <4>2 DEF IInv, TextBooks
        <4> QED BY <1>b, <4>2, <4>3 DEF IInv, TypeOK
      <3> QED BY <2>1, <3>1, <3>2
    <2> QED BY <1>b, <1>o, <2>1, <2>2, <2>4, SameContents, DiskKept
  <1>5. ASSUME NEW c \in Calls, RenameTemp(c) PROVE DiskBooks'
    <2>1. /\ up /\ c \in Writers /\ stage[c] \in Files
          /\ stage[c] = "tasks" => reply' = reply
          /\ stage[c] = "events" => reply' = [reply EXCEPT ![c] = "ok"]
      BY <1>5, <1>b DEF RenameTemp, Performs, Answers, Writers, FileOps, IInv, TypeOK
    <2>2. CASE stage[c] = "tasks"
      <3>1. trust = "whole" /\ DiskBooks /\ WritesAlone(c)
        BY <1>b, <1>o, <2>1, <2>2
      <3> QED BY <1>5, <1>b, <2>1, <2>2, <3>1, RenameTasksDisk
    <2>3. CASE stage[c] = "events"
      <3>1. WritesAlone(c)
        <4>1. CASE trust = "whole"
          BY <1>b, <2>1, <4>1
        <4>2. CASE \E d \in alone : reply'[d] = "ok"
          <5>1. PICK d \in alone : reply'[d] = "ok"
            BY <4>2
          <5>2. d = c
            BY <1>b, <2>1, <5>1
          <5> QED BY <1>b, <5>1, <5>2
        <4> QED BY <1>j, <4>1, <4>2
      <3> QED BY <1>5, <1>b, <2>1, <2>3, <3>1, RenameEventsDisk
    <2> QED BY <2>1, <2>2, <2>3 DEF Files
  <1>6. CASE Crash
    <2>1. up /\ reply' = reply
      BY <1>6 DEF Crash
    <2> QED BY <1>6, <1>b, <1>o, <2>1, CrashDisk
  <1>7. CASE Boot
    <2>1. up' /\ UNCHANGED <<main, tmp, inode, op, arg, reply>>
      BY <1>7 DEF Boot, disk
    <2> QED BY <1>b, <1>o, <2>1, SameDisk, DiskKept DEF disk
  <1> QED BY <1>1, <1>2, <1>3, <1>4, <1>5, <1>6, <1>7 DEF Next, FileOp
-----------------------------------------------------------------------------
LEMMA StutterBooks == ASSUME Books, UNCHANGED hvars PROVE Books'
  <1> USE DEF hvars, vars
  <1>1. IInv'
    BY StutterTypes DEF Books
  <1>2. NoneForgotten' /\ NameBooks' /\ CallOrder'
    BY DEF Books, NoneForgotten, Queued, NameBooks, Unopened, CallOrder
  <1>3. Writers' = Writers /\ DiskTasks' = DiskTasks /\ DiskRows' = DiskRows
        /\ DiskReadable' = DiskReadable /\ \A f \in Files : Readable(f)' = Readable(f)
    BY DEF Writers, DiskTasks, DiskRows, OnDisk, DiskReadable, Readable
  <1>4. HistoryBooks'
    BY <1>3 DEF Books, HistoryBooks, HistoryTypeOK
  <1>5. MapBooks => MapBooks'
    BY <1>3 DEF MapBooks, Covers, RowBooks, Begun, HasMade
  <1>6. PastBooks => PastBooks'
    BY DEF PastBooks, Past, PastTasks, PastRows
  <1>7. \A c \in alone : WritesAlone(c) => WritesAlone(c)'
    BY <1>3 DEF WritesAlone, Files
  <1>8. DiskBooks => DiskBooks'
    BY <1>3 DEF DiskBooks, Covers, RowBooks, Begun, HasMade
  <1> QED BY <1>1, <1>2, <1>4, <1>5, <1>6, <1>7, <1>8 DEF Books

LEMMA BooksStep == Books /\ [HNext]_hvars => Books'
  <1> SUFFICES ASSUME Books, HNext PROVE Books'
    BY StutterBooks
  <1>1. IInv' /\ NoneForgotten' /\ NameBooks' /\ CallOrder'
    BY TypesStep, ForgottenStep, NamesStep, OrderStep DEF Books, HNext
  <1>2. HistoryBooks'
    BY <1>1, HistoryStep DEF Books, HNext
  <1>3. /\ trust' # "lost" => MapBooks'
        /\ trust' # "lost" /\ up' => PastBooks'
        /\ \A c \in alone' : WritesAlone(c)'
        /\ trust' = "whole" => DiskBooks'
    BY MapsStep, PastStep, AloneStep, DiskStep DEF HNext
  <1> QED BY <1>1, <1>2, <1>3 DEF Books

LEMMA BooksInvariance == HSpec => []Books
  BY InitBooks, BooksStep, PTL DEF HSpec

(* However many calls overlap in their files, whichever file operation     *)
(* fails and however often the process dies: once a call has had the store *)
(* to itself, and until two overlap again, a change that was acknowledged  *)
(* is in both files.                                                       *)
THEOREM AcknowledgedIsDurable == HSpec => []DurableWhenWhole
  <1>1. Books => DurableWhenWhole
    BY DEF Books, DiskBooks, HasMade, DiskTasks, DiskRows, DiskReadable, DurableWhenWhole, AckedDurable
  <1> QED BY <1>1, BooksInvariance, PTL

(* ... the next process can start, ...                                     *)
THEOREM FilesParse == HSpec => []ReadableWhenWhole
  <1>1. Books => ReadableWhenWhole
    BY DEF Books, DiskBooks, ReadableWhenWhole
  <1> QED BY <1>1, BooksInvariance, PTL

(* ... and finds logs that do not run ahead of the tasks.                  *)
THEOREM LogsAreCovered == HSpec => []CoveredWhenWhole
  <1>1. Books => CoveredWhenWhole
    BY DEF Books, DiskBooks, Covers, DiskTasks, DiskRows, DiskLogCovered, CoveredWhenWhole
  <1> QED BY <1>1, BooksInvariance, PTL

LEMMA DiskIsClosed == ASSUME Books, trust # "lost", DiskReadable PROVE RowBooks(DiskRows)
  <1>1. IInv /\ MapBooks /\ (up => PastBooks) /\ (~up => trust = "whole" /\ DiskBooks)
    BY DEF Books, HistoryBooks, HistoryTypeOK
  <1>2. CASE up
    <2>1. DiskRows \in Logs /\ PastRows(DiskRows)
      BY <1>1, <1>2, RowsOfTexts, DiskIsPast DEF DiskReadable, Files
    <2> QED BY <1>1, <2>1, PastRowsAreClosed DEF MapBooks
  <1> QED BY <1>1, <1>2 DEF DiskBooks

(* Overlapping calls that tear files, overtake each other and fail do not  *)
(* open a canceled task again, and neither do restarts, unless a process   *)
(* died among them or an event reached a task another call had canceled.   *)
THEOREM CancellationsSurvive == HSpec => []CancelSurvivesUnlessLost
  <1>1. Books => CancelSurvivesUnlessLost
    <2>1. Books /\ trust # "lost" => RowBooks(events) /\ (DiskReadable => RowBooks(DiskRows))
      BY DiskIsClosed DEF Books, MapBooks
    <2>2. \A rows : RowBooks(rows) => Closes(rows)
      BY DEF RowBooks, Closes
    <2>3. Books /\ trust # "lost" => Closes(events) /\ (DiskReadable => Closes(DiskRows))
      BY <2>1, <2>2
    <2> QED BY <2>3 DEF CancelSurvivesUnlessLost, CancelSurvives, DiskRows
  <1> QED BY <1>1, BooksInvariance, PTL

(* While the files are whole, an acknowledged call has exactly one event   *)
(* on disk, neither lost nor written again by a later process.             *)
THEOREM AcknowledgedOnce ==
  HSpec => [](trust = "whole" =>
                \A c \in Calls : reply[c] = "ok" =>
                   Cardinality({i \in DOMAIN DiskRows[arg[c]] : DiskRows[arg[c]][i].by = c}) = 1)
  <1>1. ASSUME Books, trust = "whole", NEW c \in Calls, reply[c] = "ok"
        PROVE  Cardinality({i \in DOMAIN DiskRows[arg[c]] : DiskRows[arg[c]][i].by = c}) = 1
    <2>1. IInv /\ DiskBooks
      BY <1>1 DEF Books
    <2>2. arg[c] \in Tasks /\ RowBooks(DiskRows)
      BY <1>1, <2>1, DiskIsClosed DEF IInv, CallBooks, DiskBooks
    <2>3. PICK i \in DOMAIN DiskRows[arg[c]] : DiskRows[arg[c]][i].by = c
      BY <1>1, <2>1 DEF DiskBooks, HasMade
    <2>4. {j \in DOMAIN DiskRows[arg[c]] : DiskRows[arg[c]][j].by = c} = {i}
      BY <2>2, <2>3 DEF RowBooks
    <2> QED BY <2>4, FS_Singleton
  <1>2. Books =>
          (trust = "whole" =>
             \A c \in Calls : reply[c] = "ok" =>
                Cardinality({i \in DOMAIN DiskRows[arg[c]] : DiskRows[arg[c]][i].by = c}) = 1)
    BY <1>1
  <1> QED BY <1>2, BooksInvariance, PTL
-----------------------------------------------------------------------------
(* What is lost, when calls do not share a turn.                           *)
AtMostOneQueued == queue = <<>> \/ \E q \in Calls : queue = <<q>>

Unstale == /\ AtMostOneQueued
           /\ \A c \in Calls : pc[c] = "append" => seen[c] = tasks[arg[c]].status

(* Nobody else waits when a call is resumed.                               *)
LEMMA AloneInQueue ==
  ASSUME NoneForgotten, AtMostOneQueued
  PROVE  /\ queue = <<>> => \A d \in Calls : pc[d] \notin Waiting
         /\ queue # <<>> => /\ Tail(queue) = <<>>
                            /\ Append(Tail(queue), Head(queue)) = queue
                            /\ \A d \in Calls : pc[d] \in Waiting => d = Head(queue)
  <1>1. CASE queue = <<>>
    BY <1>1 DEF NoneForgotten, Queued
  <1>2. CASE queue # <<>>
    <2>1. PICK q \in Calls : queue = <<q>>
      BY <1>2 DEF AtMostOneQueued
    <2>2. Tail(<<q>>) = <<>> /\ Append(<<>>, q) = <<q>> /\ Head(<<q>>) = q /\ <<q>> # <<>>
          /\ \A i \in DOMAIN <<q>> : <<q>>[i] = q
      OBVIOUS
    <2> QED BY <2>1, <2>2 DEF NoneForgotten, Queued
  <1> QED BY <1>1, <1>2

LEMMA UnstaleStep ==
  ASSUME MaxTurn = 1 PROVE IInv /\ NoneForgotten /\ Unstale /\ [Next]_vars => Unstale'
  <1> SUFFICES ASSUME IInv, NoneForgotten, Unstale, [Next]_vars PROVE Unstale'
    OBVIOUS
  <1>q. /\ AtMostOneQueued
        /\ queue = <<>> => \A d \in Calls : pc[d] \notin Waiting
        /\ queue # <<>> => /\ Tail(queue) = <<>>
                           /\ Append(Tail(queue), Head(queue)) = queue
                           /\ \A d \in Calls : pc[d] \in Waiting => d = Head(queue)
    BY AloneInQueue DEF Unstale
  <1>1. ASSUME NEW c \in Calls, NEW o \in {"create", "message", "cancel"}, NEW t \in Tasks,
               Call(c, o, t)
        PROVE  Unstale'
    <2>0. queue = <<>> /\ queue' = Append(queue, c)
      BY <1>1 DEF Call
    <2>1. queue' = Append(<<>>, c)
      BY <2>0
    <2>2. \A d \in Calls : pc'[d] # "append"
      BY <1>1, <1>q, <2>0 DEF Call, Waiting, IInv, TypeOK
    <2>3. queue' = <<c>>
      BY <2>1
    <2> QED BY <2>2, <2>3 DEF Unstale, AtMostOneQueued
  <1>2. ASSUME NEW c \in Calls, Resume(c) PROVE Unstale'
    <2>1. /\ queue # <<>> /\ c = Head(queue)
          /\ queue' = Tail(queue) \/ queue' = Append(Tail(queue), c)
      BY <1>2 DEF Resume, CreateTask, CheckTask, AppendEvent, BeginPersist, Resumes, Awaits, Returns
    <2>2. AtMostOneQueued'
      BY <1>q, <2>1 DEF AtMostOneQueued
    <2>3. \A d \in Calls \ {c} : pc[d] # "append"
      BY <1>q, <2>1 DEF Waiting
    <2>4. CASE CheckTask(c)
      <3>1. /\ UNCHANGED <<arg, tasks>> /\ \A d \in Calls \ {c} : pc'[d] = pc[d]
            /\ pc'[c] = "append" => seen'[c] = tasks[arg[c]].status
        BY <2>4 DEF CheckTask, Resumes, Awaits, Returns, store, IInv, TypeOK
      <3> QED BY <2>2, <2>3, <3>1 DEF Unstale
    <2>5. CASE CreateTask(c) \/ AppendEvent(c) \/ BeginPersist(c)
      <3>1. \A d \in Calls : pc'[d] # "append"
        BY <2>3, <2>5 DEF CreateTask, AppendEvent, BeginPersist, Awaits, IInv, TypeOK
      <3> QED BY <2>2, <3>1 DEF Unstale
    <2> QED BY <1>2, <2>4, <2>5 DEF Resume
  <1>3. ASSUME NEW c \in Calls, FileOp(c) \/ DiskFault(c) PROVE Unstale'
    <2>1. /\ queue = <<>> /\ queue' = <<>>
          /\ \E p \in FileOps \cup {"done"} : pc' = [pc EXCEPT ![c] = p]
      BY <1>3 DEF FileOp, OpenTemp, WriteTemp, RenameTemp, RenameMisses, DiskFault, Fails, Answers,
                  Performs, FileOps
    <2>2. \A d \in Calls : pc'[d] # "append"
      BY <1>q, <2>1 DEF Waiting, FileOps, IInv, TypeOK
    <2> QED BY <2>1, <2>2 DEF Unstale, AtMostOneQueued
  <1>4. CASE Crash
    <2>1. queue' = <<>> /\ \A d \in Calls : pc'[d] # "append"
      BY <1>4 DEF Crash, InFlight, Waiting, IInv, TypeOK
    <2> QED BY <2>1 DEF Unstale, AtMostOneQueued
  <1>5. CASE Boot
    <2>1. queue' = queue /\ \A d \in Calls : pc'[d] # "append"
      BY <1>5 DEF Boot, NoneForgotten, Waiting
    <2> QED BY <1>q, <2>1 DEF Unstale, AtMostOneQueued
  <1>6. CASE UNCHANGED vars
    BY <1>6 DEF vars, Unstale, AtMostOneQueued
  <1> QED BY <1>1, <1>2, <1>3, <1>4, <1>5, <1>6 DEF Next

(* When every call comes by a turn of the event loop of its own, nothing   *)
(* is lost but by a process that dies while calls overlap: neither failing *)
(* nor overtaking file operations do it, nor a status gone stale.          *)
THEOREM LostForCause ==
  ASSUME MaxTurn = 1 PROVE HSpec => [][trust # "lost" /\ trust' = "lost" => DiesShared]_hvars
  <1>1. HInit => Unstale
    BY DEF HInit, Init, Unstale, AtMostOneQueued
  <1>2. Books /\ Unstale /\ [HNext]_hvars => Unstale'
    <2>1. [HNext]_hvars => [Next]_vars
      BY DEF HNext, hvars
    <2> QED BY <2>1, UnstaleStep DEF Books
  <1>3. Books /\ Unstale /\ [HNext]_hvars => [trust # "lost" /\ trust' = "lost" => DiesShared]_hvars
    <2> SUFFICES ASSUME Unstale, HNext, trust # "lost", trust' = "lost" PROVE DiesShared
      BY DEF hvars
    <2>1. PushesStale \/ DiesShared
      BY DEF HNext, Records
    <2>2. ~PushesStale
      BY DEF PushesStale, Unstale
    <2> QED BY <2>1, <2>2
  <1> QED BY <1>1, <1>2, <1>3, BooksInvariance, PTL DEF HSpec
-----------------------------------------------------------------------------
(* The maps, when calls do not share a turn and the process lives; they    *)
(* may overlap in their file operations, which may fail.                   *)
TurnByTurn == MaxTurn = 1 /\ MaxCrashes = 0

(* At most one call waits in the queue.                                    *)
OneQueued ==
    /\ up
    /\ queue = <<>> \/ \E c \in Calls : queue = <<c>>
    /\ \A c \in Calls : pc[c] \in Waiting => queue = <<c>>

Last(rows) == rows[Len(rows)]

(* The calls whose event is in the log.                                    *)
Logged == {c \in Calls : pc[c] \in {"persist"} \cup FileOps \/ reply[c] \in {"ok", "error"}}

(* The status of a task tells whether its log is closed.                   *)
GoodLog(t) ==
    /\ events[t] = <<>> <=> tasks[t] = NoTask
    /\ events[t] # <<>> =>
         /\ Begun(t)
         /\ tasks[t].status = "canceled" <=> Last(events[t]).type = "task.canceled"
    /\ \A i \in DOMAIN events[t] :
         /\ arg[events[t][i].by] = t /\ events[t][i].by \in Logged
         /\ \A j \in DOMAIN events[t] : events[t][j].by = events[t][i].by => j = i
         /\ events[t][i].type = "task.canceled" => i = Len(events[t])
LogBooks == \A t \in Tasks : GoodLog(t)

(* What a call found is as it was when it resumes, and what it was told    *)
(* stays true.                                                             *)
FoundBooks ==
    \A c \in Calls :
        /\ pc[c] = "resume" /\ op[c] = "create" => tasks[arg[c]] = NoTask
        /\ pc[c] = "append" =>
             /\ tasks[arg[c]] # NoTask /\ tasks[arg[c]].status # "canceled"
             /\ seen[c] = tasks[arg[c]].status
        /\ reply[c] = "terminal" => tasks[arg[c]].status = "canceled"
        /\ c \in Logged => \E i \in DOMAIN events[arg[c]] : events[arg[c]][i].by = c

Turns == OneQueued /\ LogBooks /\ FoundBooks
-----------------------------------------------------------------------------
LEMMA InitTurns == ASSUME Init PROVE Turns
  <1> USE DEF Init
  <1>1. OneQueued
    BY DEF OneQueued, Waiting
  <1>2. LogBooks
    BY DEF LogBooks, GoodLog, NoRows, NoTasks
  <1>3. FoundBooks
    BY DEF FoundBooks, Logged, FileOps
  <1> QED BY <1>1, <1>2, <1>3 DEF Turns

LEMMA CallTurns ==
  ASSUME TurnByTurn, IInv, Turns,
         NEW c \in Calls, NEW o \in {"create", "message", "cancel"}, NEW t \in Tasks,
         Call(c, o, t)
  PROVE  Turns'
  <1> USE DEF Call, store
  <1>q. queue = <<>> /\ queue' = <<c>> /\ up'
    <2>1. queue = <<>>
      BY DEF TurnByTurn
    <2>2. Append(<<>>, c) = <<c>>
      OBVIOUS
    <2> QED BY <2>1, <2>2 DEF Turns, OneQueued
  <1>a. /\ \A d \in Calls \ {c} : arg'[d] = arg[d] /\ op'[d] = op[d] /\ pc'[d] = pc[d]
        /\ arg'[c] = t /\ op'[c] = o /\ pc'[c] = "resume" /\ pc[c] = "idle"
    BY DEF IInv, TypeOK
  <1>n. \A d \in Calls : pc[d] \notin Waiting
    BY <1>q DEF Turns, OneQueued
  <1>r. reply[c] = "none" /\ c \notin Logged
    BY DEF IInv, CallBooks, Logged, FileOps
  <1>l. \A d \in Calls : d \in Logged => d \in Logged' /\ d # c
    BY <1>a, <1>r DEF Logged
  <1>m. \A d \in Calls : d \in Logged' => d \in Logged /\ d # c
    BY <1>a, <1>r DEF Logged, FileOps
  <1>1. OneQueued'
    BY <1>q, <1>a, <1>n DEF OneQueued, Waiting
  <1>2. LogBooks'
    <2>1. \A u \in Tasks : Begun(u) => Begun(u)'
      BY <1>a DEF Begun
    <2> SUFFICES ASSUME NEW u \in Tasks PROVE GoodLog(u)'
      BY DEF LogBooks
    <2>2. \A i \in DOMAIN events[u] : /\ arg'[events[u][i].by] = u
                                      /\ events[u][i].by \in Logged'
      BY <1>a, <1>l, RowsByCalls DEF IInv, Turns, LogBooks, GoodLog
    <2> QED BY <2>1, <2>2 DEF Turns, LogBooks, GoodLog, Last
  <1>3. FoundBooks'
    <2>1. o = "create" => ~Begun(t)
      BY DEF Begun
    <2>2. o = "create" => tasks[t] = NoTask
      BY <2>1 DEF Turns, LogBooks, GoodLog
    <2> QED BY <1>a, <1>m, <1>r, <2>2 DEF Turns, FoundBooks
  <1> QED BY <1>1, <1>2, <1>3 DEF Turns

(* The call at the head of the queue is the only one that waits.           *)
LEMMA OnlyQueued ==
  ASSUME IInv, Turns, NEW c \in Calls, queue # <<>>, c = Head(queue)
  PROVE  /\ queue = <<c>> /\ Tail(queue) = <<>> /\ Append(Tail(queue), c) = <<c>>
         /\ \A d \in Calls \ {c} : pc[d] \notin Waiting
  <1>1. PICK q \in Calls : queue = <<q>>
    BY DEF Turns, OneQueued
  <1>2. queue = <<c>>
    BY <1>1
  <1>3. Tail(<<c>>) = <<>> /\ Append(<<>>, c) = <<c>>
    OBVIOUS
  <1>4. \A d \in Calls \ {c} : <<d>> # <<c>>
    OBVIOUS
  <1> QED BY <1>2, <1>3, <1>4 DEF Turns, OneQueued

LEMMA CreateTaskTurns ==
  ASSUME IInv, Turns, NEW c \in Calls, CreateTask(c) PROVE Turns'
  <1> USE DEF CreateTask, Resumes, Awaits
  <1> DEFINE row == [type |-> EventType(c), status |-> "accepted", by |-> c]
             task == [status |-> "accepted", summary |-> Summary(c)]
  <1>c. arg[c] \in Tasks /\ op[c] = "create" /\ pc[c] = "resume" /\ reply[c] = "none"
    BY DEF IInv, CallBooks
  <1>q. queue' = <<c>> /\ \A d \in Calls \ {c} : pc[d] \notin Waiting
    BY OnlyQueued
  <1>a. /\ \A d \in Calls \ {c} : pc'[d] = pc[d]
        /\ pc'[c] = "persist" /\ arg' = arg /\ op' = op /\ reply' = reply
    BY DEF IInv, TypeOK
  <1>m. /\ \A t \in Tasks : tasks'[t] = IF t = arg[c] THEN task ELSE tasks[t]
        /\ \A t \in Tasks : events'[t] = IF t = arg[c] THEN <<row>> ELSE events[t]
    BY <1>c DEF IInv, TypeOK
  <1>n. /\ tasks[arg[c]] = NoTask /\ events[arg[c]] = <<>> /\ tasks[arg[c]].status = "none"
        /\ task # NoTask /\ task.status = "accepted"
    BY <1>c DEF Turns, FoundBooks, LogBooks, GoodLog, NoTask
  <1>r. /\ <<row>> # <<>> /\ DOMAIN <<row>> = {1} /\ <<row>>[1] = row /\ Len(<<row>>) = 1
        /\ row.by = c /\ row.type = "task.accepted"
    BY <1>c DEF EventType
  <1>l. /\ c \in Logged' /\ c \notin Logged
        /\ \A d \in Calls \ {c} : d \in Logged' <=> d \in Logged
    BY <1>a, <1>c DEF Logged, FileOps
  <1> HIDE DEF task, row
  <1>1. OneQueued'
    BY <1>q, <1>a DEF OneQueued, Turns
  <1>2. LogBooks'
    <2> SUFFICES ASSUME NEW t \in Tasks PROVE GoodLog(t)'
      BY DEF LogBooks
    <2>1. CASE t = arg[c]
      <3>1. Begun(t)'
        BY <1>a, <2>1 DEF Begun
      <3> DEFINE new == <<row>>
      <3>2. /\ events'[t] = new /\ tasks'[t] = task /\ new # <<>> /\ DOMAIN new = {1}
            /\ new[1] = row /\ Len(new) = 1
        BY <1>m, <1>r, <2>1
      <3> HIDE DEF new
      <3>3. \A i \in DOMAIN new : /\ arg[new[i].by] = t /\ new[i].by \in Logged'
                                  /\ \A j \in DOMAIN new : j = i
                                  /\ new[i].type # "task.canceled"
        BY <1>r, <1>l, <2>1, <3>2
      <3>4. Last(new).type # "task.canceled"
        BY <1>r, <3>2 DEF Last
      <3> QED BY <1>a, <1>n, <3>1, <3>2, <3>3, <3>4 DEF GoodLog, Last
    <2>2. CASE t # arg[c]
      <3>1. Begun(t) => Begun(t)'
        BY <1>a DEF Begun
      <3>2. events'[t] = events[t] /\ tasks'[t] = tasks[t]
        BY <1>m, <2>2
      <3>3. \A i \in DOMAIN events[t] : events[t][i].by \in Logged => events[t][i].by \in Logged'
        BY <1>l, RowsByCalls DEF IInv
      <3> QED BY <1>a, <3>1, <3>2, <3>3 DEF Turns, LogBooks, GoodLog, Last
    <2> QED BY <2>1, <2>2
  <1>3. FoundBooks'
    <2> SUFFICES ASSUME NEW d \in Calls
                 PROVE  /\ pc'[d] \notin {"resume", "append"}
                        /\ reply'[d] = "terminal" => tasks'[arg'[d]].status = "canceled"
                        /\ d \in Logged' => \E i \in DOMAIN events'[arg'[d]] : events'[arg'[d]][i].by = d
      BY DEF FoundBooks
    <2>1. CASE d = c
      BY <1>a, <1>c, <1>m, <1>r, <2>1
    <2>2. CASE d # c
      <3>1. reply[d] # "none" \/ d \in Logged => arg[d] \in Tasks
        BY DEF IInv, CallBooks, Logged, FileOps
      <3>2. reply[d] = "terminal" \/ d \in Logged => arg[d] # arg[c]
        BY <1>n, <2>2 DEF Turns, FoundBooks
      <3> QED BY <1>a, <1>q, <1>m, <1>l, <2>2, <3>1, <3>2 DEF Turns, FoundBooks, Waiting
    <2> QED BY <2>1, <2>2
  <1> QED BY <1>1, <1>2, <1>3 DEF Turns

LEMMA CheckTaskTurns ==
  ASSUME IInv, Turns, NEW c \in Calls, CheckTask(c) PROVE Turns'
  <1> USE DEF CheckTask, Resumes, store
  <1>c. arg[c] \in Tasks /\ pc[c] = "resume" /\ reply[c] = "none"
    BY DEF IInv, CallBooks
  <1>q. /\ \A d \in Calls \ {c} : pc[d] \notin Waiting
        /\ Tail(queue) = <<>> /\ Append(Tail(queue), c) = <<c>>
    BY OnlyQueued
  <1>p. \/ /\ pc' = [pc EXCEPT ![c] = "done"] /\ queue' = Tail(queue)
           /\ \/ reply' = [reply EXCEPT ![c] = "not_found"]
              \/ reply' = [reply EXCEPT ![c] = "terminal"] /\ tasks[arg[c]].status = "canceled"
        \/ /\ pc' = [pc EXCEPT ![c] = "append"] /\ seen' = [seen EXCEPT ![c] = tasks[arg[c]].status]
           /\ tasks[arg[c]] # NoTask /\ tasks[arg[c]].status # "canceled"
           /\ queue' = Append(Tail(queue), c) /\ reply' = reply
    BY DEF Returns, Awaits, IsTerminal
  <1>a. /\ \A d \in Calls \ {c} : pc'[d] = pc[d] /\ reply'[d] = reply[d]
        /\ \/ /\ pc'[c] = "done" /\ reply'[c] \in {"not_found", "terminal"}
              /\ reply'[c] = "terminal" => tasks[arg[c]].status = "canceled"
              /\ queue' = <<>>
           \/ /\ pc'[c] = "append" /\ reply'[c] = "none" /\ seen'[c] = tasks[arg[c]].status
              /\ tasks[arg[c]] # NoTask /\ tasks[arg[c]].status # "canceled"
              /\ queue' = <<c>>
    <2>1. CASE pc' = [pc EXCEPT ![c] = "done"] /\ queue' = Tail(queue)
               /\ reply' = [reply EXCEPT ![c] = "not_found"]
      BY ONLY <2>1, <1>q, IInv DEF IInv, TypeOK
    <2>2. CASE pc' = [pc EXCEPT ![c] = "done"] /\ queue' = Tail(queue)
               /\ reply' = [reply EXCEPT ![c] = "terminal"] /\ tasks[arg[c]].status = "canceled"
      BY ONLY <2>2, <1>q, IInv DEF IInv, TypeOK
    <2>3. CASE /\ pc' = [pc EXCEPT ![c] = "append"] /\ seen' = [seen EXCEPT ![c] = tasks[arg[c]].status]
               /\ tasks[arg[c]] # NoTask /\ tasks[arg[c]].status # "canceled"
               /\ queue' = Append(Tail(queue), c) /\ reply' = reply
      BY ONLY <2>3, <1>q, <1>c, IInv DEF IInv, TypeOK
    <2> QED BY ONLY <1>p, <2>1, <2>2, <2>3
  <1>l. \A d \in Calls : d \in Logged' <=> d \in Logged
    BY <1>a, <1>c DEF Logged, FileOps
  <1>1. OneQueued'
    BY <1>a, <1>q DEF OneQueued, Turns, Waiting
  <1>2. LogBooks'
    <2>1. \A t \in Tasks : Begun(t) => Begun(t)'
      BY <1>a DEF Begun
    <2> QED BY <1>l, <2>1, RowsByCalls DEF IInv, Turns, LogBooks, GoodLog
  <1>3. FoundBooks'
    BY <1>a, <1>l, <1>q DEF Turns, FoundBooks, Waiting
  <1> QED BY <1>1, <1>2, <1>3 DEF Turns

LEMMA AppendEventTurns ==
  ASSUME IInv, Turns, NEW c \in Calls, AppendEvent(c) PROVE Turns'
  <1> USE DEF AppendEvent, Resumes, Awaits
  <1> DEFINE row == [type |-> EventType(c), status |-> RowStatus(c), by |-> c]
             task == [status |-> RowStatus(c), summary |-> Summary(c)]
             old == events[arg[c]]
             n == Len(old) + 1
  <1>c. /\ arg[c] \in Tasks /\ op[c] \in {"message", "cancel"} /\ pc[c] = "append"
        /\ seen[c] \in {"accepted", "canceled"} /\ reply[c] = "none"
    BY DEF IInv, CallBooks
  <1>q. queue' = <<c>> /\ \A d \in Calls \ {c} : pc[d] \notin Waiting
    BY OnlyQueued
  <1>a. /\ \A d \in Calls \ {c} : pc'[d] = pc[d]
        /\ pc'[c] = "persist" /\ arg' = arg /\ op' = op /\ reply' = reply
    BY DEF IInv, TypeOK
  <1>o. /\ tasks[arg[c]] # NoTask /\ tasks[arg[c]].status # "canceled"
        /\ task # NoTask /\ task.status = RowStatus(c) /\ row.by = c
        /\ RowStatus(c) = "canceled" <=> row.type = "task.canceled"
    BY <1>c DEF Turns, FoundBooks, NoTask, RowStatus, EventType
  <1>m. /\ \A t \in Tasks : tasks'[t] = IF t = arg[c] THEN task ELSE tasks[t]
        /\ \A t \in Tasks : events'[t] = IF t = arg[c] THEN Append(old, row) ELSE events[t]
    BY <1>c DEF IInv, TypeOK, TaskStatus, RowPushed
  <1>r. /\ Len(old) \in Nat /\ DOMAIN old = 1..Len(old)
        /\ DOMAIN Append(old, row) = 1..n /\ Append(old, row)[n] = row
        /\ Len(Append(old, row)) = n /\ Append(old, row) # <<>>
        /\ \A i \in DOMAIN old : Append(old, row)[i] = old[i]
    <2>1. old \in Seq(Row)
      BY <1>c DEF IInv, TypeOK
    <2>2. row \in Row
      BY <1>c, EventTypes DEF Row, RowStatus
    <2> HIDE DEF row, old
    <2>4. /\ Append(old, row) \in Seq(Row) /\ Len(Append(old, row)) = Len(old) + 1
          /\ \A i \in 1..Len(old) : Append(old, row)[i] = old[i]
          /\ Append(old, row)[Len(old) + 1] = row /\ Append(old, row) # <<>>
          /\ Len(old) \in Nat /\ DOMAIN old = 1..Len(old)
          /\ DOMAIN Append(old, row) = 1..Len(Append(old, row))
      BY ONLY <2>1, <2>2, AppendProperties
    <2> QED BY ONLY <2>4
  <1>l. /\ c \in Logged' /\ c \notin Logged
        /\ \A d \in Calls \ {c} : d \in Logged' <=> d \in Logged
    BY <1>a, <1>c DEF Logged, FileOps
  <1>b. old # <<>> /\ \A i \in DOMAIN old : /\ old[i].type # "task.canceled"
                                           /\ old[i].by \in Calls /\ old[i].by # c
                                           /\ arg[old[i].by] = arg[c] /\ old[i].by \in Logged
                                           /\ \A j \in DOMAIN old : old[j].by = old[i].by => j = i
    <2>1. old # <<>>
      BY <1>c, <1>o DEF Turns, LogBooks, GoodLog
    <2>2. \A i \in DOMAIN old : old[i].type = "task.canceled" => FALSE
      BY <1>c, <1>o, <2>1 DEF Turns, LogBooks, GoodLog, Last
    <2> QED BY <1>c, <1>l, <2>1, <2>2, RowsByCalls DEF IInv, Turns, LogBooks, GoodLog
  <1> HIDE DEF task, row, old, n
  <1>1. OneQueued'
    BY <1>q, <1>a DEF OneQueued, Turns
  <1>2. LogBooks'
    <2> SUFFICES ASSUME NEW t \in Tasks PROVE GoodLog(t)'
      BY DEF LogBooks
    <2>1. CASE t = arg[c]
      <3> DEFINE new == Append(old, row)
      <3>0. events'[t] = new /\ tasks'[t] = task
        BY <1>m, <2>1
      <3>1. Begun(t)'
        BY <1>a, <2>1 DEF Begun
      <3>2. \A i \in DOMAIN new : \/ i = n /\ new[i] = row
                                  \/ i \in DOMAIN old /\ new[i] = old[i]
        BY <1>r DEF n
      <3>3. \A i \in DOMAIN new : arg[new[i].by] = t /\ new[i].by \in Logged'
        BY <1>b, <1>l, <1>o, <2>1, <3>2
      <3>4. \A i, j \in DOMAIN new : new[j].by = new[i].by => j = i
        BY <1>b, <1>o, <3>2
      <3>5. \A i \in DOMAIN new : new[i].type = "task.canceled" => i = Len(new)
        BY <1>b, <1>r, <3>2
      <3>6. new # <<>> /\ Last(new) = row
        BY <1>r DEF Last
      <3> HIDE DEF new
      <3>7. events'[t] # <<>> /\ tasks'[t] # NoTask
            /\ (tasks'[t].status = "canceled" <=> Last(new).type = "task.canceled")
        BY <1>o, <3>0, <3>6
      <3> QED BY <1>a, <3>0, <3>1, <3>3, <3>4, <3>5, <3>7 DEF GoodLog, Last
    <2>2. CASE t # arg[c]
      <3>1. Begun(t) => Begun(t)'
        BY <1>a DEF Begun
      <3>2. events'[t] = events[t] /\ tasks'[t] = tasks[t]
        BY <1>m, <2>2
      <3>3. \A i \in DOMAIN events[t] : events[t][i].by \in Logged => events[t][i].by \in Logged'
        BY <1>l, RowsByCalls DEF IInv
      <3> QED BY <1>a, <3>1, <3>2, <3>3 DEF Turns, LogBooks, GoodLog, Last
    <2> QED BY <2>1, <2>2
  <1>3. FoundBooks'
    <2> SUFFICES ASSUME NEW d \in Calls
                 PROVE  /\ pc'[d] \notin {"resume", "append"}
                        /\ reply'[d] = "terminal" => tasks'[arg'[d]].status = "canceled"
                        /\ d \in Logged' => \E i \in DOMAIN events'[arg'[d]] : events'[arg'[d]][i].by = d
      BY DEF FoundBooks
    <2>0. events'[arg[c]] = Append(old, row)
      BY <1>c, <1>m
    <2>1. CASE d = c
      <3>1. n \in DOMAIN events'[arg[c]] /\ events'[arg[c]][n].by = c
        BY <1>o, <1>r, <2>0 DEF n
      <3> QED BY <1>a, <1>c, <2>1, <3>1
    <2>2. CASE d # c
      <3>1. reply[d] # "none" \/ d \in Logged => arg[d] \in Tasks
        BY DEF IInv, CallBooks, Logged, FileOps
      <3>2. reply[d] = "terminal" => arg[d] # arg[c]
        BY <1>o DEF Turns, FoundBooks
      <3>3. d \in Logged => \E i \in DOMAIN events'[arg[d]] : events'[arg[d]][i].by = d
        <4> SUFFICES ASSUME d \in Logged PROVE \E i \in DOMAIN events'[arg[d]] : events'[arg[d]][i].by = d
          OBVIOUS
        <4>1. PICK i \in DOMAIN events[arg[d]] : events[arg[d]][i].by = d
          BY DEF Turns, FoundBooks
        <4>2. CASE arg[d] = arg[c]
          <5>1. i \in DOMAIN old /\ old[i].by = d
            BY <4>1, <4>2 DEF old
          <5>2. i \in DOMAIN Append(old, row) /\ Append(old, row)[i].by = d
            BY <1>r, <5>1 DEF n
          <5> QED BY <2>0, <4>2, <5>2
        <4>3. CASE arg[d] # arg[c]
          BY <1>m, <3>1, <4>1, <4>3
        <4> QED BY <4>2, <4>3
      <3> QED BY <1>a, <1>q, <1>m, <1>l, <2>2, <3>1, <3>2, <3>3 DEF Turns, FoundBooks, Waiting
    <2> QED BY <2>1, <2>2
  <1> QED BY <1>1, <1>2, <1>3 DEF Turns

(* Nothing of the above changes while a call is about its files.           *)
LEMMA PersistingTurns ==
  ASSUME IInv, Turns, NEW c \in Calls, pc[c] \in {"persist"} \cup FileOps,
         \A d \in Calls \ {c} : pc[d] \notin Waiting,
         UNCHANGED <<up, store, op, arg, seen>>, queue' = <<>>,
         NEW p \in FileOps \cup {"done"}, pc' = [pc EXCEPT ![c] = p],
         \/ p # "done" /\ reply' = reply
         \/ \E r \in {"ok", "error"} : reply' = [reply EXCEPT ![c] = r]
  PROVE  Turns'
  <1> USE DEF store
  <1>a. /\ \A d \in Calls \ {c} : pc'[d] = pc[d] /\ reply'[d] = reply[d]
        /\ pc'[c] = p /\ (p # "done" \/ reply'[c] \in {"ok", "error"})
        /\ reply'[c] # "terminal"
    BY DEF IInv, TypeOK, CallBooks, FileOps
  <1>l. c \in Logged /\ Logged' = Logged
    BY <1>a DEF Logged
  <1>1. OneQueued'
    BY <1>a DEF OneQueued, Turns, Waiting, FileOps
  <1>2. LogBooks'
    <2> SUFFICES ASSUME NEW u \in Tasks PROVE GoodLog(u)'
      BY DEF LogBooks
    <2>1. Begun(u) => Begun(u)'
      BY <1>a DEF Begun, FileOps
    <2> QED BY <1>l, <2>1 DEF Turns, LogBooks, GoodLog, Last
  <1>3. FoundBooks'
    <2> SUFFICES ASSUME NEW d \in Calls
                 PROVE  /\ pc'[d] \notin {"resume", "append"}
                        /\ reply'[d] = "terminal" => tasks[arg[d]].status = "canceled"
                        /\ d \in Logged => \E i \in DOMAIN events[arg[d]] : events[arg[d]][i].by = d
      BY <1>l DEF FoundBooks
    <2> QED BY <1>a DEF Turns, FoundBooks, Waiting, FileOps
  <1> QED BY <1>1, <1>2, <1>3 DEF Turns

LEMMA BeginPersistTurns ==
  ASSUME IInv, Turns, NEW c \in Calls, BeginPersist(c) PROVE Turns'
  <1> USE DEF BeginPersist, Resumes
  <1>1. queue' = <<>> /\ \A d \in Calls \ {c} : pc[d] \notin Waiting
    BY OnlyQueued
  <1> QED BY <1>1, PersistingTurns DEF FileOps

LEMMA FileOpTurns ==
  ASSUME IInv, Turns, NEW c \in Calls, FileOp(c) \/ DiskFault(c) PROVE Turns'
  <1>1. /\ queue = <<>> /\ queue' = <<>> /\ pc[c] \in FileOps
        /\ UNCHANGED <<up, store, op, arg, seen>>
    BY DEF FileOp, OpenTemp, WriteTemp, RenameTemp, RenameMisses, DiskFault, Performs, FileOps
  <1>2. \A d \in Calls : pc[d] \notin Waiting
    <2>1. \A d \in Calls : <<>> # <<d>>
      OBVIOUS
    <2> QED BY <1>1, <2>1 DEF Turns, OneQueued
  <1>3. \E p \in FileOps \cup {"done"} :
          /\ pc' = [pc EXCEPT ![c] = p]
          /\ \/ p # "done" /\ reply' = reply
             \/ \E r \in {"ok", "error"} : reply' = [reply EXCEPT ![c] = r]
    BY DEF FileOp, OpenTemp, WriteTemp, RenameTemp, RenameMisses, DiskFault, Fails, Failure,
           Answers, FileOps
  <1> QED BY <1>1, <1>2, <1>3, PersistingTurns

LEMMA StutterTurns == ASSUME Turns, UNCHANGED vars PROVE Turns'
  <1> USE DEF vars
  <1>1. OneQueued' /\ Logged' = Logged
    BY DEF Turns, OneQueued, Logged
  <1>2. LogBooks'
    BY <1>1 DEF Turns, LogBooks, GoodLog, Begun, Last
  <1>3. FoundBooks'
    BY <1>1 DEF Turns, FoundBooks
  <1> QED BY <1>1, <1>2, <1>3 DEF Turns

LEMMA TurnsStep == ASSUME TurnByTurn PROVE IInv /\ Turns /\ [Next]_vars => Turns'
  <1> SUFFICES ASSUME IInv, Turns, [Next]_vars PROVE Turns'
    OBVIOUS
  <1>1. ASSUME NEW c \in Calls, NEW o \in {"create", "message", "cancel"}, NEW t \in Tasks,
               Call(c, o, t)
        PROVE Turns'
    BY <1>1, CallTurns
  <1>2. ASSUME NEW c \in Calls, Resume(c) PROVE Turns'
    BY <1>2, CreateTaskTurns, CheckTaskTurns, AppendEventTurns, BeginPersistTurns DEF Resume
  <1>3. ASSUME NEW c \in Calls, FileOp(c) \/ DiskFault(c) PROVE Turns'
    BY <1>3, FileOpTurns
  <1>4. ~Crash
    BY DEF Crash, TurnByTurn, IInv, TypeOK
  <1>5. ~Boot
    BY DEF Boot, Turns, OneQueued
  <1> QED BY <1>1, <1>2, <1>3, <1>4, <1>5, StutterTurns DEF Next

LEMMA TurnsInvariance == ASSUME TurnByTurn PROVE Spec => []Turns
  <1>1. IInv /\ Turns /\ [Next]_vars => Turns'
    BY TurnsStep
  <1>2. Init => Turns
    BY InitTurns
  <1> QED BY <1>1, <1>2, TypesInvariance, PTL DEF Spec

(* When calls do not share a turn and the process lives, replies are       *)
(* truthful, however persists overlap and fail: a call turned down met a   *)
(* canceled task, an acknowledged one left exactly one event.              *)
THEOREM TruthfulReplies == ASSUME TurnByTurn PROVE Spec => []RepliesTruthful
  <1>1. IInv /\ Turns => RepliesTruthful
    <2> SUFFICES ASSUME IInv, Turns, NEW c \in Calls, reply[c] = "ok"
                 PROVE  Cardinality({i \in DOMAIN events[arg[c]] : events[arg[c]][i].by = c}) = 1
      BY DEF RepliesTruthful, Turns, FoundBooks
    <2> DEFINE rows == events[arg[c]]
    <2>1. arg[c] \in Tasks /\ c \in Logged
      BY DEF IInv, CallBooks, Logged
    <2>2. PICK i \in DOMAIN rows : rows[i].by = c
      BY <2>1 DEF Turns, FoundBooks
    <2>3. \A j \in DOMAIN rows : rows[j].by = c => j = i
      BY <2>1, <2>2 DEF Turns, LogBooks, GoodLog
    <2>4. {j \in DOMAIN rows : rows[j].by = c} = {i}
      BY <2>2, <2>3
    <2> QED BY <2>4, FS_Singleton
  <1> QED BY <1>1, TypesInvariance, TurnsInvariance, PTL

(* ... and nothing follows a cancellation in the log of its task.          *)
THEOREM CancellationsClose == ASSUME TurnByTurn PROVE Spec => []NothingAfterCancel
  <1>1. Turns => NothingAfterCancel
    BY DEF Turns, LogBooks, GoodLog, NothingAfterCancel, Closes
  <1> QED BY <1>1, TurnsInvariance, PTL
-----------------------------------------------------------------------------
(* The maps implement the ledger.                                          *)
Types == {"task.accepted", "task.message.accepted", "task.canceled"}
TypesOf(rows) == [i \in DOMAIN rows |-> rows[i].type]
Log == [t \in Tasks |-> TypesOf(events[t])]

LEMMA TypesAreSequence ==
  ASSUME NEW rows \in Seq(Row)
  PROVE  /\ TypesOf(rows) \in Seq(Types) /\ Len(TypesOf(rows)) = Len(rows)
         /\ \A i \in 1..Len(rows) : TypesOf(rows)[i] = rows[i].type
         /\ Len(rows) \in Nat /\ DOMAIN rows = 1..Len(rows)
  <1>1. Len(rows) \in Nat /\ DOMAIN rows = 1..Len(rows) /\ \A i \in 1..Len(rows) : rows[i] \in Row
    OBVIOUS
  <1>2. \A i \in 1..Len(rows) : rows[i].type \in Types
    BY <1>1 DEF Row, Types
  <1>3. TypesOf(rows) \in [1..Len(rows) -> Types]
    BY <1>1, <1>2 DEF TypesOf
  <1>4. TypesOf(rows) \in Seq(Types)
    BY <1>1, <1>3, SeqDef
  <1>5. DOMAIN TypesOf(rows) = 1..Len(rows) /\ DOMAIN TypesOf(rows) = 1..Len(TypesOf(rows))
        /\ Len(TypesOf(rows)) \in Nat
    BY <1>3, <1>4, LenProperties
  <1>6. Len(TypesOf(rows)) = Len(rows)
    BY <1>1, <1>5
  <1> QED BY <1>1, <1>4, <1>6 DEF TypesOf

LEMMA TypesOfAppend ==
  ASSUME NEW rows \in Seq(Row), NEW row \in Row
  PROVE  TypesOf(Append(rows, row)) = Append(TypesOf(rows), row.type)
  <1> DEFINE new == Append(rows, row)
             n == Len(rows)
  <1>1. /\ new \in Seq(Row) /\ Len(new) = n + 1 /\ n \in Nat
        /\ \A i \in 1..n : new[i] = rows[i]
        /\ new[n + 1] = row
    BY AppendProperties, LenProperties
  <1>2. row.type \in Types
    BY DEF Row, Types
  <1>3. /\ TypesOf(new) \in Seq(Types) /\ Len(TypesOf(new)) = n + 1
        /\ \A i \in 1..(n + 1) : TypesOf(new)[i] = new[i].type
    BY <1>1, TypesAreSequence
  <1>4. /\ TypesOf(rows) \in Seq(Types) /\ Len(TypesOf(rows)) = n
        /\ \A i \in 1..n : TypesOf(rows)[i] = rows[i].type
    BY TypesAreSequence
  <1>5. /\ Append(TypesOf(rows), row.type) \in Seq(Types)
        /\ Len(Append(TypesOf(rows), row.type)) = n + 1
        /\ \A i \in 1..n : Append(TypesOf(rows), row.type)[i] = rows[i].type
        /\ Append(TypesOf(rows), row.type)[n + 1] = row.type
    BY <1>1, <1>2, <1>4, AppendProperties
  <1> HIDE DEF new, n
  <1>6. \A i \in 1..(n + 1) : TypesOf(new)[i] = Append(TypesOf(rows), row.type)[i]
    <2> SUFFICES ASSUME NEW i \in 1..(n + 1)
                 PROVE  TypesOf(new)[i] = Append(TypesOf(rows), row.type)[i]
      OBVIOUS
    <2>1. TypesOf(new)[i] = new[i].type
      BY <1>3
    <2>2. CASE i \in 1..n
      <3>1. new[i] = rows[i]
        BY <1>1, <2>2
      <3> QED BY <1>5, <2>1, <2>2, <3>1
    <2>3. CASE i = n + 1
      <3>1. new[i] = row
        BY <1>1, <2>3
      <3>2. Append(TypesOf(rows), row.type)[i] = row.type
        BY <1>5, <2>3
      <3> QED BY <2>1, <3>1, <3>2
    <2>4. i \in 1..n \/ i = n + 1
      BY <1>1
    <2> QED BY <2>2, <2>3, <2>4
  <1>7. TypesOf(new) = Append(TypesOf(rows), row.type)
    BY <1>3, <1>5, <1>6, SeqEqual
  <1> QED BY <1>7 DEF new

LEMMA EmptyTypes == TypesOf(<<>>) = <<>>
  BY DEF TypesOf

(* An event that is pushed is recorded in the ledger.                      *)
LEMMA PushRecords ==
  ASSUME IInv, NEW t \in Tasks, NEW row \in Row,
         \A u \in Tasks : events'[u] = IF u = t THEN Append(events[t], row) ELSE events[u]
  PROVE  Log' = [Log EXCEPT ![t] = Append(@, row.type)]
  <1>1. events[t] \in Seq(Row)
    BY DEF IInv, TypeOK
  <1>2. TypesOf(events'[t]) = Append(TypesOf(events[t]), row.type)
    BY <1>1, TypesOfAppend
  <1>3. \A u \in Tasks : u # t => TypesOf(events'[u]) = TypesOf(events[u])
    OBVIOUS
  <1> HIDE DEF TypesOf
  <1>4. Log' = [u \in Tasks |-> TypesOf(events'[u])]
    BY DEF Log
  <1> QED BY <1>2, <1>3, <1>4 DEF Log

LEMMA LogKept == ASSUME events' = events PROVE UNCHANGED Log
  BY DEF Log, TypesOf

(* What the ledger calls open is a log that holds something and no         *)
(* cancellation.                                                           *)
LEMMA OpenLogs ==
  ASSUME IInv, Turns, NEW t \in Tasks
  PROVE  /\ Log[t] = <<>> <=> tasks[t] = NoTask
         /\ tasks[t] # NoTask /\ tasks[t].status # "canceled" =>
              Log[t] # <<>> /\ Log[t][Len(Log[t])] # "task.canceled"
  <1>1. events[t] \in Seq(Row) /\ GoodLog(t)
    BY DEF IInv, TypeOK, Turns, LogBooks
  <1>2. /\ Log[t] = TypesOf(events[t]) /\ TypesOf(events[t]) \in Seq(Types)
        /\ Len(TypesOf(events[t])) = Len(events[t]) /\ Len(events[t]) \in Nat
        /\ \A i \in 1..Len(events[t]) : TypesOf(events[t])[i] = events[t][i].type
    BY <1>1, TypesAreSequence DEF Log
  <1> HIDE DEF TypesOf, Log
  <1>3. events[t] = <<>> <=> Len(events[t]) = 0
    BY <1>1, EmptySeq
  <1>4. Log[t] = <<>> <=> Len(Log[t]) = 0
    BY <1>2, EmptySeq
  <1>5. Log[t] = <<>> <=> events[t] = <<>>
    BY <1>2, <1>3, <1>4
  <1>6. ASSUME tasks[t] # NoTask, tasks[t].status # "canceled"
        PROVE  Log[t] # <<>> /\ Log[t][Len(Log[t])] # "task.canceled"
    <2>1. events[t] # <<>> /\ Last(events[t]).type # "task.canceled"
      BY <1>1, <1>6 DEF GoodLog
    <2>2. Len(events[t]) \in 1..Len(events[t])
      BY <1>2, <1>3, <2>1
    <2> QED BY <1>2, <1>5, <2>1, <2>2 DEF Last
  <1> QED BY <1>1, <1>5, <1>6 DEF GoodLog

LEMMA InitLedger == ASSUME Init PROVE Ledger!Init
  <1>1. \A t \in Tasks : events[t] = <<>>
    BY DEF Init, NoRows
  <1> QED BY <1>1 DEF Ledger!Init

LEMMA CreateTaskLedger ==
  ASSUME IInv, Turns, NEW c \in Calls, CreateTask(c) PROVE Ledger!Next
  <1> DEFINE row == [type |-> EventType(c), status |-> "accepted", by |-> c]
  <1>1. op[c] = "create" /\ pc[c] = "resume" /\ arg[c] \in Tasks
    BY DEF IInv, CallBooks, CreateTask, Resumes
  <1>2. PICK t \in Tasks : t = arg[c]
    BY <1>1
  <1>3. tasks[t] = NoTask /\ events[t] = <<>>
    BY <1>1, <1>2 DEF Turns, FoundBooks, LogBooks, GoodLog
  <1>4. row \in Row /\ row.type = "task.accepted"
    BY <1>1 DEF Row, EventType
  <1>5. Append(<<>>, row) = <<row>>
    OBVIOUS
  <1>6. \A u \in Tasks : events'[u] = IF u = t THEN Append(events[t], row) ELSE events[u]
    BY <1>2, <1>3, <1>5 DEF CreateTask, IInv, TypeOK
  <1> HIDE DEF row
  <1>7. Log' = [Log EXCEPT ![t] = Append(@, "task.accepted")]
    BY <1>4, <1>6, PushRecords
  <1>8. Log[t] = <<>>
    BY <1>3, OpenLogs
  <1>9. Ledger!Record(t, "task.accepted")
    BY ONLY <1>7, Zenon DEF Ledger!Record, Log, TypesOf
  <1>10. Ledger!Create(t)
    BY ONLY <1>8, <1>9, Zenon DEF Ledger!Create, Log, TypesOf
  <1> QED BY <1>10 DEF Ledger!Next

LEMMA AppendEventLedger ==
  ASSUME IInv, Turns, NEW c \in Calls, AppendEvent(c) PROVE Ledger!Next
  <1> DEFINE row == [type |-> EventType(c), status |-> RowStatus(c), by |-> c]
  <1>1. /\ op[c] \in {"message", "cancel"} /\ pc[c] = "append" /\ arg[c] \in Tasks
        /\ seen[c] \in {"accepted", "canceled"}
    BY DEF IInv, CallBooks, AppendEvent, Resumes
  <1>2. PICK t \in Tasks : t = arg[c]
    BY <1>1
  <1>3. tasks[t] # NoTask /\ tasks[t].status # "canceled"
    BY <1>1, <1>2 DEF Turns, FoundBooks
  <1>4. row \in Row /\ row.type = EventType(c)
    BY <1>1, EventTypes DEF Row, RowStatus
  <1>5. EventType(c) = "task.message.accepted" \/ EventType(c) = "task.canceled"
    BY <1>1 DEF EventType
  <1>6. \A u \in Tasks : events'[u] = IF u = t THEN Append(events[t], row) ELSE events[u]
    BY <1>2 DEF AppendEvent, RowPushed, IInv, TypeOK
  <1> HIDE DEF row
  <1>7. Log' = [Log EXCEPT ![t] = Append(@, row.type)]
    BY <1>4, <1>6, PushRecords
  <1>8. Log[t] # <<>> /\ Log[t][Len(Log[t])] # "task.canceled"
    BY <1>3, OpenLogs
  <1>9. Ledger!Open(t)
    BY ONLY <1>8, Zenon DEF Ledger!Open, Log, TypesOf
  <1>10. CASE row.type = "task.message.accepted"
    <2>1. Log' = [Log EXCEPT ![t] = Append(@, "task.message.accepted")]
      BY ONLY <1>7, <1>10
    <2>2. Ledger!Record(t, "task.message.accepted")
      BY ONLY <2>1, Zenon DEF Ledger!Record, Log, TypesOf
    <2> QED BY <1>9, <2>2 DEF Ledger!Next, Ledger!Message
  <1>11. CASE row.type = "task.canceled"
    <2>1. Log' = [Log EXCEPT ![t] = Append(@, "task.canceled")]
      BY ONLY <1>7, <1>11
    <2>2. Ledger!Record(t, "task.canceled")
      BY ONLY <2>1, Zenon DEF Ledger!Record, Log, TypesOf
    <2> QED BY <1>9, <2>2 DEF Ledger!Next, Ledger!Cancel
  <1> QED BY <1>4, <1>5, <1>10, <1>11

LEMMA LedgerStep ==
  ASSUME TurnByTurn PROVE IInv /\ Turns /\ [Next]_vars => [Ledger!Next]_Log
  <1> SUFFICES ASSUME IInv, Turns, [Next]_vars PROVE Ledger!Next \/ UNCHANGED Log
    OBVIOUS
  <1>1. ASSUME NEW c \in Calls, CreateTask(c) PROVE Ledger!Next
    BY <1>1, CreateTaskLedger
  <1>2. ASSUME NEW c \in Calls, AppendEvent(c) PROVE Ledger!Next
    BY <1>2, AppendEventLedger
  <1>3. ASSUME NEW c \in Calls, CheckTask(c) \/ BeginPersist(c) PROVE events' = events
    BY <1>3 DEF CheckTask, BeginPersist, store
  <1>4. ASSUME NEW c \in Calls, FileOp(c) \/ DiskFault(c) PROVE events' = events
    BY <1>4 DEF FileOp, OpenTemp, WriteTemp, RenameTemp, RenameMisses, DiskFault, Performs, store
  <1>5. ASSUME NEW c \in Calls, NEW o \in {"create", "message", "cancel"}, NEW t \in Tasks,
               Call(c, o, t)
        PROVE events' = events
    BY <1>5 DEF Call, store
  <1>6. ~Crash
    BY DEF Crash, TurnByTurn, IInv, TypeOK
  <1>7. ~Boot
    BY DEF Boot, Turns, OneQueued
  <1>8. UNCHANGED vars => events' = events
    BY DEF vars
  <1> QED BY <1>1, <1>2, <1>3, <1>4, <1>5, <1>6, <1>7, <1>8, LogKept DEF Next, Resume

(* When calls do not share a turn and the process lives, the maps implement *)
(* the ledger: a task is accepted once, takes messages while it is open,   *)
(* and is canceled at most once and for good.                              *)
THEOREM LedgerImplemented == ASSUME TurnByTurn PROVE Spec => ImplementsLedger
  <1>1. IInv /\ Turns /\ [Next]_vars => [Ledger!Next]_Log
    BY LedgerStep
  <1>2. Init => Ledger!Init
    BY InitLedger
  <1> QED BY <1>1, <1>2, TypesInvariance, TurnsInvariance, PTL
             DEF Spec, ImplementsLedger, Ledger!Spec, Log, TypesOf
=============================================================================
