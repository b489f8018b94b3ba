------------------------------ MODULE TaskStore ------------------------------
(***************************************************************************)
(* packages/service/src/store.mjs: the task store of the commercial        *)
(* service, CommercialTaskStore, as the handlers of server.mjs call it.    *)
(* Tasks and their events live in two maps; every change rewrites two      *)
(* files, each through a temporary file and a rename.                      *)
(*                                                                         *)
(* A call runs up to its next await.  The store is initialised before the  *)
(* server listens, so `await this.init()` costs one trip through the       *)
(* microtask queue, a FIFO that is drained before anything else happens.   *)
(* Calls started in one turn of the event loop interleave in that queue;   *)
(* calls of different turns meet only in the file operations of persist.   *)
(* Two calls that persist at once share the temporary file, and a write to *)
(* a file that was renamed meanwhile reaches the file under its new name.  *)
(***************************************************************************)
EXTENDS Naturals, Sequences, FiniteSets, FiniteSetsExt

CONSTANTS Tasks,        \* task ids (makeTaskId)
          Calls,        \* calls of createTask, createMessage, cancelTask
          NoInode,      \* a directory without the file
          MaxTurn,      \* calls that may start in one turn of the event loop
          MaxInFlight,  \* calls that may be unanswered at once
          MaxCrashes,   \* bound on crashes of the service process
          MaxFaults     \* bound on file operations that fail

ASSUME BoundAssumption == /\ IsFiniteSet(Calls)
                          /\ MaxTurn \in Nat \ {0} /\ MaxInFlight \in Nat \ {0}
                          /\ MaxCrashes \in Nat /\ MaxFaults \in Nat

ASSUME NoInodeAssumption == NoInode \notin Calls

VARIABLES
    up,       \* the process runs and its store is ready
    tasks,    \* this.tasks: status and summary per task
    events,   \* this.events: rows per task, <<>> when there is no entry
    queue,    \* the microtask queue: calls to resume, first come first served
    turn,     \* calls started in the present turn, none resumed yet
    op, arg,  \* per call: the method and its task
    pc,       \* per call: where it is to resume, or the file operation it awaits
    seen,     \* per message call: task.status when it was checked
    stage,    \* per call in persist: the file it is writing
    keys,     \* per call in persist: the entries of this.events it will write
    draft,    \* per call in persist: the text for the file of its stage
    fd,       \* per call in persist: the inode it has open
    reply,    \* per call: how it was answered
    main,     \* inode of tasks.json and of events.json
    tmp,      \* inode of their temporary files
    inode,    \* contents of the inodes of either kind
    crashes, faults

store == <<tasks, events>>
call  == <<op, arg, seen, keys>>
disk  == <<main, tmp, inode>>
vars  == <<up, tasks, events, queue, turn, op, arg, pc, seen, stage, keys, draft,
           fd, reply, main, tmp, inode, crashes, faults>>

Files == {"tasks", "events"}
Task  == [status : {"none", "accepted", "canceled"},
          summary : {"none", "task accepted", "message accepted", "task canceled"}]
Row   == [type : {"task.accepted", "task.message.accepted", "task.canceled"},
          status : {"accepted", "canceled"}, by : Calls]

NoTask    == [status |-> "none", summary |-> "none"]
NoTasks   == [t \in Tasks |-> NoTask]
NoRows    == [t \in Tasks |-> <<>>]
NoContent == [ok |-> FALSE, size |-> 0]   \* a file just opened for writing

Waiting  == {"resume", "append", "persist"}
FileOps  == {"open", "write", "rename"}
InFlight == {c \in Calls : pc[c] \in Waiting \cup FileOps}

TypeOK ==
    /\ up \in BOOLEAN
    /\ tasks \in [Tasks -> Task]
    /\ events \in [Tasks -> Seq(Row)]
    /\ queue \in Seq(Calls) /\ \A i \in DOMAIN queue : pc[queue[i]] \in Waiting
    /\ turn \in 0..MaxTurn
    /\ op \in [Calls -> {"none", "create", "message", "cancel"}]
    /\ arg \in [Calls -> Tasks \cup {"none"}]
    /\ pc \in [Calls -> Waiting \cup FileOps \cup {"idle", "done", "dead"}]
    /\ seen \in [Calls -> {"none", "accepted", "canceled"}]
    /\ stage \in [Calls -> Files]
    /\ keys \in [Calls -> SUBSET Tasks]
    /\ fd \in [Calls -> Calls \cup {NoInode}]
    /\ reply \in [Calls -> {"none", "ok", "not_found", "terminal", "error"}]
    /\ main \in [Files -> Calls \cup {NoInode}]
    /\ tmp \in [Files -> Calls \cup {NoInode}]
    /\ crashes \in 0..MaxCrashes /\ faults \in 0..MaxFaults

Init ==
    /\ up = TRUE
    /\ tasks = NoTasks /\ events = NoRows
    /\ queue = <<>> /\ turn = 0
    /\ op = [c \in Calls |-> "none"] /\ arg = [c \in Calls |-> "none"]
    /\ pc = [c \in Calls |-> "idle"]
    /\ seen = [c \in Calls |-> "none"]
    /\ stage = [c \in Calls |-> "tasks"]
    /\ keys = [c \in Calls |-> {}]
    /\ draft = [c \in Calls |-> NoContent]
    /\ fd = [c \in Calls |-> NoInode]
    /\ reply = [c \in Calls |-> "none"]
    /\ main = [f \in Files |-> NoInode] /\ tmp = [f \in Files |-> NoInode]
    /\ inode = [f \in Files |-> [c \in Calls |-> NoContent]]
    /\ crashes = 0 /\ faults = 0
-----------------------------------------------------------------------------
(* The methods of the store, from one await to the next.                   *)

(* A handler calls the store; the method stops at its first await.  A new  *)
(* task has a fresh id.                                                    *)
Call(c, o, t) ==
    /\ up /\ pc[c] = "idle"
    /\ IF queue = <<>> THEN turn' = 1 ELSE turn \in 1..(MaxTurn - 1) /\ turn' = turn + 1
    /\ Cardinality(InFlight) < MaxInFlight
    /\ o = "create" => \A d \in Calls : arg[d] # t
    /\ op' = [op EXCEPT ![c] = o] /\ arg' = [arg EXCEPT ![c] = t]
    /\ pc' = [pc EXCEPT ![c] = "resume"]
    /\ queue' = Append(queue, c)
    /\ UNCHANGED <<up, store, seen, stage, keys, draft, fd, reply, disk, crashes, faults>>

(* The call at the head of the queue is resumed at p.                      *)
Resumes(c, p) == /\ up /\ queue # <<>> /\ c = Head(queue) /\ pc[c] = p
                 /\ turn' = 0
                 /\ UNCHANGED <<up, op, arg, fd, disk, crashes, faults>>

(* ... and goes on to its next `await this.init()`, ...                    *)
Awaits(c, p) == /\ pc' = [pc EXCEPT ![c] = p]
                /\ queue' = Append(Tail(queue), c)
                /\ UNCHANGED reply

(* ... or returns.                                                         *)
Returns(c, r) == /\ pc' = [pc EXCEPT ![c] = "done"]
                 /\ reply' = [reply EXCEPT ![c] = r]
                 /\ queue' = Tail(queue)

EventType(c) == CASE op[c] = "create"  -> "task.accepted"
                  [] op[c] = "message" -> "task.message.accepted"
                  [] OTHER             -> "task.canceled"
(* The summary the event gives its task.                                   *)
Summary(c) == CASE op[c] = "create"  -> "task accepted"
                [] op[c] = "message" -> "message accepted"
                [] OTHER             -> "task canceled"

(* createTask: the task and its first event enter the maps.                *)
CreateTask(c) ==
    /\ Resumes(c, "resume") /\ op[c] = "create"
    /\ tasks' = [tasks EXCEPT ![arg[c]] = [status |-> "accepted", summary |-> Summary(c)]]
    /\ events' = [events EXCEPT ![arg[c]] =
                    <<[type |-> EventType(c), status |-> "accepted", by |-> c]>>]
    /\ Awaits(c, "persist")
    /\ UNCHANGED <<seen, stage, keys, draft>>

(* createMessage and cancelTask: the test of the task, before appendEvent  *)
(* awaits.  A message carries the status the task has now.  The slip tests *)
(* cancellations only.                                                     *)
TerminalForCancel(c) == op[c] = "cancel" /\ tasks[arg[c]].status = "canceled"
IsTerminal(c) == tasks[arg[c]].status = "canceled"

CheckTask(c) ==
    /\ Resumes(c, "resume") /\ op[c] \in {"message", "cancel"}
    /\ \/ tasks[arg[c]] = NoTask /\ Returns(c, "not_found") /\ UNCHANGED seen
       \/ tasks[arg[c]] # NoTask /\ IsTerminal(c) /\ Returns(c, "terminal") /\ UNCHANGED seen
       \/ /\ tasks[arg[c]] # NoTask /\ ~IsTerminal(c)
          /\ seen' = [seen EXCEPT ![c] = tasks[arg[c]].status]
          /\ Awaits(c, "append")
    /\ UNCHANGED <<store, stage, keys, draft>>

(* The status in the event: that of a cancellation, or the one a message   *)
(* found when it was checked.  The task takes it; the slip forgets to.     *)
RowStatus(c) == IF op[c] = "cancel" THEN "canceled" ELSE seen[c]
StatusKept(c) == tasks[arg[c]].status
TaskStatus(c) == RowStatus(c)

(* The row joins the task's log; the slip starts a new log.                *)
RowAlone(rows, row) == <<row>>
RowPushed(rows, row) == Append(rows, row)

(* appendEvent: the row is pushed, the task takes its status and summary.  *)
AppendEvent(c) ==
    /\ Resumes(c, "append")
    /\ events' = [events EXCEPT ![arg[c]] =
                    RowPushed(@, [type |-> EventType(c), status |-> RowStatus(c), by |-> c])]
    /\ tasks' = [tasks EXCEPT ![arg[c]] = [status |-> TaskStatus(c), summary |-> Summary(c)]]
    /\ Awaits(c, "persist")
    /\ UNCHANGED <<seen, stage, keys, draft>>
-----------------------------------------------------------------------------
(* persist: both files, one after the other.                               *)

(* The length of the text, as far as two drafts of one run differ in it:   *)
(* the number of records, and the longer summary of a message.             *)
TasksText == [ok |-> TRUE, data |-> tasks,
              size |-> 10 * Cardinality({t \in Tasks : tasks[t] # NoTask})
                       + Cardinality({t \in Tasks : tasks[t].summary = "message accepted"})]

RowsSize(rows) == MapThenSumSet(LAMBDA t : Len(rows[t]), Tasks)

(* this.events was copied when persist began, its row arrays were not: the *)
(* text has the entries of that moment and the rows of this one.           *)
EventsText(ks) ==
    LET rows == [t \in Tasks |-> IF t \in ks THEN events[t] ELSE <<>>]
    IN [ok |-> TRUE, data |-> rows, size |-> RowsSize(rows)]

(* persist resumes: the tasks are turned to text, the entries of the       *)
(* events are listed, and the first file operation starts.                 *)
BeginPersist(c) ==
    /\ Resumes(c, "persist")
    /\ stage' = [stage EXCEPT ![c] = "tasks"]
    /\ draft' = [draft EXCEPT ![c] = TasksText]
    /\ keys' = [keys EXCEPT ![c] = {t \in Tasks : events[t] # <<>>}]
    /\ pc' = [pc EXCEPT ![c] = "open"]
    /\ queue' = Tail(queue)
    /\ UNCHANGED <<store, seen, reply>>

(* A file operation of call c completes.  Its continuation waits for an    *)
(* empty microtask queue, and nothing else reads the disk meanwhile.       *)
Performs(c, o) == /\ up /\ queue = <<>> /\ pc[c] = o
                  /\ turn' = 0
                  /\ UNCHANGED <<up, store, queue, op, arg, seen, keys, crashes>>

(* The inode behind the temporary name, a new one if the name is free; the *)
(* slip writes the file in place.                                          *)
InPlace(f, c) == IF main[f] = NoInode THEN c ELSE main[f]
TempInode(f, c) == IF tmp[f] = NoInode THEN c ELSE tmp[f]

(* fs.writeFile opens the temporary file, creating or truncating it, ...   *)
OpenTemp(c) ==
    LET f == stage[c]
        i == TempInode(f, c)
    IN /\ Performs(c, "open")
       /\ tmp' = [tmp EXCEPT ![f] = i]
       /\ inode' = [inode EXCEPT ![f][i] = NoContent]
       /\ fd' = [fd EXCEPT ![c] = i]
       /\ pc' = [pc EXCEPT ![c] = "write"]
       /\ UNCHANGED <<main, stage, draft, reply, faults>>

(* ... and writes from its start.  What an overlapping call wrote is       *)
(* overwritten, and its tail stays if it was longer.                       *)
WriteTemp(c) ==
    LET f == stage[c]
        old == inode[f][fd[c]]
    IN /\ Performs(c, "write")
       /\ inode' = [inode EXCEPT ![f][fd[c]] =
                      IF old.size = 0 \/ draft[c].size >= old.size THEN draft[c]
                      ELSE [ok |-> FALSE, size |-> old.size]]
       /\ pc' = [pc EXCEPT ![c] = "rename"]
       /\ UNCHANGED <<main, tmp, fd, stage, draft, reply, faults>>

(* persist returns or throws; the locals of the call are gone.             *)
Answers(c, r) == /\ pc' = [pc EXCEPT ![c] = "done"]
                 /\ reply' = [reply EXCEPT ![c] = r]
                 /\ draft' = [draft EXCEPT ![c] = NoContent]
                 /\ fd' = [fd EXCEPT ![c] = NoInode]
                 /\ UNCHANGED stage

(* fs.rename moves whatever has the temporary name now.  After the tasks   *)
(* the events are turned to text and written; after these the call is      *)
(* acknowledged.                                                           *)
RenameTemp(c) ==
    LET f == stage[c]
    IN /\ Performs(c, "rename")
       /\ tmp[f] # NoInode
       /\ main' = [main EXCEPT ![f] = tmp[f]]
       /\ tmp' = [tmp EXCEPT ![f] = NoInode]
       /\ \/ /\ f = "tasks"
             /\ stage' = [stage EXCEPT ![c] = "events"]
             /\ draft' = [draft EXCEPT ![c] = EventsText(keys[c])]
             /\ pc' = [pc EXCEPT ![c] = "open"]
             /\ UNCHANGED <<reply, fd>>
          \/ f = "events" /\ Answers(c, "ok")
       /\ UNCHANGED <<inode, faults>>

(* The handler's catch: the call answers 500 and the maps stay changed.    *)
(* The slip swallows the error.                                            *)
Swallowed == "ok"
Failure == "error"
Fails(c) == Answers(c, Failure) /\ UNCHANGED <<main, tmp>>

(* Another call has renamed the shared temporary file away: ENOENT, which  *)
(* rejects the promise of fs.rename; the slip leaves it pending.           *)
NeverRejects(c) == FALSE
TempGone(c) == tmp[stage[c]] = NoInode
RenameMisses(c) == /\ Performs(c, "rename") /\ TempGone(c)
                   /\ Fails(c)
                   /\ UNCHANGED <<inode, faults>>

(* The disk refuses an operation, a write possibly half-way.               *)
DiskFault(c) ==
    /\ faults < MaxFaults /\ faults' = faults + 1
    /\ \/ Performs(c, "open") /\ UNCHANGED inode
       \/ /\ Performs(c, "write")
          /\ inode' = [inode EXCEPT ![stage[c]][fd[c]] = [ok |-> FALSE, size |-> @.size]]
       \/ Performs(c, "rename") /\ tmp[stage[c]] # NoInode /\ UNCHANGED inode
    /\ Fails(c)
-----------------------------------------------------------------------------
(* The process.                                                            *)

(* The process dies.  Its temporary files keep its pid in their names.     *)
Crash ==
    /\ up /\ crashes < MaxCrashes
    /\ up' = FALSE
    /\ crashes' = crashes + 1
    /\ tasks' = NoTasks /\ events' = NoRows /\ queue' = <<>> /\ turn' = 0
    /\ pc' = [c \in Calls |-> IF c \in InFlight THEN "dead" ELSE pc[c]]
    /\ draft' = [c \in Calls |-> NoContent] /\ fd' = [c \in Calls |-> NoInode]
    /\ tmp' = [f \in Files |-> NoInode]
    /\ UNCHANGED <<op, arg, seen, stage, keys, reply, main, inode, faults>>

(* What init reads: a missing file is empty, any other text must parse.    *)
Readable(f) == main[f] # NoInode => inode[f][main[f]].ok
OnDisk(f, nothing) == IF main[f] = NoInode THEN nothing ELSE inode[f][main[f]].data

(* A new process loads both files before it listens; if one does not parse *)
(* it exits again.                                                         *)
Boot ==
    /\ ~up /\ \A f \in Files : Readable(f)
    /\ up' = TRUE
    /\ tasks' = OnDisk("tasks", NoTasks) /\ events' = OnDisk("events", NoRows)
    /\ UNCHANGED <<queue, turn, op, arg, pc, seen, stage, keys, draft, fd, reply, disk,
                   crashes, faults>>

Resume(c) == CreateTask(c) \/ CheckTask(c) \/ AppendEvent(c) \/ BeginPersist(c)
FileOp(c) == OpenTemp(c) \/ WriteTemp(c) \/ RenameTemp(c) \/ RenameMisses(c)

Next == \/ \E c \in Calls, o \in {"create", "message", "cancel"}, t \in Tasks : Call(c, o, t)
        \/ \E c \in Calls : Resume(c) \/ FileOp(c) \/ DiskFault(c)
        \/ Crash \/ Boot

(* The event loop resumes queued calls and the disk answers.               *)
Fairness == \A c \in Calls : WF_vars(Resume(c)) /\ WF_vars(FileOp(c))

Spec == Init /\ [][Next]_vars /\ Fairness
-----------------------------------------------------------------------------
(* An acknowledged change survives a restart: both files parse, the task   *)
(* is in the one (canceled if that was the call) and the event in the      *)
(* other.                                                                  *)
AckedDurable ==
    \A c \in Calls : reply[c] = "ok" =>
        /\ \A f \in Files : Readable(f)
        /\ LET t == OnDisk("tasks", NoTasks)[arg[c]]
               rows == OnDisk("events", NoRows)[arg[c]]
           IN /\ t # NoTask
              /\ op[c] = "cancel" => t.status = "canceled"
              /\ \E i \in DOMAIN rows : rows[i].by = c

(* Whenever the process dies, the next one can start: the files it reads   *)
(* are whole.                                                              *)
DiskReadable == \A f \in Files : Readable(f)

(* The log on disk never runs ahead of the tasks: a task with events is in *)
(* tasks.json, and one with a cancellation in its log is canceled there.   *)
DiskLogCovered ==
    DiskReadable =>
        LET ts == OnDisk("tasks", NoTasks)  rows == OnDisk("events", NoRows)
        IN \A t \in Tasks : \A i \in DOMAIN rows[t] :
              /\ ts[t] # NoTask
              /\ rows[t][i].status = "canceled" => ts[t].status = "canceled"

(* A canceled task takes no message and no second cancellation: nothing    *)
(* follows a cancellation in the task's log (error codes 40951, 40952).    *)
Closes(rows) ==
    \A t \in Tasks : \A i \in DOMAIN rows[t] :
        rows[t][i].type = "task.canceled" => i = Len(rows[t])
NothingAfterCancel == Closes(events)

(* ... and no restart opens a log again: what the next process will load   *)
(* is closed as well, whichever file the last one got to write.            *)
CancelSurvives ==
    /\ Closes(events)
    /\ DiskReadable => Closes(OnDisk("events", NoRows))

(* A call turned down for its task's state met a canceled task, and it     *)
(* stays canceled; an acknowledged call left exactly one event.            *)
RepliesTruthful ==
    \A c \in Calls :
        /\ reply[c] = "terminal" => tasks[arg[c]].status = "canceled"
        /\ reply[c] = "ok" =>
             Cardinality({i \in DOMAIN events[arg[c]] : events[arg[c]][i].by = c}) = 1

(* Every call of a process that does not die is answered.                  *)
CallsAnswered == \A c \in Calls : c \in InFlight ~> pc[c] = "done"

(* The maps implement the ledger of tasks.                                 *)
Ledger == INSTANCE TaskLedger
            WITH log <- [t \in Tasks |-> [i \in DOMAIN events[t] |-> events[t][i].type]]
ImplementsLedger == Ledger!Spec
=============================================================================
