--------------------------- MODULE TaskPagesProofs ---------------------------
(***************************************************************************)
(* Theorems about TaskPages for any tasks and pages, any number of events, *)
(* restarts, dropped streams and overlapping fetches.                      *)
(***************************************************************************)
EXTENDS TaskPages, TLAPS

Statuses == {"absent", "queued", "running", "finished"}
States   == [status : Statuses, event : Numbers]
Events   == [task : Tasks, event : Numbers]
Messages == Snapshots \cup Events
Scripts  == {Unused} \cup Seq(Actions)

(* The values the variables range over.                                     *)
TypeOK ==
    /\ pushed \in Numbers
    /\ tasks \in [Tasks -> States]
    /\ \A t \in Tasks : tasks[t].event <= pushed
    /\ demo \in [Tasks -> Scripts]
    /\ kind \in [Pages -> {"studio", "board"}]
    /\ view \in [Pages -> [Tasks -> Numbers]]
    /\ stream \in [Pages -> Seq(Messages) \cup {Down}]
    /\ fetch \in [Pages -> [Slots -> Snapshots \cup {Free, Asked}]]
    /\ heard \in [Pages -> Numbers]
    /\ \A p \in Pages : heard[p] <= pushed

(* The stream of a page still begins with its snapshot; Mark is the number *)
(* of events that all it brings after that come later than.                *)
Opening(p) == stream[p] # <<>> /\ Head(stream[p]) \in Snapshots
Mark(p)    == IF Opening(p) THEN Head(stream[p]).at ELSE heard[p]

(* A stream has one snapshot at most, at its beginning, and its events come *)
(* in their order.                                                          *)
InOrder(p) ==
    /\ Mark(p) <= pushed
    /\ \A i \in DOMAIN stream[p] :
         /\ i > 1 => stream[p][i] \notin Snapshots
         /\ stream[p][i] \notin Snapshots => Mark(p) < stream[p][i].event
         /\ stream[p][i] \notin Snapshots => stream[p][i].event <= pushed
    /\ \A i, j \in DOMAIN stream[p] :
         (i < j /\ stream[p][i] \notin Snapshots) => stream[p][i].event < stream[p][j].event

(* The last event a stream brings about a task is the last there was.       *)
Latest(p) ==
    \A t \in Tasks : News(p, t) # {} =>
        \E i \in News(p, t) : /\ \A j \in News(p, t) : j <= i
                              /\ stream[p][i].event = tasks[t].event

(* What is shown is what the server has, of the tasks the stream has no     *)
(* event about.                                                             *)
UpToNews(p, shown) == \A t \in Tasks : News(p, t) = {} => shown[t] = tasks[t].event

(* So are the snapshot a stream begins with and every fetched one that the  *)
(* stream has not overtaken; a task the page leaves out aside, so is what   *)
(* the page shows.                                                          *)
OpeningBooks(p) == Opening(p) => UpToNews(p, Head(stream[p]).tasks)
AnswerBooks(p) ==
    \A i \in Slots :
        (fetch[p][i] \in Snapshots /\ Mark(p) <= fetch[p][i].at) => UpToNews(p, fetch[p][i].tasks)
ViewBooks(p) ==
    (~Opening(p) /\ p \notin overtaken) =>
        \A t \in Tasks : News(p, t) = {} => view[p][t] \in {0, tasks[t].event}

(* A fetched snapshot has the last event of each task that is not younger   *)
(* than itself.                                                             *)
Answers ==
    \A p \in Pages, i \in Slots : fetch[p][i] \in Snapshots =>
        /\ fetch[p][i].at <= pushed
        /\ fetch[p][i].at = pushed => fetch[p][i].tasks = Current
        /\ \A t \in Tasks :
             (tasks[t].event > 0 /\ tasks[t].event <= fetch[p][i].at) =>
                 fetch[p][i].tasks[t] = tasks[t].event

Mirror(p) == InOrder(p) /\ Latest(p) /\ OpeningBooks(p) /\ AnswerBooks(p) /\ ViewBooks(p)

IInv == TypeOK /\ Answers /\ \A p \in Boards : stream[p] # Down => Mirror(p)
-----------------------------------------------------------------------------
(* Events are no snapshots, nor are the marks of a slot or of a closed      *)
(* stream messages.                                                         *)
LEMMA Apart ==
    /\ \A m \in Events : m \notin Snapshots
    /\ Free \notin Snapshots /\ Asked \notin Snapshots /\ Free # Asked
    /\ Down # <<>> /\ Down \notin Seq(Messages)
  <1>1. ASSUME NEW m \in Events PROVE m \notin Snapshots
    <2>1. "tasks" \notin DOMAIN m
      BY DEF Events
    <2> QED BY <2>1 DEF Snapshots
  <1>2. Free \notin Snapshots /\ Asked \notin Snapshots
    <2>1. "tasks" \notin DOMAIN Free /\ "tasks" \notin DOMAIN Asked
      BY DEF Free, Asked
    <2> QED BY <2>1 DEF Snapshots
  <1>3. Free # Asked
    <2>1. Free.slot # Asked.slot
      BY DEF Free, Asked
    <2> QED BY <2>1
  <1>4. Down # <<>>
    BY DEF Down
  <1>5. Down \notin Seq(Messages)
    <2>1. \A m \in Messages : DOMAIN m # {"stream"}
      <3>1. \A m \in Snapshots : "tasks" \in DOMAIN m
        BY DEF Snapshots
      <3>2. \A m \in Events : "task" \in DOMAIN m
        BY DEF Events
      <3> QED BY <3>1, <3>2 DEF Messages
    <2>2. Down[1] = [stream |-> "down"] /\ Len(Down) = 1
      BY DEF Down
    <2>3. DOMAIN [stream |-> "down"] = {"stream"}
      OBVIOUS
    <2>4. [stream |-> "down"] \notin Messages
      BY <2>1, <2>3
    <2>5. ASSUME Down \in Seq(Messages) PROVE FALSE
      <3>1. Down[1] \in Messages
        BY <2>2, <2>5
      <3> QED BY <3>1, <2>2, <2>4
    <2> QED BY <2>5
  <1> QED BY <1>1, <1>2, <1>3, <1>4, <1>5

LEMMA PageKinds ==
    ASSUME TypeOK, NEW p \in Pages
    PROVE  /\ p \in Boards <=> p \notin Studios
           /\ stream[p] # Down => stream[p] \in Seq(Messages)
  BY DEF TypeOK, Boards, Studios

(* A step that pushes an event about t.                                     *)
Pushes(t) ==
    /\ pushed' = pushed + 1 /\ pushed + 1 \in Numbers
    /\ \E s \in Statuses : tasks' = [tasks EXCEPT ![t] = [status |-> s, event |-> pushed + 1]]
    /\ stream' = [p \in Pages |-> IF stream[p] = Down THEN Down
                    ELSE Append(stream[p], [task |-> t, event |-> pushed + 1])]

LEMMA FlowsAreScripts == Flows \subseteq Seq(Actions)
  <1> SUFFICES ASSUME NEW n \in Lengths
               PROVE  [i \in 1..n |-> IF i = n THEN "finished" ELSE "running"] \in Seq(Actions)
    BY DEF Flows
  <1>1. n \in Nat
    BY RuntimeAssumption
  <1> QED BY <1>1 DEF Actions

LEMMA UnusedIsNoScript == Unused # <<>> /\ Unused \notin Seq(Actions)
  <1>1. Unused[1] = "unused" /\ Len(Unused) = 1 /\ "unused" \notin Actions
    BY DEF Unused, Actions
  <1>2. ASSUME Unused \in Seq(Actions) PROVE FALSE
    <2>1. Unused[1] \in Actions
      BY <1>1, <1>2
    <2> QED BY <2>1, <1>1
  <1> QED BY <1>1, <1>2 DEF Unused

LEMMA ServePushes ==
    ASSUME TypeOK, Serve
    PROVE  /\ demo' \in [Tasks -> Scripts]
           /\ \/ UNCHANGED <<tasks, pushed, stream>>
              \/ \E t \in Tasks : Pushes(t)
  <1>1. PICK t \in Tasks : \/ Create(t) \/ DemoStep(t)
                           \/ \E a \in Actions : Control(t, a)
                           \/ \E f \in Flows : Demo(t, f)
    BY DEF Serve
  <1>2. ASSUME NEW s \in Statuses, Push(t, s)
        PROVE  Pushes(t)
    <2>1. /\ pushed' = pushed + 1 /\ pushed + 1 \in Numbers
          /\ tasks' = [tasks EXCEPT ![t] = [status |-> s, event |-> pushed + 1]]
      BY <1>2, RuntimeAssumption DEF Push, TypeOK, Numbers
    <2>2. Broadcast
      BY <2>1 DEF Serve, TypeOK, Numbers
    <2>3. PICK u \in Tasks :
            /\ tasks'[u].event > tasks[u].event
            /\ stream' = [p \in Pages |-> IF stream[p] = Down THEN Down
                            ELSE Append(stream[p], [task |-> u, event |-> tasks'[u].event])]
      BY <2>2 DEF Broadcast, EventMessage
    <2>4. u = t
      BY <2>1, <2>3 DEF TypeOK, States, Numbers
    <2>5. tasks'[t].event = pushed + 1
      BY <2>1 DEF TypeOK
    <2>6. stream' = [p \in Pages |-> IF stream[p] = Down THEN Down
                       ELSE Append(stream[p], [task |-> t, event |-> pushed + 1])]
      BY <2>3, <2>4, <2>5
    <2> QED BY <1>2, <2>1, <2>6, Zenon DEF Pushes
  <1>3. CASE Create(t)
    BY <1>2, <1>3 DEF Create, Statuses, TypeOK
  <1>4. CASE \E a \in Actions : Control(t, a)
    BY <1>2, <1>4 DEF Control, Actions, Statuses, TypeOK
  <1>5. CASE \E f \in Flows : Demo(t, f)
    <2>1. demo' \in [Tasks -> Scripts]
      BY <1>5, FlowsAreScripts DEF Demo, TypeOK, Scripts
    <2>2. Push(t, "queued")
      BY <1>5 DEF Demo
    <2> QED BY <2>1, <2>2, <1>2 DEF Statuses
  <1>6. CASE DemoStep(t)
    <2>1. demo[t] \in Seq(Actions) /\ demo[t] # <<>>
      BY <1>6 DEF DemoStep, TypeOK, Scripts
    <2>2. Tail(demo[t]) \in Seq(Actions) /\ Head(demo[t]) \in Actions
      BY <2>1
    <2>3. demo' \in [Tasks -> Scripts]
      BY <1>6, <2>2 DEF DemoStep, TypeOK, Scripts
    <2>4. CASE Push(t, Head(demo[t]))
      BY <2>2, <2>3, <2>4, <1>2 DEF Actions, Statuses
    <2>5. CASE UNCHANGED <<tasks, pushed>>
      <3>1. ~Broadcast
        BY <2>5 DEF Broadcast, TypeOK, States, Numbers
      <3> QED BY <2>3, <2>5, <3>1 DEF Serve
    <2> QED BY <1>6, <2>4, <2>5 DEF DemoStep
  <1> QED BY ONLY <1>1, <1>3, <1>4, <1>5, <1>6
-----------------------------------------------------------------------------
(* Types.                                                                   *)
LEMMA SnapshotIsOne == ASSUME TypeOK PROVE Snapshot \in Snapshots
  BY DEF TypeOK, States, Snapshot, Current, Snapshots

LEMMA PageTypes ==
    ASSUME TypeOK, NEW p \in Pages
    PROVE  /\ kind[p] \in {"studio", "board"}
           /\ view[p] \in [Tasks -> Numbers]
           /\ stream[p] \in Seq(Messages) \cup {Down}
           /\ heard[p] \in Numbers
           /\ \A i \in Slots : fetch[p][i] \in Snapshots \cup {Free, Asked}
  BY DEF TypeOK

LEMMA TypeInit == ASSUME Init PROVE TypeOK
  <1>1. 0 \in Numbers /\ Absent \in States
    BY RuntimeAssumption DEF Numbers, Absent, States, Statuses
  <1>2. tasks \in [Tasks -> States] /\ \A t \in Tasks : tasks[t].event <= pushed
    BY <1>1 DEF Init, RuntimeInit, Absent
  <1>3. demo \in [Tasks -> Scripts]
    BY DEF Init, RuntimeInit, Scripts
  <1>4. /\ view \in [Pages -> [Tasks -> Numbers]]
        /\ heard \in [Pages -> Numbers] /\ \A p \in Pages : heard[p] <= pushed
    BY <1>1 DEF Init, RuntimeInit
  <1>5. fetch \in [Pages -> [Slots -> Snapshots \cup {Free, Asked}]]
    BY DEF Init
  <1>6. /\ stream \in [Pages -> Seq(Messages) \cup {Down}]
        /\ pushed \in Numbers /\ kind \in [Pages -> {"studio", "board"}]
    BY <1>1 DEF Init, RuntimeInit
  <1> QED BY <1>2, <1>3, <1>4, <1>5, <1>6 DEF TypeOK

(* What the server does, it does to its own state and to the streams.       *)
LEMMA TypePushes ==
    ASSUME TypeOK, NEW t \in Tasks, Pushes(t), UNCHANGED <<kind, view, fetch, history>>,
           demo' \in [Tasks -> Scripts]
    PROVE  TypeOK'
  <1>1. pushed \in Nat /\ pushed' = pushed + 1 /\ pushed' \in Numbers
    BY RuntimeAssumption DEF Pushes, TypeOK, Numbers
  <1>2. tasks' \in [Tasks -> States] /\ \A u \in Tasks : tasks'[u].event <= pushed'
    <2>1. PICK s \in Statuses : tasks' = [tasks EXCEPT ![t] = [status |-> s, event |-> pushed + 1]]
      BY DEF Pushes
    <2>2. [status |-> s, event |-> pushed + 1] \in States
      BY <1>1 DEF States
    <2>3. \A u \in Tasks : tasks[u].event \in Nat /\ tasks[u].event <= pushed
      BY DEF TypeOK, States, Numbers
    <2> QED BY <1>1, <2>1, <2>2, <2>3 DEF TypeOK
  <1>3. stream' \in [Pages -> Seq(Messages) \cup {Down}]
    <2>1. [task |-> t, event |-> pushed + 1] \in Messages
      BY <1>1 DEF Messages, Events
    <2>2. \A p \in Pages : stream[p] # Down =>
             Append(stream[p], [task |-> t, event |-> pushed + 1]) \in Seq(Messages)
      BY <2>1, PageTypes
    <2> QED BY <2>2 DEF Pushes
  <1>4. \A p \in Pages : heard'[p] <= pushed'
    BY <1>1 DEF TypeOK, Numbers, history
  <1> QED BY <1>1, <1>2, <1>3, <1>4 DEF TypeOK, history

LEMMA TypeRestart == ASSUME TypeOK, Restart PROVE TypeOK'
  <1>1. pushed \in Nat /\ pushed' = pushed + 1 /\ pushed' \in Numbers
    BY RuntimeAssumption DEF Restart, RestartServer, TypeOK, Numbers
  <1>2. Absent \in States /\ Absent.event = 0
    BY RuntimeAssumption DEF Absent, States, Statuses, Numbers
  <1>3. tasks' \in [Tasks -> States] /\ \A u \in Tasks : tasks'[u].event <= pushed'
    BY <1>1, <1>2 DEF Restart, RestartServer
  <1>4. demo' \in [Tasks -> Scripts]
    <2>1. <<>> \in Scripts /\ Unused \in Scripts
      BY DEF Scripts
    <2> QED BY <2>1 DEF Restart, RestartServer
  <1>5. stream' \in [Pages -> Seq(Messages) \cup {Down}]
    BY DEF Restart, StreamsEnd
  <1>6. fetch' \in [Pages -> [Slots -> Snapshots \cup {Free, Asked}]]
    BY DEF Restart, TypeOK
  <1>7. \A p \in Pages : heard'[p] <= pushed'
    BY <1>1 DEF TypeOK, Numbers, Restart, history
  <1> QED BY <1>1, <1>3, <1>4, <1>5, <1>6, <1>7 DEF TypeOK, Restart, history

(* A step of a page leaves the server as it is.                             *)
LEMMA TypePage ==
    ASSUME TypeOK, UNCHANGED <<runtime, kind>>,
           view' \in [Pages -> [Tasks -> Numbers]],
           stream' \in [Pages -> Seq(Messages) \cup {Down}],
           fetch' \in [Pages -> [Slots -> Snapshots \cup {Free, Asked}]],
           heard' \in [Pages -> Numbers], \A p \in Pages : heard'[p] <= pushed
    PROVE  TypeOK'
  BY DEF TypeOK, runtime

LEMMA TypeAsk ==
    ASSUME TypeOK, NEW p \in Pages, Ask(p)
    PROVE  /\ fetch' \in [Pages -> [Slots -> Snapshots \cup {Free, Asked}]]
           /\ \A q \in Pages, i \in Slots : fetch'[q][i] = fetch[q][i] \/ fetch'[q][i] = Asked
  BY DEF Ask, TypeOK

LEMMA TypeAnswers ==
    ASSUME TypeOK, NEW p \in Pages, NEW i \in Slots,
           ServerAnswers(p, i) \/ AnswerArrives(p, i) \/ FetchFails(p, i)
    PROVE  TypeOK'
  <1>1. CASE ServerAnswers(p, i)
    <2>1. fetch' \in [Pages -> [Slots -> Snapshots \cup {Free, Asked}]]
      BY <1>1, SnapshotIsOne DEF ServerAnswers, TypeOK
    <2> QED BY <1>1, <2>1, TypePage DEF ServerAnswers, TypeOK, history
  <1>2. CASE AnswerArrives(p, i)
    <2>1. fetch' \in [Pages -> [Slots -> Snapshots \cup {Free, Asked}]]
      BY <1>2 DEF AnswerArrives, TypeOK
    <2>2. fetch[p][i].tasks \in [Tasks -> Numbers]
      BY <1>2 DEF AnswerArrives, Snapshots
    <2>3. view' \in [Pages -> [Tasks -> Numbers]]
      BY <1>2, <2>2 DEF AnswerArrives, Shows, TypeOK
    <2> QED BY <1>2, <2>1, <2>3, TypePage DEF AnswerArrives, TypeOK
  <1>3. CASE FetchFails(p, i)
    <2>1. fetch' \in [Pages -> [Slots -> Snapshots \cup {Free, Asked}]]
      BY <1>3 DEF FetchFails, TypeOK
    <2> QED BY <1>3, <2>1, TypePage DEF FetchFails, TypeOK, history
  <1> QED BY <1>1, <1>2, <1>3

LEMMA TypeConnection ==
    ASSUME TypeOK, NEW p \in Pages, Connect(p) \/ StreamDrops(p)
    PROVE  TypeOK'
  <1>1. <<Snapshot>> \in Seq(Messages)
    BY SnapshotIsOne DEF Messages
  <1>2. stream' \in [Pages -> Seq(Messages) \cup {Down}]
    BY <1>1 DEF Connect, StreamDrops, TypeOK
  <1> QED BY <1>2, TypePage DEF Connect, StreamDrops, TypeOK, history

(* The first message of a stream comes from the past.                       *)
LEMMA TypeDeliver ==
    ASSUME TypeOK, NEW p \in Pages, Deliver(p),
           p \in Boards => Head(stream[p]).at <= pushed \/ Head(stream[p]) \notin Snapshots,
           p \in Boards => Head(stream[p]).event <= pushed \/ Head(stream[p]) \in Snapshots
    PROVE  TypeOK'
  <1>1. /\ stream[p] \in Seq(Messages) /\ stream[p] # <<>>
        /\ Head(stream[p]) \in Messages /\ Tail(stream[p]) \in Seq(Messages)
    BY PageTypes DEF Deliver
  <1>2. stream' \in [Pages -> Seq(Messages) \cup {Down}]
    BY <1>1 DEF Deliver, TypeOK
  <1>3. CASE TakesSnapshot(p, Head(stream[p]))
    <2>1. Head(stream[p]).tasks \in [Tasks -> Numbers] /\ Head(stream[p]).at \in Numbers
      BY <1>3 DEF TakesSnapshot, Snapshots
    <2>2. view' \in [Pages -> [Tasks -> Numbers]]
      BY <1>3, <2>1 DEF TakesSnapshot, Shows, TypeOK
    <2>3. heard' \in [Pages -> Numbers] /\ \A q \in Pages : heard'[q] <= pushed
      BY <1>3, <2>1 DEF TakesSnapshot, TypeOK
    <2> QED BY <1>2, <1>3, <2>2, <2>3, TypePage DEF TakesSnapshot, Deliver, TypeOK
  <1>4. CASE FetchesOnEvent(p)
    BY <1>2, <1>4, TypeAsk, TypePage DEF FetchesOnEvent, Deliver, TypeOK, history
  <1>5. CASE Head(stream[p]) \notin Snapshots /\ AppliesEvent(p, Head(stream[p]))
    <2>1. Head(stream[p]).task \in Tasks /\ Head(stream[p]).event \in Numbers
      BY <1>1, <1>5 DEF Messages, Events
    <2>2. Applied(view[p], Head(stream[p])) \in [Tasks -> Numbers]
      BY <2>1, PageTypes DEF Applied
    <2>3. view' \in [Pages -> [Tasks -> Numbers]]
      BY <1>5, <2>2 DEF AppliesEvent, Shows, TypeOK
    <2>4. heard' \in [Pages -> Numbers] /\ \A q \in Pages : heard'[q] <= pushed
      BY <1>5, <2>1 DEF AppliesEvent, TypeOK
    <2> QED BY <1>2, <1>5, <2>3, <2>4, TypePage DEF AppliesEvent, Deliver, TypeOK
  <1> QED BY <1>3, <1>4, <1>5 DEF Deliver, TakesEvent
-----------------------------------------------------------------------------
(* What is on the way to a page.                                            *)
LEMMA NewsSame ==
    ASSUME NEW p \in Pages, stream'[p] = stream[p], heard'[p] = heard[p]
    PROVE  /\ \A t \in Tasks : News(p, t)' = News(p, t)
           /\ Opening(p)' <=> Opening(p)
           /\ Mark(p)' = Mark(p)
  BY DEF News, Opening, Mark

LEMMA Appended ==
    ASSUME NEW p \in Pages, stream[p] \in Seq(Messages),
           NEW t \in Tasks, NEW n \in Numbers,
           stream'[p] = Append(stream[p], [task |-> t, event |-> n]), heard'[p] = heard[p]
    PROVE  /\ Len(stream'[p]) = Len(stream[p]) + 1
           /\ \A i \in 1..Len(stream[p]) : stream'[p][i] = stream[p][i]
           /\ stream'[p][Len(stream[p]) + 1] = [task |-> t, event |-> n]
           /\ News(p, t)' = News(p, t) \cup {Len(stream[p]) + 1}
           /\ \A u \in Tasks : u # t => News(p, u)' = News(p, u)
           /\ Opening(p)' <=> Opening(p)
           /\ Opening(p) => Head(stream'[p]) = Head(stream[p])
           /\ Mark(p)' = Mark(p)
  <1> DEFINE m == [task |-> t, event |-> n]
  <1>1. m \in Messages /\ m \notin Snapshots /\ m.task = t
    BY Apart DEF Messages, Events
  <1>2. /\ Len(stream'[p]) = Len(stream[p]) + 1
        /\ \A i \in 1..Len(stream[p]) : stream'[p][i] = stream[p][i]
        /\ stream'[p][Len(stream[p]) + 1] = m
        /\ Len(stream[p]) \in Nat
        /\ DOMAIN stream[p] = 1..Len(stream[p])
        /\ DOMAIN stream'[p] = 1..(Len(stream[p]) + 1)
    BY <1>1
  <1> HIDE DEF m
  <1>3. News(p, t)' = News(p, t) \cup {Len(stream[p]) + 1}
    BY <1>1, <1>2 DEF News
  <1>4. ASSUME NEW u \in Tasks, u # t PROVE News(p, u)' = News(p, u)
    BY <1>1, <1>2, <1>4 DEF News
  <1>5. CASE stream[p] = <<>>
    <2>1. Len(stream[p]) = 0 /\ stream'[p] # <<>> /\ Head(stream'[p]) = m
      BY <1>2, <1>5
    <2> QED BY <1>1, <1>2, <1>3, <1>4, <1>5, <2>1 DEF Opening, Mark, m
  <1>6. CASE stream[p] # <<>>
    <2>1. stream'[p] # <<>> /\ Head(stream'[p]) = Head(stream[p])
      BY <1>2, <1>6
    <2> QED BY <1>2, <1>3, <1>4, <1>6, <2>1 DEF Opening, Mark, m
  <1> QED BY <1>5, <1>6

LEMMA Taken ==
    ASSUME NEW p \in Pages, stream[p] \in Seq(Messages), stream[p] # <<>>,
           stream'[p] = Tail(stream[p])
    PROVE  /\ Len(stream[p]) \in Nat \ {0}
           /\ DOMAIN stream[p] = 1..Len(stream[p])
           /\ DOMAIN stream'[p] = 1..(Len(stream[p]) - 1)
           /\ \A i \in 1..(Len(stream[p]) - 1) : stream'[p][i] = stream[p][i + 1]
           /\ Head(stream[p]) = stream[p][1]
           /\ \A t \in Tasks : News(p, t)' = {i \in 1..(Len(stream[p]) - 1) : i + 1 \in News(p, t)}
           /\ Opening(p)' => 1 \in 1..(Len(stream[p]) - 1) /\ stream[p][2] \in Snapshots
  <1>1. /\ Len(stream[p]) \in Nat \ {0}
        /\ DOMAIN stream[p] = 1..Len(stream[p])
        /\ DOMAIN stream'[p] = 1..(Len(stream[p]) - 1)
        /\ Len(stream'[p]) = Len(stream[p]) - 1
        /\ \A i \in 1..(Len(stream[p]) - 1) : stream'[p][i] = stream[p][i + 1]
        /\ Head(stream[p]) = stream[p][1]
    OBVIOUS
  <1>2. ASSUME NEW t \in Tasks
        PROVE  News(p, t)' = {i \in 1..(Len(stream[p]) - 1) : i + 1 \in News(p, t)}
    BY <1>1 DEF News
  <1>3. ASSUME Opening(p)'
        PROVE  1 \in 1..(Len(stream[p]) - 1) /\ stream[p][2] \in Snapshots
    <2>1. stream'[p] # <<>> /\ Head(stream'[p]) \in Snapshots /\ stream'[p] \in Seq(Messages)
      BY <1>3 DEF Opening
    <2>2. Len(stream'[p]) > 0 /\ Head(stream'[p]) = stream'[p][1]
      BY <2>1
    <2> QED BY <1>1, <2>1, <2>2
  <1> QED BY <1>1, <1>2, <1>3
-----------------------------------------------------------------------------
(* The books of an open stream, step by step.                               *)
LEMMA MirrorPushes ==
    ASSUME TypeOK, Answers, NEW t \in Tasks, Pushes(t), UNCHANGED <<kind, view, fetch, history>>,
           NEW p \in Pages, stream[p] # Down, Mirror(p)
    PROVE  Mirror(p)'
  <1>1. /\ pushed \in Nat /\ pushed' = pushed + 1 /\ pushed + 1 \in Numbers
        /\ \A u \in Tasks : tasks[u].event \in Nat
        /\ \A u \in Tasks : u # t => tasks'[u] = tasks[u]
        /\ tasks'[t].event = pushed + 1
    BY RuntimeAssumption DEF Pushes, TypeOK, Numbers, States
  <1>2. /\ stream[p] \in Seq(Messages)
        /\ stream'[p] = Append(stream[p], [task |-> t, event |-> pushed + 1])
        /\ heard'[p] = heard[p] /\ fetch'[p] = fetch[p] /\ view'[p] = view[p]
        /\ p \in overtaken' <=> p \in overtaken
    BY PageTypes DEF Pushes, history
  <1> DEFINE n == Len(stream[p])
  <1>3. /\ Len(stream'[p]) = n + 1
        /\ \A i \in 1..n : stream'[p][i] = stream[p][i]
        /\ stream'[p][n + 1] = [task |-> t, event |-> pushed + 1]
        /\ News(p, t)' = News(p, t) \cup {n + 1}
        /\ \A u \in Tasks : u # t => News(p, u)' = News(p, u)
        /\ Opening(p)' <=> Opening(p)
        /\ Opening(p) => Head(stream'[p]) = Head(stream[p])
        /\ Mark(p)' = Mark(p)
    <2>1. PICK k \in Numbers : k = pushed + 1
      BY <1>1
    <2> QED BY <1>2, <2>1, Appended
  <1>4. n \in Nat /\ DOMAIN stream[p] = 1..n /\ DOMAIN stream'[p] = 1..(n + 1)
    BY <1>2, <1>3
  <1>5. /\ stream'[p][n + 1] \notin Snapshots
        /\ stream'[p][n + 1].event = pushed + 1
    BY <1>1, <1>3, Apart DEF Events
  <1> HIDE DEF n
  <1>6. \A i \in 1..n : stream[p][i] \notin Snapshots => stream[p][i].event \in Nat
    <2>1. \A i \in 1..n : stream[p][i] \in Messages
      BY <1>2, <1>4
    <2> QED BY <2>1 DEF Messages, Events, Numbers
  <1>7. Mark(p) \in Nat
    <2>1. CASE Opening(p)
      BY <2>1 DEF Mark, Opening, Snapshots, Numbers
    <2>2. CASE ~Opening(p)
      BY <2>2 DEF Mark, TypeOK, Numbers
    <2> QED BY <2>1, <2>2
  <1>8. InOrder(p)'
    <2>1. /\ Mark(p) <= pushed
          /\ \A i \in 1..n :
               /\ i > 1 => stream[p][i] \notin Snapshots
               /\ stream[p][i] \notin Snapshots => Mark(p) < stream[p][i].event
               /\ stream[p][i] \notin Snapshots => stream[p][i].event <= pushed
          /\ \A i, j \in 1..n :
               (i < j /\ stream[p][i] \notin Snapshots) => stream[p][i].event < stream[p][j].event
      BY <1>4 DEF Mirror, InOrder
    <2>2. Mark(p)' <= pushed'
      BY <2>1, <1>1, <1>3, <1>7
    <2>3. ASSUME NEW i \in 1..(n + 1)
          PROVE  /\ i > 1 => stream'[p][i] \notin Snapshots
                 /\ stream'[p][i] \notin Snapshots => Mark(p) < stream'[p][i].event
                 /\ stream'[p][i] \notin Snapshots => stream'[p][i].event <= pushed'
      <3>1. CASE i = n + 1
        BY <2>1, <1>1, <1>5, <1>7, <3>1
      <3>2. CASE i # n + 1
        <4>1. i \in 1..n
          BY <1>4, <3>2
        <4> QED BY <2>1, <4>1, <1>1, <1>3, <1>6
      <3> QED BY <3>1, <3>2
    <2>4. ASSUME NEW i \in 1..(n + 1), NEW j \in 1..(n + 1), i < j, stream'[p][i] \notin Snapshots
          PROVE  stream'[p][i].event < stream'[p][j].event
      <3>1. i \in 1..n
        BY <1>4, <2>4
      <3>2. CASE j = n + 1
        BY <2>1, <2>4, <3>1, <3>2, <1>1, <1>3, <1>5, <1>6
      <3>3. CASE j # n + 1
        <4>1. j \in 1..n
          BY <1>4, <3>3
        <4> QED BY <2>1, <2>4, <3>1, <4>1, <1>3
      <3> QED BY <3>2, <3>3
    <2> QED BY <2>2, <2>3, <2>4, <1>3, <1>4 DEF InOrder
  <1>9. Latest(p)'
    <2>1. ASSUME NEW u \in Tasks, News(p, u)' # {}
          PROVE  \E i \in News(p, u)' : /\ \A j \in News(p, u)' : j <= i
                                        /\ stream'[p][i].event = tasks'[u].event
      <3>1. CASE u = t
        <4>1. \A j \in News(p, t) : j <= n + 1
          BY <1>4 DEF News
        <4>2. n + 1 \in News(p, t)' /\ \A j \in News(p, t)' : j <= n + 1
          BY <4>1, <1>3, <1>4
        <4> QED BY <3>1, <4>2, <1>1, <1>5
      <3>2. CASE u # t
        <4>1. PICK i \in News(p, u) : /\ \A j \in News(p, u) : j <= i
                                      /\ stream[p][i].event = tasks[u].event
          BY <2>1, <3>2, <1>3 DEF Mirror, Latest
        <4>2. i \in 1..n
          BY <1>4 DEF News
        <4> QED BY <4>1, <4>2, <3>2, <1>1, <1>3
      <3> QED BY <3>1, <3>2
    <2> QED BY <2>1 DEF Latest
  <1>10. \A u \in Tasks : News(p, u)' = {} => News(p, u) = {} /\ tasks'[u] = tasks[u]
    BY <1>1, <1>3
  <1>11. OpeningBooks(p)'
    BY <1>3, <1>10 DEF Mirror, OpeningBooks, UpToNews
  <1>12. AnswerBooks(p)'
    BY <1>2, <1>3, <1>10 DEF Mirror, AnswerBooks, UpToNews
  <1>13. ViewBooks(p)'
    BY <1>2, <1>3, <1>10 DEF Mirror, ViewBooks
  <1> QED BY <1>8, <1>9, <1>11, <1>12, <1>13 DEF Mirror

(* The stream and what it is about stay as they are.                        *)
LEMMA MirrorSame ==
    ASSUME UNCHANGED <<tasks, pushed>>, NEW p \in Pages,
           stream'[p] = stream[p], heard'[p] = heard[p], Mirror(p)
    PROVE  /\ InOrder(p)' /\ Latest(p)' /\ OpeningBooks(p)'
           /\ \A t \in Tasks : News(p, t)' = News(p, t)
           /\ Opening(p)' <=> Opening(p)
           /\ Mark(p)' = Mark(p)
  <1>1. /\ \A t \in Tasks : News(p, t)' = News(p, t)
        /\ Opening(p)' <=> Opening(p)
        /\ Mark(p)' = Mark(p)
    BY NewsSame
  <1>2. InOrder(p)'
    BY <1>1 DEF Mirror, InOrder
  <1>3. Latest(p)'
    BY <1>1 DEF Mirror, Latest
  <1>4. OpeningBooks(p)'
    BY <1>1 DEF Mirror, OpeningBooks, UpToNews
  <1> QED BY <1>1, <1>2, <1>3, <1>4

(* The fetches of a page, while its stream stays as it is.                  *)
LEMMA MirrorFetches ==
    ASSUME TypeOK, UNCHANGED <<tasks, pushed>>, NEW p \in Pages, stream[p] # Down,
           stream'[p] = stream[p], heard'[p] = heard[p], Mirror(p),
           \A i \in Slots : \/ fetch'[p][i] = fetch[p][i]
                            \/ fetch'[p][i] \notin Snapshots
                            \/ fetch'[p][i] = Snapshot
    PROVE  AnswerBooks(p)'
  <1>1. /\ \A t \in Tasks : News(p, t)' = News(p, t)
        /\ Mark(p)' = Mark(p)
    BY MirrorSame
  <1>2. \A t \in Tasks : Snapshot.tasks[t] = tasks[t].event
    BY DEF Snapshot, Current
  <1> SUFFICES ASSUME NEW i \in Slots, fetch'[p][i] \in Snapshots, Mark(p)' <= fetch'[p][i].at,
                      NEW t \in Tasks, News(p, t)' = {}
               PROVE  fetch'[p][i].tasks[t] = tasks'[t].event
    BY DEF AnswerBooks, UpToNews
  <1>3. CASE fetch'[p][i] = Snapshot
    BY <1>2, <1>3
  <1>4. CASE fetch'[p][i] = fetch[p][i]
    BY <1>1, <1>4 DEF Mirror, AnswerBooks, UpToNews
  <1> QED BY <1>3, <1>4

LEMMA MirrorOther ==
    ASSUME TypeOK, UNCHANGED <<tasks, pushed>>, NEW p \in Pages, stream[p] # Down,
           stream'[p] = stream[p], heard'[p] = heard[p], Mirror(p),
           \A i \in Slots : \/ fetch'[p][i] = fetch[p][i]
                            \/ fetch'[p][i] \notin Snapshots
                            \/ fetch'[p][i] = Snapshot,
           view'[p] = view[p], p \in overtaken' <=> p \in overtaken
    PROVE  Mirror(p)'
  <1>1. ViewBooks(p)'
    BY MirrorSame DEF Mirror, ViewBooks
  <1> QED BY <1>1, MirrorSame, MirrorFetches DEF Mirror

(* An answer takes the place of what is shown.                              *)
LEMMA MirrorArrives ==
    ASSUME TypeOK, NEW p \in Pages, stream[p] # Down, Mirror(p),
           NEW i \in Slots, AnswerArrives(p, i)
    PROVE  Mirror(p)'
  <1>1. /\ UNCHANGED <<tasks, pushed>> /\ stream'[p] = stream[p] /\ heard'[p] = heard[p]
        /\ view'[p] = fetch[p][i].tasks
        /\ fetch[p][i] \in Snapshots
        /\ p \notin overtaken' => ~(fetch[p][i].at < heard[p])
    BY DEF AnswerArrives, runtime, Shows, TypeOK
  <1>2. \A j \in Slots : fetch'[p][j] = fetch[p][j] \/ fetch'[p][j] \notin Snapshots
    BY Apart DEF AnswerArrives, TypeOK
  <1>3. AnswerBooks(p)'
    BY <1>1, <1>2, MirrorFetches
  <1>4. ViewBooks(p)'
    <2> SUFFICES ASSUME ~Opening(p)', p \notin overtaken', NEW t \in Tasks, News(p, t)' = {}
                 PROVE  view'[p][t] = tasks'[t].event
      BY DEF ViewBooks
    <2>1. ~Opening(p) /\ News(p, t) = {}
      BY <1>1, MirrorSame
    <2>2. Mark(p) <= fetch[p][i].at
      BY <2>1, <1>1 DEF Mark, TypeOK, Numbers, Snapshots
    <2>3. fetch[p][i].tasks[t] = tasks[t].event
      BY <2>1, <2>2, <1>1 DEF Mirror, AnswerBooks, UpToNews
    <2> QED BY <1>1, <2>3
  <1> QED BY <1>1, <1>3, <1>4, MirrorSame DEF Mirror

(* A new stream: nothing has happened since its snapshot.                   *)
LEMMA MirrorConnect ==
    ASSUME TypeOK, Answers, NEW p \in Pages, Connect(p)
    PROVE  Mirror(p)'
  <1>1. /\ stream'[p] = <<Snapshot>> /\ UNCHANGED <<tasks, pushed, fetch, view, heard, overtaken>>
        /\ Snapshot' = Snapshot
    BY DEF Connect, TypeOK, runtime, history, Snapshot, Current
  <1>2. /\ Snapshot \in Snapshots /\ Snapshot.at = pushed
        /\ \A t \in Tasks : Snapshot.tasks[t] = tasks[t].event
        /\ pushed \in Nat
    BY SnapshotIsOne DEF Snapshot, Current, TypeOK, Numbers
  <1>3. /\ DOMAIN stream'[p] = {1} /\ stream'[p][1] = Snapshot
        /\ stream'[p] # <<>> /\ Head(stream'[p]) = Snapshot
    BY <1>1
  <1>4. Opening(p)' /\ Mark(p)' = pushed
    BY <1>2, <1>3 DEF Opening, Mark
  <1>5. \A t \in Tasks : News(p, t)' = {}
    BY <1>2, <1>3 DEF News
  <1>6. InOrder(p)'
    BY <1>1, <1>2, <1>3, <1>4 DEF InOrder
  <1>7. Latest(p)'
    BY <1>5 DEF Latest
  <1>8. OpeningBooks(p)'
    BY <1>1, <1>2, <1>3 DEF OpeningBooks, UpToNews
  <1>9. AnswerBooks(p)'
    <2> SUFFICES ASSUME NEW i \in Slots, fetch[p][i] \in Snapshots, pushed <= fetch[p][i].at,
                        NEW t \in Tasks
                 PROVE  fetch[p][i].tasks[t] = tasks[t].event
      BY <1>1, <1>4 DEF AnswerBooks, UpToNews
    <2>1. fetch[p][i].at = pushed
      BY <1>2 DEF Answers, Snapshots, Numbers
    <2>2. fetch[p][i].tasks = Current
      BY <2>1 DEF Answers
    <2> QED BY <2>2 DEF Current
  <1>10. ViewBooks(p)'
    BY <1>4 DEF ViewBooks
  <1> QED BY <1>6, <1>7, <1>8, <1>9, <1>10 DEF Mirror

(* The message that comes first and those that are left.                    *)
LEMMA FirstMessage ==
    ASSUME TypeOK, NEW p \in Pages, Deliver(p), Mirror(p)
    PROVE  /\ stream[p] \in Seq(Messages) /\ stream[p] # <<>> /\ stream[p] # Down
           /\ stream'[p] = Tail(stream[p])
           /\ stream[p][1] = Head(stream[p]) /\ Head(stream[p]) \in Messages
           /\ ~Opening(p)'
           /\ Head(stream[p]) \in Snapshots <=> Opening(p)
  <1>1. stream[p] \in Seq(Messages) /\ stream[p] # <<>> /\ stream[p] # Down
    BY PageTypes DEF Deliver
  <1>2. stream'[p] = Tail(stream[p])
    BY DEF Deliver, TypeOK
  <1>3. stream[p][1] = Head(stream[p]) /\ Head(stream[p]) \in Messages
    BY <1>1
  <1>4. ~Opening(p)'
    <2>1. SUFFICES ASSUME Opening(p)' PROVE FALSE
      OBVIOUS
    <2>2. Len(stream[p]) \in Nat /\ 1 \in 1..(Len(stream[p]) - 1) /\ stream[p][2] \in Snapshots
      BY <1>1, <1>2, <2>1, Taken
    <2>3. 2 \in DOMAIN stream[p]
      BY <1>1, <2>2
    <2> QED BY <2>2, <2>3 DEF Mirror, InOrder
  <1> QED BY <1>1, <1>2, <1>3, <1>4 DEF Opening

(* What the order of a stream says of what is left of it, when Mark has     *)
(* become the number of the message taken.                                  *)
LEMMA OrderLeft ==
    ASSUME TypeOK, NEW p \in Pages, Deliver(p), Mirror(p), pushed' = pushed,
           Mark(p)' <= pushed,
           Opening(p) => Mark(p)' = Mark(p),
           ~Opening(p) => Mark(p)' = Head(stream[p]).event
    PROVE  InOrder(p)'
  <1> DEFINE n == Len(stream[p])
  <1>1. /\ n \in Nat \ {0}
        /\ DOMAIN stream[p] = 1..n
        /\ DOMAIN stream'[p] = 1..(n - 1)
        /\ \A i \in 1..(n - 1) : stream'[p][i] = stream[p][i + 1]
        /\ Head(stream[p]) = stream[p][1]
    BY FirstMessage, Taken
  <1> HIDE DEF n
  <1>2. \A i \in 1..(n - 1) : i + 1 \in 1..n /\ 1 \in 1..n /\ i + 1 > 1
    BY <1>1
  <1>3. \A i \in 1..(n - 1) : /\ stream'[p][i] \notin Snapshots
                              /\ stream'[p][i].event <= pushed
    BY <1>1, <1>2 DEF Mirror, InOrder
  <1>4. ASSUME NEW i \in 1..(n - 1) PROVE Mark(p)' < stream'[p][i].event
    <2>1. CASE Opening(p)
      BY <1>1, <1>2, <1>3, <2>1 DEF Mirror, InOrder
    <2>2. CASE ~Opening(p)
      <3>1. stream[p][1] \notin Snapshots /\ Mark(p)' = stream[p][1].event
        BY <1>1, <2>2, FirstMessage
      <3>2. stream[p][1].event < stream[p][i + 1].event
        BY <1>1, <1>2, <3>1 DEF Mirror, InOrder
      <3> QED BY <1>1, <3>1, <3>2
    <2> QED BY <2>1, <2>2
  <1>5. ASSUME NEW i \in 1..(n - 1), NEW j \in 1..(n - 1), i < j
        PROVE  stream'[p][i].event < stream'[p][j].event
    <2>1. i + 1 < j + 1
      BY <1>1, <1>5
    <2> QED BY <1>1, <1>2, <1>3, <2>1 DEF Mirror, InOrder
  <1> QED BY <1>1, <1>3, <1>4, <1>5 DEF InOrder

LEMMA LatestLeft ==
    ASSUME TypeOK, NEW p \in Pages, Deliver(p), Mirror(p), UNCHANGED <<tasks, pushed>>
    PROVE  /\ Latest(p)'
           /\ \A t \in Tasks : News(p, t)' = {} => News(p, t) \subseteq {1}
           /\ \A t \in Tasks : (News(p, t)' = {} /\ 1 \in News(p, t)) =>
                 /\ Head(stream[p]).task = t
                 /\ Head(stream[p]).event = tasks[t].event
           /\ \A t \in Tasks : (1 \in News(p, t)) <=>
                 (Head(stream[p]) \notin Snapshots /\ Head(stream[p]).task = t)
  <1> DEFINE n == Len(stream[p])
  <1>1. /\ n \in Nat \ {0}
        /\ DOMAIN stream[p] = 1..n
        /\ \A i \in 1..(n - 1) : stream'[p][i] = stream[p][i + 1]
        /\ Head(stream[p]) = stream[p][1]
        /\ \A t \in Tasks : News(p, t)' = {i \in 1..(n - 1) : i + 1 \in News(p, t)}
    BY FirstMessage, Taken
  <1> HIDE DEF n
  <1>2. \A t \in Tasks : News(p, t) \subseteq 1..n
    BY <1>1 DEF News
  <1>3. ASSUME NEW t \in Tasks, News(p, t)' = {} PROVE News(p, t) \subseteq {1}
    <2>1. SUFFICES ASSUME NEW i \in News(p, t), i # 1 PROVE FALSE
      OBVIOUS
    <2>2. i - 1 \in 1..(n - 1) /\ (i - 1) + 1 = i
      BY <1>1, <1>2, <2>1
    <2>3. i - 1 \in News(p, t)'
      BY <1>1, <2>2
    <2> QED BY <2>3, <1>3
  <1>4. ASSUME NEW t \in Tasks
        PROVE (1 \in News(p, t)) <=> (Head(stream[p]) \notin Snapshots /\ Head(stream[p]).task = t)
    BY <1>1 DEF News
  <1>5. ASSUME NEW t \in Tasks, News(p, t)' = {}, 1 \in News(p, t)
        PROVE  Head(stream[p]).task = t /\ Head(stream[p]).event = tasks[t].event
    <2>1. PICK i \in News(p, t) : stream[p][i].event = tasks[t].event
      BY <1>5 DEF Mirror, Latest
    <2>2. i = 1
      BY <1>3, <1>5
    <2> QED BY <1>1, <1>4, <1>5, <2>1, <2>2
  <1>6. Latest(p)'
    <2> SUFFICES ASSUME NEW t \in Tasks, News(p, t)' # {}
                 PROVE  \E i \in News(p, t)' : /\ \A j \in News(p, t)' : j <= i
                                               /\ stream'[p][i].event = tasks'[t].event
      BY DEF Latest
    <2>1. PICK k \in News(p, t)' : k \in 1..(n - 1) /\ k + 1 \in News(p, t)
      BY <1>1
    <2>2. PICK i \in News(p, t) : /\ \A j \in News(p, t) : j <= i
                                  /\ stream[p][i].event = tasks[t].event
      BY <2>1 DEF Mirror, Latest
    <2>3. i \in 1..n /\ k + 1 <= i
      BY <1>2, <2>1, <2>2
    <2>4. i - 1 \in 1..(n - 1) /\ (i - 1) + 1 = i
      BY <1>1, <2>1, <2>3
    <2>5. i - 1 \in News(p, t)'
      BY <1>1, <2>4
    <2>6. \A j \in News(p, t)' : j <= i - 1
      <3> SUFFICES ASSUME NEW j \in News(p, t)' PROVE j <= i - 1
        OBVIOUS
      <3>1. j \in 1..(n - 1) /\ j + 1 \in News(p, t)
        BY <1>1
      <3>2. j + 1 <= i
        BY <2>2, <3>1
      <3> QED BY <1>1, <2>3, <3>1, <3>2
    <2>7. stream'[p][i - 1].event = tasks'[t].event
      BY <1>1, <2>2, <2>4
    <2> QED BY <2>5, <2>6, <2>7
  <1> QED BY <1>3, <1>4, <1>5, <1>6

LEMMA MirrorTakesSnapshot ==
    ASSUME TypeOK, NEW p \in Boards, Deliver(p), Mirror(p), TakesSnapshot(p, Head(stream[p]))
    PROVE  Mirror(p)'
  <1> DEFINE m == Head(stream[p])
  <1>1. /\ UNCHANGED <<tasks, pushed>> /\ fetch' = fetch /\ p \in Pages
        /\ m \in Snapshots /\ view'[p] = m.tasks /\ heard'[p] = m.at
    BY DEF Deliver, TakesSnapshot, Shows, TypeOK, runtime, Boards
  <1>2. Opening(p) /\ ~Opening(p)' /\ Mark(p)' = Mark(p)
    BY <1>1, FirstMessage DEF Mark
  <1>3. InOrder(p)'
    BY <1>1, <1>2, OrderLeft DEF Mirror, InOrder
  <1>4. \A t \in Tasks : News(p, t)' = {} => News(p, t) = {}
    BY <1>1, LatestLeft
  <1>5. OpeningBooks(p)'
    BY <1>2 DEF OpeningBooks
  <1>6. AnswerBooks(p)'
    BY <1>1, <1>2, <1>4 DEF Mirror, AnswerBooks, UpToNews
  <1>7. ViewBooks(p)'
    BY <1>1, <1>2, <1>4 DEF Mirror, ViewBooks, OpeningBooks, UpToNews
  <1> QED BY <1>1, <1>3, <1>5, <1>6, <1>7, LatestLeft DEF Mirror

LEMMA MirrorAppliesEvent ==
    ASSUME TypeOK, Answers, NEW p \in Boards, Deliver(p), Mirror(p),
           Head(stream[p]) \notin Snapshots, AppliesEvent(p, Head(stream[p]))
    PROVE  Mirror(p)'
  <1> DEFINE m == Head(stream[p])
  <1>1. /\ UNCHANGED <<tasks, pushed>> /\ fetch' = fetch /\ p \in Pages
        /\ overtaken' = overtaken
        /\ view'[p] = Applied(view[p], m) /\ heard'[p] = m.event
    BY DEF Deliver, AppliesEvent, Shows, TypeOK, runtime, Boards
  <1>2. ~Opening(p) /\ ~Opening(p)' /\ Mark(p)' = m.event /\ Mark(p) = heard[p]
    BY <1>1, FirstMessage DEF Mark
  <1>3. m \in Events /\ m.task \in Tasks /\ m.event \in Nat /\ m = stream[p][1]
    BY <1>1, FirstMessage DEF Messages, Events, Numbers
  <1>4. Mark(p) < m.event /\ m.event <= pushed /\ Mark(p) \in Nat /\ pushed \in Nat
    <2>1. 1 \in DOMAIN stream[p]
      BY <1>1, FirstMessage, Taken
    <2>2. heard[p] \in Nat /\ pushed \in Nat
      BY <1>1 DEF TypeOK, Numbers
    <2> QED BY <1>2, <1>3, <2>1, <2>2 DEF Mirror, InOrder
  <1>5. InOrder(p)'
    BY <1>1, <1>2, <1>4, OrderLeft
  <1>6. ASSUME NEW t \in Tasks, News(p, t)' = {}
        PROVE  \/ News(p, t) = {} /\ m.task # t
               \/ m.task = t /\ m.event = tasks[t].event
    BY <1>1, <1>3, <1>6, LatestLeft
  <1>7. OpeningBooks(p)'
    BY <1>2 DEF OpeningBooks
  <1>8. AnswerBooks(p)'
    <2> SUFFICES ASSUME NEW i \in Slots, fetch[p][i] \in Snapshots, m.event <= fetch[p][i].at,
                        NEW t \in Tasks, News(p, t)' = {}
                 PROVE  fetch[p][i].tasks[t] = tasks[t].event
      BY <1>1, <1>2 DEF AnswerBooks, UpToNews
    <2>1. fetch[p][i].at \in Nat
      BY DEF Snapshots, Numbers
    <2>2. CASE News(p, t) = {}
      BY <2>1, <2>2, <1>3, <1>4 DEF Mirror, AnswerBooks, UpToNews
    <2>3. CASE m.task = t /\ m.event = tasks[t].event
      <3>1. tasks[t].event > 0 /\ tasks[t].event <= fetch[p][i].at
        BY <2>3, <1>3, <1>4
      <3> QED BY <3>1, <1>1 DEF Answers
    <2> QED BY <1>6, <2>2, <2>3
  <1>9. ViewBooks(p)'
    <2> SUFFICES ASSUME p \notin overtaken, NEW t \in Tasks, News(p, t)' = {}
                 PROVE  view'[p][t] \in {0, tasks[t].event}
      BY <1>1 DEF ViewBooks
    <2>1. view[p] \in [Tasks -> Numbers]
      BY <1>1, PageTypes
    <2>2. CASE News(p, t) = {} /\ m.task # t
      <3>1. view'[p][t] = view[p][t]
        BY <1>1, <2>1, <2>2 DEF Applied
      <3> QED BY <3>1, <2>2, <1>2 DEF Mirror, ViewBooks
    <2>3. CASE m.task = t /\ m.event = tasks[t].event
      BY <1>1, <2>1, <2>3 DEF Applied
    <2> QED BY <1>6, <2>2, <2>3
  <1> QED BY <1>1, <1>5, <1>7, <1>8, <1>9, LatestLeft DEF Mirror
-----------------------------------------------------------------------------
(* The answers that have not arrived.                                       *)
LEMMA AnswersPushes ==
    ASSUME TypeOK, Answers, NEW t \in Tasks, Pushes(t), fetch' = fetch
    PROVE  Answers'
  <1>1. /\ pushed \in Nat /\ pushed' = pushed + 1
        /\ \A u \in Tasks : tasks[u].event \in Nat
        /\ \A u \in Tasks : u # t => tasks'[u] = tasks[u]
        /\ tasks'[t].event = pushed + 1
    BY DEF Pushes, TypeOK, Numbers, States
  <1> SUFFICES ASSUME NEW p \in Pages, NEW i \in Slots, fetch[p][i] \in Snapshots
               PROVE  /\ fetch[p][i].at < pushed'
                      /\ \A u \in Tasks :
                           (tasks'[u].event > 0 /\ tasks'[u].event <= fetch[p][i].at) =>
                               fetch[p][i].tasks[u] = tasks'[u].event
    BY <1>1 DEF Answers, Snapshots, Numbers
  <1>2. fetch[p][i].at \in Nat /\ fetch[p][i].at <= pushed
    BY DEF Answers, Snapshots, Numbers
  <1>3. ASSUME NEW u \in Tasks, tasks'[u].event > 0, tasks'[u].event <= fetch[p][i].at
        PROVE  fetch[p][i].tasks[u] = tasks'[u].event
    <2>1. u # t
      BY <1>1, <1>2, <1>3
    <2> QED BY <2>1, <1>1, <1>3 DEF Answers
  <1> QED BY <1>1, <1>2, <1>3

LEMMA AnswersRestart == ASSUME TypeOK, Answers, Restart PROVE Answers'
  <1>1. /\ pushed \in Nat /\ pushed' = pushed + 1
        /\ \A u \in Tasks : tasks'[u].event = 0
    BY DEF Restart, RestartServer, Absent, TypeOK, Numbers
  <1>2. \A p \in Pages, i \in Slots :
           fetch'[p][i] \in Snapshots => fetch'[p][i] = fetch[p][i]
    BY Apart DEF Restart
  <1>3. \A p \in Pages, i \in Slots : fetch[p][i] \in Snapshots =>
           fetch[p][i].at \in Nat /\ fetch[p][i].at <= pushed
    BY DEF Answers, Snapshots, Numbers
  <1>4. \A p \in Pages, i \in Slots : fetch'[p][i] \in Snapshots =>
           fetch'[p][i].at <= pushed' /\ fetch'[p][i].at # pushed'
    BY <1>1, <1>2, <1>3
  <1> QED BY <1>1, <1>4 DEF Answers

LEMMA AnswersPage ==
    ASSUME TypeOK, Answers, UNCHANGED <<tasks, pushed>>,
           \A p \in Pages, i \in Slots : \/ fetch'[p][i] = fetch[p][i]
                                         \/ fetch'[p][i] \notin Snapshots
                                         \/ fetch'[p][i] = Snapshot
    PROVE  Answers'
  <1>1. Current' = Current
    BY DEF Current
  <1>2. /\ Snapshot.at = pushed /\ Snapshot.tasks = Current /\ pushed \in Nat
        /\ \A t \in Tasks : Current[t] = tasks[t].event
    BY DEF Snapshot, Current, TypeOK, Numbers
  <1> SUFFICES ASSUME NEW p \in Pages, NEW i \in Slots, fetch'[p][i] \in Snapshots
               PROVE  /\ fetch'[p][i].at <= pushed
                      /\ fetch'[p][i].at = pushed => fetch'[p][i].tasks = Current
                      /\ \A t \in Tasks :
                           (tasks[t].event > 0 /\ tasks[t].event <= fetch'[p][i].at) =>
                               fetch'[p][i].tasks[t] = tasks[t].event
    BY <1>1 DEF Answers
  <1>3. CASE fetch'[p][i] = Snapshot
    BY <1>2, <1>3
  <1>4. CASE fetch'[p][i] = fetch[p][i]
    BY <1>4 DEF Answers
  <1> QED BY <1>3, <1>4

(* What the steps of a page do to the fetches of all pages.                 *)
LEMMA PageFetches ==
    ASSUME TypeOK, NEW p \in Pages,
           \/ Refresh(p) \/ Connect(p) \/ StreamDrops(p) \/ Deliver(p)
           \/ \E i \in Slots : ServerAnswers(p, i) \/ AnswerArrives(p, i) \/ FetchFails(p, i)
    PROVE  /\ UNCHANGED <<tasks, pushed, demo, kind>>
           /\ \A q \in Pages, i \in Slots : \/ fetch'[q][i] = fetch[q][i]
                                            \/ fetch'[q][i] \notin Snapshots
                                            \/ fetch'[q][i] = Snapshot
  <1>1. CASE Refresh(p)
    BY <1>1, TypeAsk, Apart DEF Refresh, runtime
  <1>2. CASE Connect(p) \/ StreamDrops(p)
    BY <1>2 DEF Connect, StreamDrops, runtime
  <1>3. CASE Deliver(p)
    <2>1. UNCHANGED fetch \/ Ask(p)
      BY <1>3 DEF Deliver, TakesSnapshot, TakesEvent, FetchesOnEvent, AppliesEvent
    <2> QED BY <1>3, <2>1, TypeAsk, Apart DEF Deliver, runtime
  <1>4. ASSUME NEW i \in Slots, ServerAnswers(p, i) \/ AnswerArrives(p, i) \/ FetchFails(p, i)
        PROVE  /\ UNCHANGED <<tasks, pushed, demo, kind>>
               /\ \A q \in Pages, j \in Slots : \/ fetch'[q][j] = fetch[q][j]
                                                \/ fetch'[q][j] \notin Snapshots
                                                \/ fetch'[q][j] = Snapshot
    <2>1. CASE ServerAnswers(p, i)
      BY <2>1 DEF ServerAnswers, TypeOK, runtime
    <2>2. CASE AnswerArrives(p, i)
      BY <2>2, Apart DEF AnswerArrives, TypeOK, runtime
    <2>3. CASE FetchFails(p, i)
      BY <2>3, Apart DEF FetchFails, TypeOK, runtime
    <2> QED BY <1>4, <2>1, <2>2, <2>3
  <1> QED BY <1>1, <1>2, <1>3, <1>4
-----------------------------------------------------------------------------
(* A step of page p and the books of page q.                                *)
LEMMA MirrorPage ==
    ASSUME IInv, NEW p \in Pages,
           \/ Refresh(p) \/ Connect(p) \/ StreamDrops(p) \/ Deliver(p)
           \/ \E i \in Slots : ServerAnswers(p, i) \/ AnswerArrives(p, i) \/ FetchFails(p, i),
           NEW q \in Boards, stream'[q] # Down
    PROVE  Mirror(q)'
  <1>1. /\ UNCHANGED <<tasks, pushed>> /\ q \in Pages
        /\ \A i \in Slots : \/ fetch'[q][i] = fetch[q][i]
                            \/ fetch'[q][i] \notin Snapshots
                            \/ fetch'[q][i] = Snapshot
    BY PageFetches DEF IInv, Boards
  <1>2. CASE p # q
    <2>1. /\ stream'[q] = stream[q] /\ heard'[q] = heard[q] /\ view'[q] = view[q]
          /\ q \in overtaken' <=> q \in overtaken
      <3>1. CASE Refresh(p) \/ \E i \in Slots : ServerAnswers(p, i) \/ FetchFails(p, i)
        BY <3>1 DEF Refresh, ServerAnswers, FetchFails, history
      <3>2. CASE Connect(p) \/ StreamDrops(p)
        <4>1. heard' = heard /\ view' = view /\ overtaken' = overtaken
          BY <3>2 DEF Connect, StreamDrops, history
        <4>2. \E s : stream' = [stream EXCEPT ![p] = s]
          BY <3>2, Zenon DEF Connect, StreamDrops
        <4>3. stream'[q] = stream[q]
          BY <4>2, <1>1, <1>2 DEF IInv, TypeOK
        <4> QED BY <4>1, <4>3
      <3>3. CASE \E i \in Slots : AnswerArrives(p, i)
        <4>1. stream'[q] = stream[q] /\ heard'[q] = heard[q] /\ view'[q] = view[q]
          BY <3>3, <1>2 DEF AnswerArrives, Shows, IInv, TypeOK
        <4>2. overtaken' = overtaken \cup {p} \/ overtaken' = overtaken \ {p}
          BY <3>3 DEF AnswerArrives
        <4> QED BY <4>1, <4>2, <1>2
      <3>4. CASE Deliver(p)
        <4>1. stream'[q] = stream[q]
          BY <3>4, <1>2 DEF Deliver, IInv, TypeOK
        <4>2. heard'[q] = heard[q] /\ view'[q] = view[q]
          <5>1. CASE TakesSnapshot(p, Head(stream[p]))
            BY <5>1, <1>2 DEF TakesSnapshot, Shows, IInv, TypeOK
          <5>2. CASE FetchesOnEvent(p)
            BY <5>2 DEF FetchesOnEvent, history
          <5>3. CASE AppliesEvent(p, Head(stream[p]))
            BY <5>3, <1>2 DEF AppliesEvent, Shows, IInv, TypeOK
          <5> QED BY <3>4, <5>1, <5>2, <5>3 DEF Deliver, TakesEvent
        <4>3. overtaken' = overtaken \/ overtaken' = overtaken \ {p}
          BY <3>4 DEF Deliver, TakesSnapshot, TakesEvent, FetchesOnEvent, AppliesEvent, history
        <4> QED BY <4>1, <4>2, <4>3, <1>2
      <3> QED BY <3>1, <3>2, <3>3, <3>4
    <2>2. stream[q] # Down /\ Mirror(q)
      BY <2>1 DEF IInv
    <2> QED BY <1>1, <2>1, <2>2, MirrorOther DEF IInv
  <1>3. CASE p = q
    <2>1. CASE Connect(q)
      BY <1>1, <2>1, MirrorConnect DEF IInv
    <2>2. ~StreamDrops(q)
      BY <1>1 DEF StreamDrops, IInv, TypeOK
    <2>3. CASE Refresh(q) \/ \E i \in Slots : ServerAnswers(q, i) \/ FetchFails(q, i)
      <3>1. UNCHANGED <<stream, heard, view, overtaken>>
        BY <2>3 DEF Refresh, ServerAnswers, FetchFails, history
      <3>2. Mirror(q)
        BY <3>1 DEF IInv
      <3> QED BY <1>1, <3>1, <3>2, MirrorOther DEF IInv
    <2>4. CASE \E i \in Slots : AnswerArrives(q, i)
      <3>1. stream[q] # Down /\ Mirror(q)
        BY <2>4 DEF AnswerArrives, IInv
      <3> QED BY <1>1, <2>4, <3>1, MirrorArrives DEF IInv
    <2>5. CASE Deliver(q)
      <3>1. Mirror(q)
        BY <2>5 DEF Deliver, IInv
      <3>2. q \notin Studios
        BY <1>1, PageKinds DEF IInv
      <3>3. CASE TakesSnapshot(q, Head(stream[q]))
        BY <2>5, <3>1, <3>3, MirrorTakesSnapshot DEF IInv
      <3>4. CASE Head(stream[q]) \notin Snapshots /\ AppliesEvent(q, Head(stream[q]))
        BY <2>5, <3>1, <3>4, MirrorAppliesEvent DEF IInv
      <3> QED BY <2>5, <3>2, <3>3, <3>4 DEF Deliver, TakesEvent, FetchesOnEvent
    <2> QED BY <1>3, <2>1, <2>2, <2>3, <2>4, <2>5
  <1> QED BY <1>2, <1>3

LEMMA TypePageStep ==
    ASSUME IInv, NEW p \in Pages,
           \/ Refresh(p) \/ Connect(p) \/ StreamDrops(p) \/ Deliver(p)
           \/ \E i \in Slots : ServerAnswers(p, i) \/ AnswerArrives(p, i) \/ FetchFails(p, i)
    PROVE  TypeOK'
  <1>1. TypeOK
    BY DEF IInv
  <1>2. CASE Refresh(p)
    BY <1>1, <1>2, TypeAsk, TypePage DEF Refresh, TypeOK, history
  <1>3. CASE Connect(p) \/ StreamDrops(p)
    BY <1>1, <1>3, TypeConnection
  <1>4. CASE Deliver(p)
    <2>1. ASSUME p \in Boards
          PROVE  /\ Head(stream[p]).at <= pushed \/ Head(stream[p]) \notin Snapshots
                 /\ Head(stream[p]).event <= pushed \/ Head(stream[p]) \in Snapshots
      <3>1. Mirror(p)
        BY <1>4, <2>1 DEF Deliver, IInv
      <3>2. /\ stream[p] # <<>> /\ Head(stream[p]) = stream[p][1] /\ 1 \in DOMAIN stream[p]
        BY <1>1, <1>4, <3>1, FirstMessage, Taken
      <3> QED BY <3>1, <3>2 DEF Mirror, InOrder, Mark, Opening
    <2> QED BY <1>1, <1>4, <2>1, TypeDeliver
  <1>5. CASE \E i \in Slots : ServerAnswers(p, i) \/ AnswerArrives(p, i) \/ FetchFails(p, i)
    BY <1>1, <1>5, TypeAnswers
  <1> QED BY <1>2, <1>3, <1>4, <1>5

LEMMA Invariance == Spec => []IInv
  <1>1. ASSUME Init PROVE IInv
    <2>1. TypeOK
      BY <1>1, TypeInit
    <2>2. Answers
      BY <1>1, Apart DEF Init, Answers
    <2>3. \A p \in Pages : stream[p] = Down
      BY <1>1 DEF Init
    <2> QED BY <2>1, <2>2, <2>3 DEF IInv, Boards
  <1>2. ASSUME IInv, [Next]_vars PROVE IInv'
    <2> USE <1>2
    <2>1. TypeOK /\ Answers
      BY DEF IInv
    <2>2. CASE Serve
      <3>1. /\ demo' \in [Tasks -> Scripts] /\ UNCHANGED <<kind, view, fetch, history>>
            /\ \A p \in Pages : p \in Boards' => p \in Boards
        BY <2>1, <2>2, ServePushes DEF Serve, Boards
      <3>2. CASE \E t \in Tasks : Pushes(t)
        <4>1. PICK t \in Tasks : Pushes(t)
          BY <3>2
        <4>2. TypeOK'
          BY <2>1, <3>1, <4>1, TypePushes
        <4>3. Answers'
          BY <2>1, <3>1, <4>1, AnswersPushes
        <4>4. ASSUME NEW p \in Boards', stream'[p] # Down PROVE Mirror(p)'
          <5>1. p \in Pages /\ p \in Boards /\ stream[p] # Down
            BY <3>1, <4>1, <4>4 DEF Boards, Pushes
          <5>2. Mirror(p)
            BY <5>1 DEF IInv
          <5> QED BY <2>1, <3>1, <4>1, <5>1, <5>2, MirrorPushes
        <4> QED BY <4>2, <4>3, <4>4 DEF IInv
      <3>3. CASE UNCHANGED <<tasks, pushed, stream>>
        <4>1. TypeOK'
          BY <2>1, <3>1, <3>3 DEF TypeOK, history
        <4>2. Answers'
          BY <2>1, <3>1, <3>3, AnswersPage
        <4>3. ASSUME NEW p \in Boards', stream'[p] # Down PROVE Mirror(p)'
          <5>1. p \in Pages /\ p \in Boards /\ stream[p] # Down
            BY <3>1, <3>3, <4>3 DEF Boards
          <5>2. Mirror(p)
            BY <5>1 DEF IInv
          <5> QED BY <2>1, <3>1, <3>3, <5>1, <5>2, MirrorOther DEF history
        <4> QED BY <4>1, <4>2, <4>3 DEF IInv
      <3> QED BY <2>1, <2>2, <3>2, <3>3, ServePushes
    <2>3. CASE Restart
      <3>1. \A p \in Pages : stream'[p] = Down
        BY <2>3 DEF Restart, StreamsEnd
      <3> QED BY <2>1, <2>3, <3>1, TypeRestart, AnswersRestart DEF IInv, Boards
    <2>4. ASSUME NEW p \in Pages,
                 \/ Refresh(p) \/ Connect(p) \/ StreamDrops(p) \/ Deliver(p)
                 \/ \E i \in Slots : ServerAnswers(p, i) \/ AnswerArrives(p, i) \/ FetchFails(p, i)
          PROVE  IInv'
      <3>1. TypeOK' /\ Answers'
        BY <2>1, <2>4, TypePageStep, PageFetches, AnswersPage
      <3>2. Boards' = Boards
        BY <2>1, <2>4, PageFetches DEF Boards
      <3>3. ASSUME NEW q \in Boards', stream'[q] # Down PROVE Mirror(q)'
        BY <2>4, <3>2, <3>3, MirrorPage
      <3> QED BY <3>1, <3>3 DEF IInv
    <2>5. CASE UNCHANGED vars
      <3>1. /\ TypeOK' /\ Answers'
            /\ UNCHANGED <<tasks, pushed, kind, view, stream, fetch, heard, overtaken>>
        BY <2>1, <2>5 DEF vars, runtime, history, TypeOK, Answers, Current
      <3>2. ASSUME NEW p \in Boards', stream'[p] # Down PROVE Mirror(p)'
        <4>1. p \in Pages /\ p \in Boards /\ stream[p] # Down
          BY <3>1, <3>2 DEF Boards
        <4>2. Mirror(p)
          BY <4>1 DEF IInv
        <4> QED BY <2>1, <3>1, <4>1, <4>2, MirrorOther
      <3> QED BY <3>1, <3>2 DEF IInv
    <2> QED BY ONLY <1>2, <2>2, <2>3, <2>4, <2>5 DEF Next
  <1> QED BY <1>1, <1>2, PTL DEF Spec
-----------------------------------------------------------------------------
(* Every variable keeps its type; an event of a task is one the server has  *)
(* pushed, and a page heard of none that is still to come.                  *)
THEOREM TypeCorrect == Spec => []TypeOK
  <1>1. IInv => TypeOK
    BY DEF IInv
  <1> QED BY <1>1, Invariance, PTL

(* What a board shows of a task it knows is, after the messages on their    *)
(* way, what the server has, however its fetches overtake each other and    *)
(* its stream: unless a fetched snapshot that the stream had overtaken came *)
(* last.                                                                    *)
THEOREM BoardsFollow == Spec => []BoardFollows
  <1>1. ASSUME IInv PROVE BoardFollows
    <2> SUFFICES ASSUME NEW p \in Boards, p \notin overtaken, stream[p] # Down, NEW t \in Tasks
                 PROVE  AfterStream(p)[t] \in {0, tasks[t].event}
      BY DEF BoardFollows
    <2>1. TypeOK /\ Mirror(p) /\ p \in Pages
      BY <1>1 DEF IInv, Boards
    <2>2. CASE News(p, t) = {}
      <3>1. AfterStream(p)[t] = Begins(p)[t]
        BY <2>2 DEF AfterStream
      <3>2. CASE Opening(p)
        BY <2>1, <2>2, <3>1, <3>2 DEF Begins, Opening, Mirror, OpeningBooks, UpToNews
      <3>3. CASE ~Opening(p)
        <4>1. Begins(p) = view[p]
          BY <3>3 DEF Begins, Opening
        <4> QED BY <2>1, <2>2, <3>1, <3>3, <4>1 DEF Mirror, ViewBooks
      <3> QED BY <3>2, <3>3
    <2>3. CASE News(p, t) # {}
      <3> DEFINE last == CHOOSE i \in News(p, t) : \A j \in News(p, t) : j <= i
      <3>1. AfterStream(p)[t] = IF Begins(p)[t] = 0 THEN 0 ELSE stream[p][last].event
        BY <2>3 DEF AfterStream
      <3>2. PICK i \in News(p, t) : /\ \A j \in News(p, t) : j <= i
                                    /\ stream[p][i].event = tasks[t].event
        BY <2>1, <2>3 DEF Mirror, Latest
      <3>3. last \in News(p, t) /\ \A j \in News(p, t) : j <= last
        BY <3>2
      <3>4. News(p, t) \subseteq Nat
        <4>1. stream[p] \in Seq(Messages)
          BY <2>1, PageTypes
        <4>2. DOMAIN stream[p] = 1..Len(stream[p]) /\ Len(stream[p]) \in Nat
          BY <4>1
        <4> QED BY <4>2 DEF News
      <3> HIDE DEF last
      <3>5. last = i
        BY <3>2, <3>3, <3>4
      <3> QED BY <3>1, <3>2, <3>5
    <2> QED BY <2>2, <2>3
  <1> QED BY <1>1, Invariance, PTL

(* A finished task is moved by a control or lost in a restart: a second     *)
(* create is refused and the timers of its demo leave it alone.             *)
THEOREM OnlyControl == Spec => OnlyControlReopens
  <1>1. ASSUME TypeOK, [Next]_vars, NEW t \in Tasks,
               tasks[t].status = "finished", tasks'[t] # tasks[t]
        PROVE  tasks'[t] = Absent \/ \E a \in Actions : Control(t, a)
    <2>1. Exists(t) /\ ~Unfinished(t)
      BY <1>1 DEF Exists, Absent, Unfinished
    <2>2. CASE Restart
      BY <2>2 DEF Restart, RestartServer
    <2>3. CASE Serve
      <3>1. PICK u \in Tasks : \/ Create(u) \/ DemoStep(u)
                               \/ \E a \in Actions : Control(u, a)
                               \/ \E f \in Flows : Demo(u, f)
        BY <2>3 DEF Serve
      <3>2. u = t
        BY <1>1, <3>1 DEF Create, DemoStep, Control, Demo, Push, TypeOK
      <3>3. ~Create(t) /\ ~\E f \in Flows : Demo(t, f)
        BY <2>1 DEF Create, Demo
      <3>4. ~DemoStep(t)
        BY <1>1, <2>1 DEF DemoStep
      <3> QED BY <3>1, <3>2, <3>3, <3>4
    <2>4. ASSUME NEW p \in Pages,
                 \/ Refresh(p) \/ Connect(p) \/ StreamDrops(p) \/ Deliver(p)
                 \/ \E i \in Slots : ServerAnswers(p, i) \/ AnswerArrives(p, i) \/ FetchFails(p, i)
          PROVE  FALSE
      BY <1>1, <2>4, PageFetches
    <2>5. CASE UNCHANGED vars
      BY <1>1, <2>5 DEF vars, runtime
    <2> QED BY ONLY <1>1, <2>2, <2>3, <2>4, <2>5 DEF Next
  <1>2. ASSUME TypeOK, [Next]_vars
        PROVE  [\A t \in Tasks :
                  (tasks[t].status = "finished" /\ tasks'[t] # tasks[t]) =>
                      \/ tasks'[t] = Absent
                      \/ \E a \in Actions : Control(t, a)]_vars
    BY <1>1, <1>2
  <1> QED BY <1>2, TypeCorrect, PTL DEF Spec, OnlyControlReopens
-----------------------------------------------------------------------------
(* What StudioConverges comes to without fairness: a studio that shows what *)
(* the server has, with no older snapshot on its way to it, stays so until  *)
(* the server has an event or starts again, whatever it polls meanwhile.    *)
CaughtUp(p) ==
    /\ view[p] = Current
    /\ \A i \in Slots : fetch[p][i] \in Snapshots => fetch[p][i].at = pushed
    /\ \A i \in DOMAIN stream[p] : stream[p][i] \in Snapshots => stream[p][i].at = pushed
StaysCaughtUp == [][\A p \in Studios : (CaughtUp(p) /\ pushed' = pushed) => CaughtUp(p)']_vars

(* A snapshot in a stream that is as young as the server is what it has.    *)
StreamsDated ==
    \A p \in Pages : \A i \in DOMAIN stream[p] : stream[p][i] \in Snapshots =>
        /\ stream[p][i].at <= pushed
        /\ stream[p][i].at = pushed => stream[p][i].tasks = Current

(* Whatever changes the tasks is counted.                                   *)
LEMMA ChangesCounted ==
    ASSUME TypeOK, [Next]_vars
    PROVE  \/ UNCHANGED <<tasks, pushed>>
           \/ pushed' = pushed + 1
  <1>1. CASE Serve
    BY <1>1, ServePushes DEF Pushes
  <1>2. CASE Restart
    BY <1>2 DEF Restart, RestartServer
  <1>3. ASSUME NEW p \in Pages,
               \/ Refresh(p) \/ Connect(p) \/ StreamDrops(p) \/ Deliver(p)
               \/ \E i \in Slots : ServerAnswers(p, i) \/ AnswerArrives(p, i) \/ FetchFails(p, i)
        PROVE  UNCHANGED <<tasks, pushed>>
    BY <1>3, PageFetches
  <1>4. CASE UNCHANGED vars
    BY <1>4 DEF vars, runtime
  <1> QED BY ONLY [Next]_vars, <1>1, <1>2, <1>3, <1>4 DEF Next

(* A snapshot in a stream was there before, or is that of now.              *)
LEMMA StreamSnapshots ==
    ASSUME TypeOK, [Next]_vars, NEW p \in Pages, NEW i \in DOMAIN stream'[p],
           stream'[p][i] \in Snapshots
    PROVE  \/ \E j \in DOMAIN stream[p] : stream[p][j] = stream'[p][i]
           \/ stream'[p][i] = Snapshot /\ UNCHANGED <<tasks, pushed>>
  <1>0. /\ Down[1] \notin Snapshots /\ DOMAIN Down = {1}
        /\ stream[p] # Down => stream[p] \in Seq(Messages)
    <2>1. Down[1] = [stream |-> "down"] /\ DOMAIN Down = {1}
      BY DEF Down
    <2>2. "tasks" \notin DOMAIN [stream |-> "down"]
      OBVIOUS
    <2> QED BY <2>1, <2>2, PageKinds DEF Snapshots
  <1>1. CASE stream'[p] = stream[p]
    BY <1>1
  <1>2. CASE stream'[p] = Down
    BY <1>0, <1>2
  <1>3. ASSUME NEW t \in Tasks, Pushes(t)
        PROVE  \E j \in DOMAIN stream[p] : stream[p][j] = stream'[p][i]
    <2>1. CASE stream[p] = Down
      BY <1>0, <1>3, <2>1 DEF Pushes
    <2>2. CASE stream[p] # Down
      <3> DEFINE m == [task |-> t, event |-> pushed + 1]
      <3>1. stream'[p] = Append(stream[p], m) /\ m \in Events
        BY <1>3, <2>2 DEF Pushes, Events
      <3>2. m \notin Snapshots /\ m \in Messages
        BY <3>1, Apart DEF Messages
      <3> HIDE DEF m
      <3>3. /\ DOMAIN stream'[p] = 1..(Len(stream[p]) + 1)
            /\ DOMAIN stream[p] = 1..Len(stream[p]) /\ Len(stream[p]) \in Nat
            /\ \A j \in 1..Len(stream[p]) : stream'[p][j] = stream[p][j]
            /\ stream'[p][Len(stream[p]) + 1] = m
        BY <1>0, <2>2, <3>1, <3>2
      <3> QED BY <3>2, <3>3
    <2> QED BY <2>1, <2>2
  <1>4. CASE Serve
    BY <1>1, <1>3, <1>4, ServePushes
  <1>5. CASE Restart
    BY <1>2, <1>5 DEF Restart, StreamsEnd
  <1>6. ASSUME NEW q \in Pages, Connect(q)
        PROVE  \/ \E j \in DOMAIN stream[p] : stream[p][j] = stream'[p][i]
               \/ stream'[p][i] = Snapshot /\ UNCHANGED <<tasks, pushed>>
    <2>1. CASE p = q
      <3>1. stream'[p] = <<Snapshot>>
        BY <1>6, <2>1 DEF Connect, TypeOK
      <3>2. i = 1 /\ stream'[p][1] = Snapshot
        BY <3>1
      <3> QED BY <1>6, <3>2 DEF Connect, runtime
    <2>2. CASE p # q
      BY <1>1, <1>6, <2>2 DEF Connect, TypeOK
    <2> QED BY <2>1, <2>2
  <1>7. ASSUME NEW q \in Pages, StreamDrops(q)
        PROVE  \E j \in DOMAIN stream[p] : stream[p][j] = stream'[p][i]
    <2>1. CASE p = q
      <3>1. stream'[p] = Down
        BY <1>7, <2>1 DEF StreamDrops, TypeOK
      <3> QED BY <1>0, <3>1
    <2>2. CASE p # q
      <3>1. stream'[p] = stream[p]
        BY <1>7, <2>2 DEF StreamDrops, TypeOK
      <3> QED BY <1>1, <3>1
    <2> QED BY <2>1, <2>2
  <1>8. ASSUME NEW q \in Pages, Deliver(q)
        PROVE  \E j \in DOMAIN stream[p] : stream[p][j] = stream'[p][i]
    <2>1. CASE p = q
      <3>1. stream'[p] = Tail(stream[p]) /\ stream[p] \in Seq(Messages) /\ stream[p] # <<>>
        BY <1>0, <1>8, <2>1 DEF Deliver, TypeOK
      <3>2. /\ DOMAIN stream[p] = 1..Len(stream[p]) /\ Len(stream[p]) \in Nat
            /\ DOMAIN stream'[p] = 1..(Len(stream[p]) - 1)
            /\ \A j \in 1..(Len(stream[p]) - 1) : stream'[p][j] = stream[p][j + 1]
        BY <3>1, Taken
      <3>3. i + 1 \in DOMAIN stream[p] /\ stream[p][i + 1] = stream'[p][i]
        BY <3>2
      <3> QED BY <3>3
    <2>2. CASE p # q
      BY <1>1, <1>8, <2>2 DEF Deliver, TypeOK
    <2> QED BY <2>1, <2>2
  <1>9. ASSUME NEW q \in Pages,
               \/ Refresh(q)
               \/ \E j \in Slots : ServerAnswers(q, j) \/ AnswerArrives(q, j) \/ FetchFails(q, j)
        PROVE  stream'[p] = stream[p]
    BY <1>9 DEF Refresh, ServerAnswers, AnswerArrives, FetchFails
  <1>10. CASE UNCHANGED vars
    BY <1>1, <1>10 DEF vars
  <1> QED BY ONLY [Next]_vars, <1>1, <1>4, <1>5, <1>6, <1>7, <1>8, <1>9, <1>10 DEF Next

(* So was a fetched snapshot.                                               *)
LEMMA FetchedAnew ==
    ASSUME TypeOK, [Next]_vars, NEW p \in Pages, NEW i \in Slots, fetch'[p][i] \in Snapshots
    PROVE  fetch'[p][i] = fetch[p][i] \/ fetch'[p][i] = Snapshot
  <1>1. CASE Serve \/ UNCHANGED vars
    BY <1>1 DEF Serve, vars
  <1>2. CASE Restart
    BY <1>2, Apart DEF Restart
  <1>3. ASSUME NEW q \in Pages,
               \/ Refresh(q) \/ Connect(q) \/ StreamDrops(q) \/ Deliver(q)
               \/ \E j \in Slots : ServerAnswers(q, j) \/ AnswerArrives(q, j) \/ FetchFails(q, j)
        PROVE  fetch'[p][i] = fetch[p][i] \/ fetch'[p][i] = Snapshot
    BY <1>3, PageFetches
  <1> QED BY ONLY [Next]_vars, <1>1, <1>2, <1>3 DEF Next

LEMMA DatedStep == ASSUME TypeOK, StreamsDated, [Next]_vars PROVE StreamsDated'
  <1> SUFFICES ASSUME NEW p \in Pages, NEW i \in DOMAIN stream'[p], stream'[p][i] \in Snapshots
               PROVE  /\ stream'[p][i].at <= pushed'
                      /\ stream'[p][i].at = pushed' => stream'[p][i].tasks = Current'
    BY DEF StreamsDated
  <1> DEFINE m == stream'[p][i]
  <1>1. pushed \in Nat /\ m.at \in Nat
    BY DEF TypeOK, Numbers, Snapshots
  <1>2. CASE m = Snapshot /\ UNCHANGED <<tasks, pushed>>
    BY <1>1, <1>2 DEF Snapshot, Current
  <1>3. CASE \E j \in DOMAIN stream[p] : stream[p][j] = m
    <2>1. m.at <= pushed /\ (m.at = pushed => m.tasks = Current)
      BY <1>3 DEF StreamsDated
    <2>2. UNCHANGED <<tasks, pushed>> \/ pushed' = pushed + 1
      BY ChangesCounted
    <2>3. UNCHANGED tasks => Current' = Current
      BY DEF Current
    <2> HIDE DEF m
    <2> QED BY <1>1, <2>1, <2>2, <2>3 DEF m
  <1> QED BY <1>2, <1>3, StreamSnapshots

(* What a page comes to show, if it changes.                                *)
LEMMA ShownAnew ==
    ASSUME TypeOK, [Next]_vars, NEW p \in Studios
    PROVE  \/ view'[p] = view[p]
           \/ \E i \in Slots : fetch[p][i] \in Snapshots /\ view'[p] = fetch[p][i].tasks
           \/ \E i \in DOMAIN stream[p] :
                 stream[p][i] \in Snapshots /\ view'[p] = stream[p][i].tasks
  <1>0. p \in Pages /\ p \notin Boards
    BY PageKinds DEF Studios
  <1>1. ASSUME NEW q \in Pages, NEW i \in Slots, AnswerArrives(q, i)
        PROVE  \/ view'[p] = view[p]
               \/ \E j \in Slots : fetch[p][j] \in Snapshots /\ view'[p] = fetch[p][j].tasks
    BY <1>0, <1>1 DEF AnswerArrives, Shows, TypeOK
  <1>2. ASSUME NEW q \in Pages, Deliver(q)
        PROVE  \/ view'[p] = view[p]
               \/ \E i \in DOMAIN stream[p] :
                     stream[p][i] \in Snapshots /\ view'[p] = stream[p][i].tasks
    <2>1. CASE view' = view
      BY <2>1
    <2>2. CASE AppliesEvent(q, Head(stream[q]))
      BY <1>0, <2>2 DEF AppliesEvent, Shows, TypeOK
    <2>3. CASE TakesSnapshot(q, Head(stream[q])) /\ p # q
      BY <1>0, <2>3 DEF TakesSnapshot, Shows, TypeOK
    <2>4. CASE TakesSnapshot(q, Head(stream[q])) /\ p = q
      <3>1. stream[p] \in Seq(Messages) /\ stream[p] # <<>>
        BY <1>0, <1>2, <2>4, PageKinds DEF Deliver
      <3>2. 1 \in DOMAIN stream[p] /\ Head(stream[p]) = stream[p][1]
        BY <3>1
      <3>3. Head(stream[p]) \in Snapshots /\ view'[p] = Head(stream[p]).tasks
        BY <1>0, <2>4 DEF TakesSnapshot, Shows, TypeOK
      <3> QED BY <3>2, <3>3
    <2> QED BY <1>2, <2>1, <2>2, <2>3, <2>4 DEF Deliver, TakesEvent, FetchesOnEvent
  <1>3. ASSUME NEW q \in Pages,
               \/ Refresh(q) \/ Connect(q) \/ StreamDrops(q)
               \/ \E i \in Slots : ServerAnswers(q, i) \/ FetchFails(q, i)
        PROVE  view' = view
    BY <1>3 DEF Refresh, Connect, StreamDrops, ServerAnswers, FetchFails
  <1>4. CASE Serve \/ Restart \/ UNCHANGED vars
    BY <1>4 DEF Serve, Restart, vars
  <1> QED BY ONLY [Next]_vars, <1>1, <1>2, <1>3, <1>4 DEF Next

(* Fetches that overtake each other, a stream that opens again and polls    *)
(* without end take nothing from a studio that is up to date: only an older *)
(* snapshot could, and once none is on its way none ever is until the next  *)
(* event.                                                                   *)
THEOREM StudioStays == Spec => StaysCaughtUp
  <1>1. ASSUME IInv, StreamsDated, [Next]_vars, NEW p \in Studios, CaughtUp(p), pushed' = pushed
        PROVE  CaughtUp(p)'
    <2>0. TypeOK /\ Answers /\ p \in Pages /\ pushed \in Nat
      BY <1>1 DEF IInv, Studios, TypeOK, Numbers
    <2>1. UNCHANGED <<tasks, pushed>> /\ Current' = Current
      <3>1. UNCHANGED <<tasks, pushed>> \/ pushed' = pushed + 1
        BY <1>1, <2>0, ChangesCounted
      <3> QED BY <1>1, <2>0, <3>1 DEF Current
    <2>2. \A i \in Slots : fetch[p][i] \in Snapshots => fetch[p][i].tasks = Current
      BY <1>1, <2>0 DEF CaughtUp, Answers
    <2>3. \A i \in DOMAIN stream[p] : stream[p][i] \in Snapshots => stream[p][i].tasks = Current
      BY <1>1, <2>0 DEF CaughtUp, StreamsDated
    <2>4. view'[p] = Current
      BY <1>1, <2>0, <2>2, <2>3, ShownAnew DEF CaughtUp
    <2>5. ASSUME NEW i \in Slots, fetch'[p][i] \in Snapshots
          PROVE  fetch'[p][i].at = pushed
      <3>1. fetch'[p][i] = fetch[p][i] \/ fetch'[p][i] = Snapshot
        BY <1>1, <2>0, <2>1, <2>5, FetchedAnew
      <3> QED BY <1>1, <2>5, <3>1 DEF CaughtUp, Snapshot
    <2>6. ASSUME NEW i \in DOMAIN stream'[p], stream'[p][i] \in Snapshots
          PROVE  stream'[p][i].at = pushed
      <3>1. (\E j \in DOMAIN stream[p] : stream[p][j] = stream'[p][i]) \/ stream'[p][i] = Snapshot
        BY <1>1, <2>0, <2>6, StreamSnapshots
      <3> QED BY <1>1, <2>6, <3>1 DEF CaughtUp, Snapshot
    <2> QED BY <2>1, <2>4, <2>5, <2>6 DEF CaughtUp
  <1>2. Init => StreamsDated
    <2> SUFFICES ASSUME Init PROVE StreamsDated
      OBVIOUS
    <2>1. /\ DOMAIN Down = {1} /\ Down[1] = [stream |-> "down"]
          /\ "tasks" \notin DOMAIN [stream |-> "down"]
      BY DEF Down
    <2>2. Down[1] \notin Snapshots
      BY <2>1 DEF Snapshots
    <2> QED BY <2>1, <2>2 DEF Init, StreamsDated
  <1>3. IInv /\ StreamsDated /\ [Next]_vars => StreamsDated'
    BY DatedStep DEF IInv
  <1>4. IInv /\ StreamsDated /\ [Next]_vars =>
          [\A p \in Studios : (CaughtUp(p) /\ pushed' = pushed) => CaughtUp(p)']_vars
    BY <1>1
  <1> QED BY <1>2, <1>3, <1>4, Invariance, PTL DEF Spec, StaysCaughtUp
=============================================================================
