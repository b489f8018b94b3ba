------------------------------ MODULE TaskPages ------------------------------
(***************************************************************************)
(* The task runtime with the pages that show it.  The server pushes every  *)
(* event to the streams that are open, each beginning with a snapshot, and *)
(* answers /snapshot.  A studio (public/studio/studio-core.js) takes an    *)
(* event as a reason to fetch the snapshot, and polls; a board (public/    *)
(* progress-hub/task-runtime.js) applies the event to what it shows, and   *)
(* fetches when its user acts.  A stream is delivered in order; fetches of *)
(* one page overlap and are answered in any order.                         *)
(***************************************************************************)
EXTENDS TaskRuntime

CONSTANTS Pages,
          MaxFetches,       \* bound on the fetches a page has under way
          MaxFaults         \* bound on restarts, streams that drop and fetches that fail

ASSUME PagesAssumption == MaxFetches \in Nat \ {0} /\ MaxFaults \in Nat

VARIABLES kind,     \* of a page: "studio" or "board"
          view,     \* what a page shows: per task the event it is as of
          stream,   \* messages on the way to the page, or Down
          fetch,    \* per slot: Free, Asked, or the snapshot that is the answer
          faults,
          heard,    \* per board: pushed, as of what its stream last delivered
          overtaken \* boards whose last snapshot was overtaken by their stream

history == <<heard, overtaken>>
vars == <<runtime, kind, view, stream, fetch, faults, history>>

Studios   == {p \in Pages : kind[p] = "studio"}
Boards    == {p \in Pages : kind[p] = "board"}
Numbers   == 0..MaxEvents
Slots     == 1..MaxFetches
Snapshots == [tasks : [Tasks -> Numbers], at : Numbers]
Down  == <<[stream |-> "down"]>>
Free  == [slot |-> "free"]
Asked == [slot |-> "asked"]
EventMessage(t) == [task |-> t, event |-> tasks[t].event]

(* runtimeSnapshot; "at" stands for generatedAt, which no page looks at.   *)
Current  == [t \in Tasks |-> tasks[t].event]
Snapshot == [tasks |-> Current, at |-> pushed]

Init ==
    /\ RuntimeInit
    /\ kind \in [Pages -> {"studio", "board"}]
    /\ view = [p \in Pages |-> [t \in Tasks |-> 0]]
    /\ stream = [p \in Pages |-> Down]
    /\ fetch = [p \in Pages |-> [i \in Slots |-> Free]]
    /\ faults = 0
    /\ heard = [p \in Pages |-> 0] /\ overtaken = {}
-----------------------------------------------------------------------------
Fault == faults < MaxFaults /\ faults' = faults + 1

(* broadcastRuntimeEvent, for the task that has a new event.               *)
Broadcast ==
    \E t \in Tasks :
        /\ tasks'[t].event > tasks[t].event
        /\ stream' = [p \in Pages |-> IF stream[p] = Down THEN Down
                        ELSE Append(stream[p], EventMessage(t)')]

Serve ==
    /\ \E t \in Tasks : \/ Create(t) \/ DemoStep(t)
                        \/ \E a \in Actions : Control(t, a)
                        \/ \E f \in Flows : Demo(t, f)
    /\ Broadcast \/ (pushed' = pushed /\ UNCHANGED stream)
    /\ UNCHANGED <<kind, view, fetch, faults, history>>

(* cleanup ends the streams, the requests that were not answered fail.  The *)
(* slip forgets the streams.                                               *)
StreamsLeft == UNCHANGED stream
StreamsEnd  == stream' = [p \in Pages |-> Down]
Restart ==
    /\ Fault /\ RestartServer /\ StreamsEnd
    /\ fetch' = [p \in Pages |-> [i \in Slots |->
                    IF fetch[p][i] = Asked THEN Free ELSE fetch[p][i]]]
    /\ UNCHANGED <<kind, view, history>>
-----------------------------------------------------------------------------
Ask(p) ==
    \E i \in Slots :
        /\ fetch[p][i] = Free /\ \A j \in Slots : fetch[p][j] = Free => i <= j
        /\ fetch' = [fetch EXCEPT ![p][i] = Asked]

(* refreshRuntimeSnapshot from the poll of a studio, refreshSnapshot from  *)
(* the start or a click on a board.  The slip does so at the start only.   *)
RefreshAtStart(p) ==
    /\ pushed = 0
    /\ Ask(p)
    /\ UNCHANGED <<runtime, kind, view, stream, faults, history>>
Refresh(p) ==
    /\ Ask(p)
    /\ UNCHANGED <<runtime, kind, view, stream, faults, history>>

ServerAnswers(p, i) ==
    /\ fetch[p][i] = Asked
    /\ fetch' = [fetch EXCEPT ![p][i] = Snapshot]
    /\ UNCHANGED <<runtime, kind, view, stream, faults, history>>

(* STUDIO_STATE.runtime = payload, or applySnapshot: whatever came before. *)
Shows(p, shown) == view' = [view EXCEPT ![p] = shown]

AnswerArrives(p, i) ==
    /\ fetch[p][i] \in Snapshots
    /\ fetch' = [fetch EXCEPT ![p][i] = Free]
    /\ Shows(p, fetch[p][i].tasks)
    /\ overtaken' = IF fetch[p][i].at < heard[p] THEN overtaken \cup {p} ELSE overtaken \ {p}
    /\ UNCHANGED <<runtime, kind, stream, faults, heard>>

FetchFails(p, i) ==
    /\ Fault
    /\ fetch[p][i] # Free /\ fetch' = [fetch EXCEPT ![p][i] = Free]
    /\ UNCHANGED <<runtime, kind, view, stream, history>>
-----------------------------------------------------------------------------
(* /stream: the page is registered and gets a snapshot.                    *)
Connect(p) ==
    /\ stream[p] = Down
    /\ stream' = [stream EXCEPT ![p] = <<Snapshot>>]
    /\ UNCHANGED <<runtime, kind, view, fetch, faults, history>>

(* The connection drops; EventSource will connect again.                   *)
StreamDrops(p) ==
    /\ Fault
    /\ stream[p] # Down /\ stream' = [stream EXCEPT ![p] = Down]
    /\ UNCHANGED <<runtime, kind, view, fetch, history>>

(* applyEvent: a task the board does not show is left out.                 *)
Applied(shown, m) == IF shown[m.task] = 0 THEN shown ELSE [shown EXCEPT ![m.task] = m.event]

TakesSnapshot(p, m) ==
    /\ m \in Snapshots
    /\ Shows(p, m.tasks)
    /\ heard' = IF p \in Boards THEN [heard EXCEPT ![p] = m.at] ELSE heard
    /\ overtaken' = overtaken \ {p}
    /\ UNCHANGED fetch

FetchesOnEvent(p) ==
    /\ p \in Studios
    /\ Ask(p)
    /\ UNCHANGED <<view, history>>

AppliesEvent(p, m) ==
    /\ p \in Boards
    /\ Shows(p, Applied(view[p], m))
    /\ heard' = [heard EXCEPT ![p] = m.event]
    /\ UNCHANGED <<fetch, overtaken>>

TakesEvent(p, m) == m \notin Snapshots /\ (FetchesOnEvent(p) \/ AppliesEvent(p, m))

Deliver(p) ==
    /\ stream[p] \notin {Down, <<>>}
    /\ stream' = [stream EXCEPT ![p] = Tail(@)]
    /\ TakesSnapshot(p, Head(stream[p])) \/ TakesEvent(p, Head(stream[p]))
    /\ UNCHANGED <<runtime, kind, faults>>

Next == \/ Serve \/ Restart
        \/ \E p \in Pages : \/ Refresh(p) \/ Connect(p) \/ StreamDrops(p) \/ Deliver(p)
                            \/ \E i \in Slots : \/ ServerAnswers(p, i) \/ AnswerArrives(p, i)
                                                \/ FetchFails(p, i)

(* The poll of a studio; a board has none.  The server answers, answers    *)
(* and messages arrive, EventSource connects again.                        *)
Fairness ==
    /\ \A p \in Pages : WF_vars(p \in Studios /\ Refresh(p))
    /\ \A p \in Pages : WF_vars(Connect(p)) /\ WF_vars(Deliver(p))
    /\ \A p \in Pages, i \in Slots : WF_vars(ServerAnswers(p, i)) /\ WF_vars(AnswerArrives(p, i))

Spec == Init /\ [][Next]_vars /\ Fairness
-----------------------------------------------------------------------------
(* What a board shows of a task it knows is, after the messages on their   *)
(* way, what the server has: unless a fetched snapshot, taken before an    *)
(* event the stream had already delivered, came last.  A stream begins     *)
(* with its snapshot and brings no other; the last event about a task is   *)
(* what is left of it, once it is shown.                                   *)
Begins(p) ==
    IF stream[p] # <<>> /\ Head(stream[p]) \in Snapshots THEN Head(stream[p]).tasks ELSE view[p]
News(p, t) == {i \in DOMAIN stream[p] : stream[p][i] \notin Snapshots /\ stream[p][i].task = t}
AfterStream(p) ==
    [t \in Tasks |->
        IF Begins(p)[t] = 0 \/ News(p, t) = {} THEN Begins(p)[t]
        ELSE stream[p][CHOOSE i \in News(p, t) : \A j \in News(p, t) : j <= i].event]
BoardFollows ==
    \A p \in Boards \ overtaken :
        stream[p] # Down =>
            \A t \in Tasks : AfterStream(p)[t] \in {0, tasks[t].event}

(* A finished task is moved by a /control request or lost in a restart, by *)
(* nothing else: neither by the timers of its demo nor by a second /create.*)
OnlyControlReopens ==
    [][\A t \in Tasks :
         (tasks[t].status = "finished" /\ tasks'[t] # tasks[t]) =>
             \/ tasks'[t] = Absent
             \/ \E a \in Actions : Control(t, a)]_vars

(* A studio ends up showing what the server has, however its fetches have  *)
(* been overtaking each other.                                             *)
StudioConverges == \A p \in Pages : <>[](p \in Studios => view[p] = Current)
=============================================================================
