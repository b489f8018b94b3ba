------------------------------ MODULE DataClient ------------------------------
(***************************************************************************)
(* packages/ui/src/ui/mock/index.ts: GatewayDataClient, through which the  *)
(* views of the user interface ask the gateway.  request() takes the       *)
(* client that is connected, or awaits the connection under way, or makes  *)
(* a new client; if its request fails for the connection it stops the      *)
(* client there is, makes another, and tries once more.  All the requests  *)
(* of the page share `client` and `connectPromise`.                        *)
(*                                                                         *)
(* Promise reactions run before any timer, socket event or call: see       *)
(* Microtasks.  The gateway is outside: Answers and CloseEvent.            *)
(***************************************************************************)
EXTENDS GatewayClient

VARIABLES
    client,    \* this.client, 0 for null
    promise,   \* this.connectPromise, by the client it was made for
    settled,   \* per client: the promise made for it; "resolving" and
               \* "rejecting" until its finally has run
    pc,        \* per request: what it awaits
    run,       \* per request: 1, or 2 when it tries once more
    on,        \* per request: the client it awaits or uses
    fault      \* per request: what its last run was rejected with

clientVars  == <<client, promise, settled>>
requestVars == <<pc, run, on, fault>>
vars == <<conn, client, promise, settled, pc, run, on, fault>>

TypeOK ==
    /\ conn \in [Clients -> Client]
    /\ client \in Clients \cup {0} /\ promise \in Clients \cup {0}
    /\ settled \in [Clients -> {"none", "pending", "resolving", "rejecting",
                                "resolved", "rejected"}]
    /\ pc \in [Requests -> {"idle", "ensuring", "ensured", "sent", "caught", "ok", "failed"}]
    /\ run \in [Requests -> 0..2]
    /\ on \in [Requests -> Clients \cup {0}]
    /\ fault \in [Requests -> {"none", "connection", "other"}]

Init ==
    /\ conn = [c \in Clients |-> NewClient]
    /\ client = 0 /\ promise = 0
    /\ settled = [c \in Clients |-> "none"]
    /\ pc = [q \in Requests |-> "idle"]
    /\ run = [q \in Requests |-> 0]
    /\ on = [q \in Requests |-> 0]
    /\ fault = [q \in Requests |-> "none"]
-----------------------------------------------------------------------------
(* A request resumes: with a client, or in its catch.                      *)
HasEnsured(q) == \/ pc[q] = "ensured"
                 \/ pc[q] = "ensuring" /\ settled[on[q]] = "resolved"
HasCaught(q)  == \/ pc[q] = "caught"
                 \/ pc[q] = "ensuring" /\ settled[on[q]] = "rejected"

(* Promise reactions that are due.                                         *)
Microtasks == \/ \E c \in Clients : settled[c] \in {"resolving", "rejecting"}
              \/ \E q \in Requests : HasEnsured(q) \/ HasCaught(q)

(* The requests that await an answer on client c: their promises are what  *)
(* flushPending rejects.                                                   *)
Awaiting(c) == {q \in Requests : pc[q] = "sent" /\ on[q] = c /\ q \in conn[c].pending}

(* The runs of the requests in S are rejected.  The connection is at fault *)
(* if the message says so; "gateway client stopped" does not.              *)
Reject(S, f) == /\ pc' = [q \in Requests |-> IF q \in S THEN "caught" ELSE pc[q]]
                /\ fault' = [q \in Requests |-> IF q \in S THEN f ELSE fault[q]]
                /\ UNCHANGED <<run, on>>

(* Request q ends; its locals are gone.                                    *)
Ends(q, p) == /\ pc' = [pc EXCEPT ![q] = p]
              /\ run' = [run EXCEPT ![q] = 0] /\ on' = [on EXCEPT ![q] = 0]
              /\ fault' = [fault EXCEPT ![q] = "none"]

Unmade == {c \in Clients : ~Created(conn[c])}
IsNext(f) == f \in Unmade /\ \A c \in Unmade : f <= c
HasClient == client # 0 /\ Connected(conn[client])

(* resetClient stops the client there is and forgets the promise.          *)
Reset == IF client = 0 THEN conn ELSE [conn EXCEPT ![client] = Stop(@)]
Orphans == IF client = 0 THEN {} ELSE Awaiting(client)

(* ensureClient, when it makes a client f and a promise.                   *)
Makes(f, k) == /\ conn' = [k EXCEPT ![f] = Start(NewClient)]
               /\ client' = f /\ promise' = f
               /\ settled' = [settled EXCEPT ![f] = "pending"]
-----------------------------------------------------------------------------
(* A bound of the model: a call is made only while each request in its     *)
(* first run can be given a client for its second one.                     *)
EnoughClients(new) ==
    Cardinality({p \in Requests : run[p] = 1}) + 1 + new <= Cardinality(Unmade)

(* request(): the first run, up to where ensureClient returns or awaits.   *)
Call(q) ==
    /\ pc[q] = "idle" /\ ~Microtasks
    /\ EnoughClients(0)
    /\ run' = [run EXCEPT ![q] = 1]
    /\ \/ /\ HasClient
          /\ on' = [on EXCEPT ![q] = client] /\ pc' = [pc EXCEPT ![q] = "ensured"]
          /\ UNCHANGED <<conn, clientVars>>
       \/ /\ ~HasClient /\ promise # 0
          /\ on' = [on EXCEPT ![q] = promise] /\ pc' = [pc EXCEPT ![q] = "ensuring"]
          /\ UNCHANGED <<conn, clientVars>>
       \/ \E f \in Clients :
             /\ ~HasClient /\ promise = 0 /\ EnoughClients(1) /\ IsNext(f)
             /\ Makes(f, conn)
             /\ on' = [on EXCEPT ![q] = f] /\ pc' = [pc EXCEPT ![q] = "ensuring"]
    /\ UNCHANGED fault

(* The client is there: the request is sent, or rejected at once if the    *)
(* client is not connected (any more).                                     *)
UseClient(q) ==
    /\ HasEnsured(q)
    /\ \/ /\ Connected(conn[on[q]])
          /\ conn' = [conn EXCEPT ![on[q]] = Send(@, q)]
          /\ pc' = [pc EXCEPT ![q] = "sent"]
          /\ UNCHANGED <<run, on, fault>>
       \/ ~Connected(conn[on[q]]) /\ Reject({q}, "connection") /\ UNCHANGED conn
    /\ UNCHANGED clientVars

(* The catch of request(): a fault of the connection is met with a new     *)
(* client and a second run, anything else is thrown.                       *)
Fault(q) == IF pc[q] = "ensuring" THEN "connection" ELSE fault[q]
Catch(q) ==
    /\ HasCaught(q)
    /\ \/ \E f \in Clients :
             /\ Fault(q) = "connection" /\ run[q] = 1 /\ IsNext(f)
             /\ Makes(f, Reset)
             /\ run' = [run EXCEPT ![q] = 2] /\ on' = [on EXCEPT ![q] = f]
             /\ pc' = [p \in Requests |-> IF p = q THEN "ensuring"
                                          ELSE IF p \in Orphans THEN "caught" ELSE pc[p]]
             /\ fault' = [p \in Requests |-> IF p \in Orphans THEN "other" ELSE fault[p]]
       \/ /\ Fault(q) # "connection" \/ run[q] = 2
          /\ Ends(q, "failed")
          /\ UNCHANGED <<conn, clientVars>>

(* The finally of the promise made for client c: it forgets whatever       *)
(* promise there is; the slip forgets none.                                *)
PromiseKept == promise
PromiseForgotten == 0
Finally(c) ==
    /\ \/ settled[c] = "resolving" /\ settled' = [settled EXCEPT ![c] = "resolved"]
       \/ settled[c] = "rejecting" /\ settled' = [settled EXCEPT ![c] = "rejected"]
    /\ promise' = PromiseForgotten
    /\ UNCHANGED <<conn, client, requestVars>>
-----------------------------------------------------------------------------
Quiet(c) == SocketEvent(c) /\ ~Microtasks /\ UNCHANGED <<clientVars, requestVars>>

(* The gateway accepts a `connect`, if nothing came before it: onHello.    *)
Greets(c) ==
    /\ ~Microtasks
    /\ conn[c].socket = "open" /\ "connect" \in conn[c].pending /\ conn[c].first = "connect"
    /\ conn' = [conn EXCEPT ![c].pending = @ \ {"connect"}, ![c].greeted = TRUE]
    /\ IF settled[c] = "pending"
       THEN settled' = [settled EXCEPT ![c] = "resolving"] /\ client' = c
       ELSE UNCHANGED <<settled, client>>
    /\ UNCHANGED <<promise, requestVars>>

(* It refuses one; sendConnect then closes the socket.                     *)
Refuses(c) ==
    /\ ~Microtasks
    /\ conn[c].socket = "open" /\ "connect" \in conn[c].pending
    /\ conn' = [conn EXCEPT ![c].pending = @ \ {"connect"}, ![c].socket = "closing"]
    /\ UNCHANGED <<clientVars, requestVars>>

(* It answers a request, maybe after its time, and serves those only that  *)
(* it has greeted; an error's message may look like a fault of the         *)
(* connection.                                                             *)
Answers(c, q, what) ==
    /\ ~Microtasks
    /\ conn[c].socket = "open" /\ q \in conn[c].pending
    /\ what = "ok" => conn[c].greeted
    /\ conn' = [conn EXCEPT ![c].pending = @ \ {q}]
    /\ \/ q \notin Awaiting(c) /\ UNCHANGED requestVars
       \/ q \in Awaiting(c) /\ what # "ok" /\ Reject({q}, what)
       \/ q \in Awaiting(c) /\ what = "ok" /\ Ends(q, "ok")
    /\ UNCHANGED clientVars

(* A socket has closed, or could not be opened: onClose.                   *)
CloseEvent(c) ==
    /\ ~Microtasks
    /\ conn[c].socket # "none"
    /\ conn' = [conn EXCEPT ![c] = SocketClosed(@)]
    /\ Reject(Awaiting(c), "connection")
    /\ settled' = [settled EXCEPT ![c] = IF @ = "pending" THEN "rejecting" ELSE @]
    /\ UNCHANGED <<client, promise>>

(* The timeout of ensureClient stops whatever client there is by now; the  *)
(* slip forgets to let go of it.                                           *)
ClientKept == client
ClientForgotten == 0
ConnectTimeout(c) ==
    /\ ~Microtasks
    /\ settled[c] = "pending"
    /\ settled' = [settled EXCEPT ![c] = "rejecting"]
    /\ conn' = Reset /\ client' = ClientForgotten /\ promise' = 0
    /\ Reject(Orphans, "other")

(* withTimeout; the slip waits for ever.                                   *)
Patient(q) == FALSE
Expires(q) == pc[q] = "sent"
RequestTimeout(q) ==
    /\ ~Microtasks
    /\ Expires(q)
    /\ Reject({q}, "connection")
    /\ UNCHANGED <<conn, clientVars>>

Next == \/ \E q \in Requests : \/ Call(q) \/ UseClient(q) \/ Catch(q) \/ RequestTimeout(q)
        \/ \E c \in Clients : \/ Finally(c) \/ Quiet(c) \/ Greets(c) \/ Refuses(c)
                              \/ CloseEvent(c) \/ ConnectTimeout(c)
        \/ \E c \in Clients, q \in Requests, what \in {"ok", "connection", "other"} :
              Answers(c, q, what)

(* The event loop runs promise reactions and timers.  The gateway may stay *)
(* silent, and no socket need ever open or close.                          *)
Fairness == /\ WF_vars(\/ \E q \in Requests : UseClient(q) \/ Catch(q)
                        \/ \E c \in Clients : Finally(c))
            /\ WF_vars(\/ \E q \in Requests : RequestTimeout(q)
                        \/ \E c \in Clients : ConnectTimeout(c))

Spec == Init /\ [][Next]_vars /\ Fairness
-----------------------------------------------------------------------------
(* A request pending on a client has a socket it may yet be answered on:   *)
(* whatever closes the socket, the promise was rejected with it.           *)
PendingOnSocket == \A c \in Clients : conn[c].pending # {} => conn[c].ws

(* A client that was stopped has no socket but one that is closing, and    *)
(* never opens another, although its timers may still be armed.            *)
StoppedStaysDown ==
    \A c \in Clients : conn[c].closed =>
        ~conn[c].ws /\ conn[c].socket \in {"none", "closing"}

(* The timer, the challenge and the opening of the socket race to send     *)
(* `connect`; no socket sees two.                                          *)
IntroducedOnce == \A c \in Clients : conn[c].connects <= 1

(* connectPromise, when there is one, is still open: no later request is   *)
(* handed a client of the past.                                            *)
PromiseIsOpen == promise # 0 => settled[promise] \in {"pending", "resolving", "rejecting"}

(* `client` never is one that was stopped, whichever of the requests, the  *)
(* timeout and onHello touched it last.                                    *)
CurrentIsRunning == client # 0 => ~conn[client].closed

(* Every request of a view ends, though the gateway may be silent.         *)
RequestsSettle ==
    \A q \in Requests : pc[q] \notin {"idle", "ok", "failed"} ~> pc[q] \in {"ok", "failed"}

(* The protocol's rule: the first frame on a socket is `connect`.          *)
FirstFrameIsConnect == \A c \in Clients : conn[c].first # "other"
=============================================================================
