---------------------------- MODULE GatewayClient ----------------------------
(***************************************************************************)
(* packages/ui/src/ui/gateway-ws.ts: GatewayBrowserClient, the client the  *)
(* user interface keeps to the gateway.  It opens a WebSocket, introduces  *)
(* itself with a `connect` request after 160 ms or when challenged, sends  *)
(* the requests of its users, and opens another socket a while after one   *)
(* has closed, until it is stopped.                                        *)
(*                                                                         *)
(* Each handler is a function from one state of a client to the next, so   *)
(* that a module about the clients' users can compose several in a step.   *)
(* start() is called once per client, hence a client has one socket at a   *)
(* time.                                                                   *)
(***************************************************************************)
EXTENDS Naturals, FiniteSets

CONSTANTS Clients,    \* clients that may be created: 1..n, in that order
          Requests,   \* requests of the users, besides "connect"
          SecureContext,  \* crypto.subtle is there
          MaxReconnects   \* bound on the reconnections of all clients, each
                          \* of which reconnects at most once

ASSUME ClientAssumption == /\ IsFiniteSet(Clients) /\ Clients = 1..Cardinality(Clients)
                           /\ "connect" \notin Requests
                           /\ SecureContext \in BOOLEAN
                           /\ MaxReconnects \in Nat

VARIABLE conn   \* per client: its fields and its socket

Client == [closed : BOOLEAN,        \* this.closed
           ws : BOOLEAN,            \* this.ws is not null
           pending : SUBSET (Requests \cup {"connect"}),  \* this.pending
           connectSent : BOOLEAN,   \* this.connectSent
           connectTimer : BOOLEAN,  \* this.connectTimer is armed
           reconnect : BOOLEAN,     \* the timer of scheduleReconnect is armed
           signing : BOOLEAN,       \* sendConnect awaits its identity or signature
           socket : {"none", "connecting", "open", "closing"},  \* its readyState
           first : {"none", "connect", "other"},  \* the first frame sent on it
           connects : 0..2,         \* `connect` requests sent on it
           greeted : BOOLEAN,       \* the gateway has accepted one
           sockets : 0..2]          \* sockets opened so far

NewClient == [closed |-> FALSE, ws |-> FALSE, pending |-> {}, connectSent |-> FALSE,
              connectTimer |-> FALSE, reconnect |-> FALSE, signing |-> FALSE,
              socket |-> "none", first |-> "none", connects |-> 0, greeted |-> FALSE,
              sockets |-> 0]

Created(k) == k.sockets > 0
Connected(k) == k.ws /\ k.socket = "open"   \* get connected()
-----------------------------------------------------------------------------
(* connect(); the slip does not look at `closed`.                          *)
OpenSocket(k) == [k EXCEPT !.connectSent = FALSE, !.ws = TRUE, !.socket = "connecting",
                           !.sockets = @ + 1]
Connect(k) == IF k.closed THEN k ELSE OpenSocket(k)

Start(k) == Connect([k EXCEPT !.closed = FALSE])

(* flushPending rejects what is pending; the slip only forgets to clear.   *)
KeepPending(k) == k
FlushPending(k) == [k EXCEPT !.pending = {}]

(* stop(); a socket that is closed stays until its close event.            *)
Stop(k) == [FlushPending(k) EXCEPT !.closed = TRUE, !.ws = FALSE,
                                   !.socket = IF k.ws THEN "closing" ELSE @]

(* request(): the frame goes out on an open socket only; otherwise the     *)
(* promise is rejected and nothing changes.                                *)
Send(k, id) == [k EXCEPT !.pending = @ \cup {id},
                         !.first = IF @ = "none" THEN (IF id = "connect" THEN id ELSE "other")
                                   ELSE @,
                         !.connects = IF id = "connect" THEN @ + 1 ELSE @]

(* The end of sendConnect.  A rejection closes the socket there may be;    *)
(* here there is none, or it is closing already.                           *)
Introduce(k) == LET n == [k EXCEPT !.signing = FALSE]
                IN IF Connected(k) THEN Send(n, "connect") ELSE n

(* sendConnect up to its first await.  Without a secure context it goes    *)
(* through at once.  The slip does not look whether it was sent.           *)
ConnectAgain(k) == LET n == [k EXCEPT !.connectSent = TRUE, !.connectTimer = FALSE]
                   IN IF SecureContext THEN [n EXCEPT !.signing = TRUE] ELSE Introduce(n)
SendConnect(k) == IF k.connectSent THEN k ELSE ConnectAgain(k)

(* queueConnect, when the socket opens.                                    *)
QueueConnect(k) == [k EXCEPT !.socket = "open",
                             !.connectTimer = @ \/ ~k.connectSent]

(* The close event: flushPending and scheduleReconnect (onClose is the     *)
(* business of the user).  What the model keeps of the socket goes with it. *)
NoSocket(k) == [k EXCEPT !.socket = "none", !.first = "none", !.connects = 0,
                         !.greeted = FALSE]
SocketClosed(k) == NoSocket([FlushPending(k) EXCEPT !.ws = FALSE, !.reconnect = ~k.closed])
-----------------------------------------------------------------------------
(* Events of one client that concern no one else.                          *)
Becomes(c, k) == conn' = [conn EXCEPT ![c] = k]

SocketOpens(c) == conn[c].socket = "connecting" /\ Becomes(c, QueueConnect(conn[c]))

ConnectTimerFires(c) ==
    /\ conn[c].connectTimer
    /\ Becomes(c, SendConnect([conn[c] EXCEPT !.connectTimer = FALSE]))

(* handleMessage: the event connect.challenge.                             *)
Challenge(c) == conn[c].socket = "open" /\ Becomes(c, SendConnect(conn[c]))

(* loadOrCreateDeviceIdentity and signDevicePayload return; one that       *)
(* throws ends sendConnect, with connectSent set.                          *)
CryptoReturns(c) ==
    /\ conn[c].signing
    /\ Becomes(c, Introduce(conn[c])) \/ Becomes(c, [conn[c] EXCEPT !.signing = FALSE])

MayReconnect(c) == /\ conn[c].sockets < 2
                   /\ Cardinality({d \in Clients : conn[d].sockets = 2}) < MaxReconnects

(* The timer of scheduleReconnect.  It waits at least 800 ms, and by then  *)
(* the 160 ms of connectTimer and the work of crypto.subtle are over.      *)
Reconnects(c) ==
    /\ conn[c].reconnect /\ ~conn[c].connectTimer /\ ~conn[c].signing
    /\ conn[c].closed \/ MayReconnect(c)
    /\ Becomes(c, Connect([conn[c] EXCEPT !.reconnect = FALSE]))

SocketEvent(c) == \/ SocketOpens(c) \/ ConnectTimerFires(c) \/ Challenge(c)
                  \/ CryptoReturns(c) \/ Reconnects(c)
=============================================================================
