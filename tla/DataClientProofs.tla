--------------------------- MODULE DataClientProofs ---------------------------
(***************************************************************************)
(* Theorems about DataClient for every number of clients and requests.     *)
(***************************************************************************)
EXTENDS DataClient, TLAPS, FiniteSetTheorems

(* A client not yet made is untouched; only made clients are referred to.   *)
Unborn == /\ \A c \in Clients : ~Created(conn[c]) => conn[c] = NewClient /\ settled[c] = "none"
          /\ client # 0 => Created(conn[client])

(* A socket that is coming up or open is the client's own, a reconnection   *)
(* is planned only when there is none, and `connect` goes out when          *)
(* sendConnect is through, on the socket of its time.                       *)
SocketBooks == \A c \in Clients :
    /\ conn[c].socket \in {"connecting", "open"} => conn[c].ws
    /\ conn[c].ws => conn[c].socket # "none"
    /\ conn[c].reconnect => conn[c].socket = "none"
    /\ conn[c].socket = "none" => conn[c].connects = 0
    /\ conn[c].signing => conn[c].connectSent /\ conn[c].connects = 0
    /\ ~conn[c].connectSent => conn[c].connects = 0

IInv == /\ TypeOK
        /\ Unborn
        /\ SocketBooks
        /\ PendingOnSocket
        /\ StoppedStaysDown
        /\ IntroducedOnce
        /\ PromiseIsOpen
        /\ CurrentIsRunning
-----------------------------------------------------------------------------
(* What holds of each single client, as a predicate of its state.           *)
Good(k) == /\ k \in Client
           /\ ~Created(k) => k = NewClient
           /\ k.socket \in {"connecting", "open"} => k.ws
           /\ k.ws => k.socket # "none"
           /\ k.reconnect => k.socket = "none"
           /\ k.socket = "none" => k.connects = 0
           /\ k.signing => k.connectSent /\ k.connects = 0
           /\ ~k.connectSent => k.connects = 0
           /\ k.pending # {} => k.ws
           /\ k.closed => ~k.ws /\ k.socket \in {"none", "closing"}
           /\ k.connects <= 1

(* The rest of the invariant.                                               *)
Shared == /\ client \in Clients \cup {0} /\ promise \in Clients \cup {0}
          /\ settled \in [Clients -> {"none", "pending", "resolving", "rejecting",
                                      "resolved", "rejected"}]
          /\ \A c \in Clients : ~Created(conn[c]) => settled[c] = "none"
          /\ client # 0 => Created(conn[client])
          /\ PromiseIsOpen
          /\ CurrentIsRunning
Requested == /\ pc \in [Requests -> {"idle", "ensuring", "ensured", "sent", "caught", "ok",
                                     "failed"}]
             /\ run \in [Requests -> 0..2]
             /\ on \in [Requests -> Clients \cup {0}]
             /\ fault \in [Requests -> {"none", "connection", "other"}]
AllGood == conn \in [Clients -> Client] /\ \A c \in Clients : Good(conn[c])

LEMMA Parts == IInv <=> AllGood /\ Shared /\ Requested
  BY DEF IInv, AllGood, Shared, Requested, TypeOK, Good, Unborn, SocketBooks, PendingOnSocket,
         StoppedStaysDown, IntroducedOnce, PromiseIsOpen, CurrentIsRunning

LEMMA NumbersAreClients == 0 \notin Clients
  BY ClientAssumption, FS_CardinalityType

(* The handlers keep a client good.                                         *)
LEMMA NewIsGood == Good(NewClient)
  BY DEF Good, NewClient, Client, Created

LEMMA OpenIsGood ==
  ASSUME NEW k, k \in Client, k.sockets < 2, ~k.closed, ~k.reconnect, ~k.signing,
         k.connects = 0, k.pending = {}
  PROVE  Good(OpenSocket(k)) /\ Created(OpenSocket(k)) /\ ~OpenSocket(k).closed
  <1> DEFINE n == OpenSocket(k)
  <1>0. k.sockets + 1 \in 0..2
    BY DEF Client
  <1>1. n \in Client
    BY <1>0 DEF OpenSocket, Client
  <1>2. /\ n.closed = FALSE /\ n.ws = TRUE /\ n.pending = {} /\ n.sockets = k.sockets + 1
        /\ n.reconnect = FALSE /\ n.signing = FALSE /\ n.connects = 0
        /\ n.socket = "connecting" /\ k.sockets \in 0..2
    BY DEF OpenSocket, Client
  <1>3. QED
    BY <1>1, <1>2 DEF Good, Created

LEMMA StartIsGood == Good(Start(NewClient)) /\ Created(Start(NewClient))
                     /\ ~Start(NewClient).closed
  <1> DEFINE m == [NewClient EXCEPT !.closed = FALSE]
  <1>1. NewClient \in Client
    BY NewIsGood DEF Good
  <1>2. m \in Client
    BY <1>1 DEF Client
  <1>3. /\ m.closed = FALSE /\ m.reconnect = FALSE /\ m.signing = FALSE
        /\ m.connects = 0 /\ m.pending = {} /\ m.sockets = 0
    BY DEF NewClient
  <1>4. Start(NewClient) = OpenSocket(m)
    BY <1>3 DEF Start, Connect
  <1> HIDE DEF m
  <1>5. QED
    BY <1>2, <1>3, <1>4, OpenIsGood

LEMMA StopIsGood ==
  ASSUME NEW k, Good(k), Created(k)
  PROVE  Good(Stop(k)) /\ Created(Stop(k))
  <1> DEFINE n == Stop(k)
  <1>0. k \in Client
    BY DEF Good
  <1>1. n \in Client
    BY <1>0 DEF Stop, FlushPending, Client
  <1>2. /\ n.sockets = k.sockets /\ n.closed = TRUE /\ n.ws = FALSE /\ n.pending = {}
        /\ n.connects = k.connects /\ n.signing = k.signing /\ n.connectSent = k.connectSent
        /\ n.reconnect = k.reconnect
    BY <1>0 DEF Stop, FlushPending, Client
  <1>3. n.socket = IF k.ws THEN "closing" ELSE k.socket
    BY <1>0 DEF Stop, FlushPending, Client
  <1>4. QED
    BY <1>1, <1>2, <1>3 DEF Good, Created, Client

LEMMA SendIsGood ==
  ASSUME NEW k, Good(k), Connected(k), NEW id \in Requests \cup {"connect"},
         id = "connect" => k.connectSent /\ k.connects = 0 /\ ~k.signing
  PROVE  Good(Send(k, id)) /\ Created(Send(k, id)) /\ Send(k, id).closed = k.closed
  <1> DEFINE n == Send(k, id)
  <1>0. k \in Client /\ Created(k)
    BY DEF Good, Connected, NewClient
  <1>a. k.pending \cup {id} \in SUBSET (Requests \cup {"connect"})
    BY <1>0 DEF Client
  <1>b. (IF k.first = "none" THEN (IF id = "connect" THEN id ELSE "other") ELSE k.first)
           \in {"none", "connect", "other"}
    BY <1>0 DEF Client
  <1>c. (IF id = "connect" THEN k.connects + 1 ELSE k.connects) \in 0..2
    BY <1>0 DEF Client
  <1>1. n \in Client
    BY <1>0, <1>a, <1>b, <1>c DEF Send, Client
  <1>2. /\ n.sockets = k.sockets /\ n.closed = k.closed /\ n.ws = k.ws
        /\ n.signing = k.signing /\ n.connectSent = k.connectSent
        /\ n.reconnect = k.reconnect /\ n.socket = k.socket
        /\ n.connects = IF id = "connect" THEN k.connects + 1 ELSE k.connects
    BY <1>0 DEF Send, Client
  <1>3. QED
    BY <1>0, <1>1, <1>2 DEF Good, Created, Client, Connected

LEMMA ClosedIsGood ==
  ASSUME NEW k, Good(k), Created(k)
  PROVE  Good(SocketClosed(k)) /\ Created(SocketClosed(k)) /\ SocketClosed(k).closed = k.closed
  <1> DEFINE n == SocketClosed(k)
  <1>0. k \in Client
    BY DEF Good
  <1> DEFINE f == FlushPending(k)
             m == [f EXCEPT !.ws = FALSE, !.reconnect = ~k.closed]
  <1>1. n \in Client
    <2>1. f \in Client
      BY <1>0 DEF FlushPending, Client
    <2> HIDE DEF f
    <2>2. PICK r \in BOOLEAN : r = ~k.closed
      OBVIOUS
    <2>3. [f EXCEPT !.ws = FALSE, !.reconnect = r] \in Client
      BY <2>1 DEF Client
    <2>4. m \in Client
      BY <2>2, <2>3
    <2> HIDE DEF m
    <2>5. 0 \in 0..2
      OBVIOUS
    <2>6. NoSocket(m) \in Client
      BY <2>4, <2>5 DEF NoSocket, Client
    <2>7. QED
      BY <2>6 DEF SocketClosed, m, f
  <1>2. /\ n.sockets = k.sockets /\ n.closed = k.closed /\ n.ws = FALSE
        /\ n.signing = k.signing /\ n.connectSent = k.connectSent
        /\ n.connects = 0 /\ n.socket = "none" /\ n.pending = {}
    BY <1>0 DEF SocketClosed, NoSocket, FlushPending, Client
  <1>3. QED
    BY <1>1, <1>2 DEF Good, Created

(* What each handler does to a client that is good.                         *)
LEMMA IntroduceIsGood ==
  ASSUME NEW k, Good(k), Created(k), k.connectSent, k.connects = 0
  PROVE  Good(Introduce(k)) /\ Created(Introduce(k)) /\ Introduce(k).closed = k.closed
  <1> DEFINE n == [k EXCEPT !.signing = FALSE]
  <1>1. k \in Client
    BY DEF Good
  <1>2. n \in Client
    BY <1>1 DEF Client
  <1>3. /\ n.sockets = k.sockets /\ n.closed = k.closed /\ n.ws = k.ws
        /\ n.connectSent = k.connectSent /\ n.connects = 0 /\ n.pending = k.pending
        /\ n.reconnect = k.reconnect /\ n.socket = k.socket /\ n.signing = FALSE
    BY <1>1 DEF Client
  <1>4. Good(n) /\ Created(n)
    BY <1>2, <1>3 DEF Good, Created
  <1>5. Connected(k) => Connected(n)
    BY <1>3 DEF Connected
  <1> HIDE DEF n
  <1>6. Connected(n) => /\ Good(Send(n, "connect")) /\ Created(Send(n, "connect"))
                        /\ Send(n, "connect").closed = n.closed
    BY <1>3, <1>4, SendIsGood
  <1>7. QED
    BY <1>3, <1>4, <1>5, <1>6 DEF Introduce, n

LEMMA SendConnectIsGood ==
  ASSUME NEW k, Good(k), Created(k)
  PROVE  /\ Good(SendConnect(k)) /\ Created(SendConnect(k))
         /\ SendConnect(k).closed = k.closed
  <1> SUFFICES ASSUME ~k.connectSent
               PROVE  /\ Good(ConnectAgain(k)) /\ Created(ConnectAgain(k))
                      /\ ConnectAgain(k).closed = k.closed
    BY DEF SendConnect
  <1> DEFINE n == [k EXCEPT !.connectSent = TRUE, !.connectTimer = FALSE]
             m == [n EXCEPT !.signing = TRUE]
  <1>1. k \in Client /\ k.connects = 0 /\ ~k.signing
    BY DEF Good
  <1>2. n \in Client /\ m \in Client
    BY <1>1 DEF Client
  <1>3. /\ n.sockets = k.sockets /\ n.closed = k.closed /\ n.ws = k.ws
        /\ n.connectSent = TRUE /\ n.connects = 0 /\ n.pending = k.pending
        /\ n.reconnect = k.reconnect /\ n.socket = k.socket /\ n.signing = k.signing
    BY <1>1 DEF Client
  <1>4. /\ m.sockets = k.sockets /\ m.closed = k.closed /\ m.ws = k.ws
        /\ m.connectSent = TRUE /\ m.connects = 0 /\ m.pending = k.pending
        /\ m.reconnect = k.reconnect /\ m.socket = k.socket
    BY <1>1 DEF Client
  <1>5. Good(n) /\ Created(n) /\ Good(m) /\ Created(m)
    BY <1>1, <1>2, <1>3, <1>4 DEF Good, Created
  <1>6. ConnectAgain(k) = IF SecureContext THEN m ELSE Introduce(n)
    BY DEF ConnectAgain
  <1> HIDE DEF n, m
  <1>7. QED
    BY <1>3, <1>4, <1>5, <1>6, IntroduceIsGood

LEMMA ReopenIsGood ==
  ASSUME NEW k, Good(k), Created(k), k.reconnect, ~k.signing, k.closed \/ k.sockets < 2
  PROVE  LET n == Connect([k EXCEPT !.reconnect = FALSE])
         IN Good(n) /\ Created(n) /\ n.closed = k.closed
  <1> DEFINE m == [k EXCEPT !.reconnect = FALSE]
  <1>1. k \in Client
    BY DEF Good
  <1>2. m \in Client
    BY <1>1 DEF Client
  <1>3. /\ m.sockets = k.sockets /\ m.closed = k.closed /\ m.ws = k.ws
        /\ m.connectSent = k.connectSent /\ m.connects = k.connects /\ m.pending = k.pending
        /\ m.reconnect = FALSE /\ m.socket = k.socket /\ m.signing = k.signing
    BY <1>1 DEF Client
  <1>4. Good(m) /\ Created(m)
    BY <1>2, <1>3 DEF Good, Created
  <1>5. k.socket = "none" /\ k.connects = 0 /\ ~k.ws /\ k.pending = {}
    BY DEF Good
  <1> HIDE DEF m
  <1>6. k.closed => Connect(m) = m
    BY <1>3 DEF Connect
  <1>7. ~k.closed => Connect(m) = OpenSocket(m)
    BY <1>3 DEF Connect
  <1>8. Good(Connect(m)) /\ Created(Connect(m)) /\ Connect(m).closed = k.closed
    <2>1. CASE k.closed
      BY <2>1, <1>3, <1>4, <1>6
    <2>2. CASE ~k.closed
      <3>1. /\ Good(OpenSocket(m)) /\ Created(OpenSocket(m)) /\ ~OpenSocket(m).closed
        BY <2>2, <1>2, <1>3, <1>5, OpenIsGood
      <3>2. OpenSocket(m).closed \in BOOLEAN /\ k.closed \in BOOLEAN
        BY <3>1, <1>1 DEF Good, Client
      <3>3. OpenSocket(m).closed = k.closed
        BY <2>2, <3>1, <3>2
      <3>4. QED
        BY <2>2, <1>7, <3>1, <3>3
    <2>3. QED
      BY <2>1, <2>2
  <1>9. QED
    BY <1>8 DEF m

LEMMA OpensIsGood ==
  ASSUME NEW k, Good(k), Created(k), k.socket = "connecting"
  PROVE  /\ Good(QueueConnect(k)) /\ Created(QueueConnect(k))
         /\ QueueConnect(k).closed = k.closed
  <1>1. PICK b \in BOOLEAN : b = (k.connectTimer \/ ~k.connectSent)
    OBVIOUS
  <1> DEFINE n == [k EXCEPT !.socket = "open", !.connectTimer = b]
  <1>2. k \in Client
    BY DEF Good
  <1>3. n \in Client
    BY <1>1, <1>2 DEF Client
  <1>4. /\ n.sockets = k.sockets /\ n.closed = k.closed /\ n.ws = k.ws
        /\ n.connectSent = k.connectSent /\ n.connects = k.connects /\ n.pending = k.pending
        /\ n.reconnect = k.reconnect /\ n.socket = "open" /\ n.signing = k.signing
    BY <1>2 DEF Client
  <1>5. Good(n) /\ Created(n)
    BY <1>3, <1>4 DEF Good, Created
  <1>6. QueueConnect(k) = n
    BY <1>1 DEF QueueConnect
  <1> HIDE DEF n
  <1>7. QED
    BY <1>4, <1>5, <1>6

(* Changes of one field only.                                               *)
LEMMA FieldsAreGood ==
  ASSUME NEW k, Good(k), Created(k), NEW S \in SUBSET k.pending, NEW b \in BOOLEAN
  PROVE  /\ LET n == [k EXCEPT !.signing = FALSE]
            IN Good(n) /\ Created(n) /\ n.closed = k.closed
         /\ LET n == [k EXCEPT !.connectTimer = b]
            IN Good(n) /\ Created(n) /\ n.closed = k.closed
         /\ LET n == [k EXCEPT !.pending = S]
            IN Good(n) /\ Created(n) /\ n.closed = k.closed
         /\ LET n == [k EXCEPT !.pending = S, !.greeted = TRUE]
            IN Good(n) /\ Created(n) /\ n.closed = k.closed
         /\ k.socket = "open" =>
              LET n == [k EXCEPT !.pending = S, !.socket = "closing"]
              IN Good(n) /\ Created(n) /\ n.closed = k.closed
  <1>0. k \in Client /\ S \in SUBSET (Requests \cup {"connect"})
    BY DEF Good, Client
  <1>1. LET n == [k EXCEPT !.signing = FALSE]
        IN Good(n) /\ Created(n) /\ n.closed = k.closed
    BY <1>0 DEF Good, Created, Client
  <1>2. LET n == [k EXCEPT !.connectTimer = b]
        IN Good(n) /\ Created(n) /\ n.closed = k.closed
    BY <1>0 DEF Good, Created, Client
  <1>3. LET n == [k EXCEPT !.pending = S]
        IN Good(n) /\ Created(n) /\ n.closed = k.closed
    BY <1>0 DEF Good, Created, Client
  <1>4. LET n == [k EXCEPT !.pending = S, !.greeted = TRUE]
        IN Good(n) /\ Created(n) /\ n.closed = k.closed
    BY <1>0 DEF Good, Created, Client
  <1>5. k.socket = "open" =>
          LET n == [k EXCEPT !.pending = S, !.socket = "closing"]
          IN Good(n) /\ Created(n) /\ n.closed = k.closed
    BY <1>0 DEF Good, Created, Client
  <1>6. QED
    BY <1>1, <1>2, <1>3, <1>4, <1>5
-----------------------------------------------------------------------------
(* One client changes from one good state to another, neither made nor      *)
(* stopped by it.                                                           *)
SameLife == \A d \in Clients : /\ Created(conn[d])' = Created(conn[d])
                               /\ conn'[d].closed = conn[d].closed

LEMMA OneClient ==
  ASSUME AllGood, NEW c \in Clients, NEW k, Good(k), Created(k), k.closed = conn[c].closed,
         Created(conn[c]), conn' = [conn EXCEPT ![c] = k]
  PROVE  AllGood' /\ SameLife
  <1>1. k \in Client
    BY DEF Good
  <1>2. conn' \in [Clients -> Client]
    BY <1>1 DEF AllGood
  <1>3. \A d \in Clients : conn'[d] = IF d = c THEN k ELSE conn[d]
    BY DEF AllGood
  <1>4. \A d \in Clients : Good(conn[d])'
    <2> TAKE d \in Clients
    <2>1. Good(conn'[d])
      BY <1>3 DEF AllGood
    <2>2. Good(conn[d])' <=> Good(conn'[d])
      BY DEF Good, Created, NewClient, Client
    <2>3. QED
      BY <2>1, <2>2
  <1>5. SameLife
    <2> SUFFICES ASSUME NEW d \in Clients
                 PROVE  Created(conn[d])' = Created(conn[d]) /\ conn'[d].closed = conn[d].closed
      BY DEF SameLife
    <2>1. CASE d = c
      BY <2>1, <1>1, <1>2, <1>3 DEF Created, AllGood, Client
    <2>2. CASE d # c
      BY <2>2, <1>3 DEF Created
    <2>3. QED
      BY <2>1, <2>2
  <1>6. QED
    BY <1>2, <1>4, <1>5 DEF AllGood

(* The shared variables stay as they are.                                   *)
LEMMA SharedStays ==
  ASSUME Shared, SameLife, UNCHANGED clientVars
  PROVE  Shared'
  BY NumbersAreClients DEF Shared, SameLife, clientVars, PromiseIsOpen, CurrentIsRunning

(* Rejecting some requests, or ending one.                                  *)
LEMMA RejectIsTyped ==
  ASSUME Requested, NEW S, NEW f \in {"connection", "other"}, Reject(S, f)
  PROVE  Requested'
  BY DEF Requested, Reject

LEMMA EndsIsTyped ==
  ASSUME Requested, NEW q \in Requests, NEW p \in {"ok", "failed"}, Ends(q, p)
  PROVE  Requested'
  BY DEF Requested, Ends

(* resetClient stops a client, and makes none.                              *)
LEMMA ResetIsGood ==
  ASSUME AllGood, Shared
  PROVE  /\ Reset \in [Clients -> Client]
         /\ \A c \in Clients : Good(Reset[c]) /\ (Created(Reset[c]) <=> Created(conn[c]))
  <1>1. CASE client = 0
    BY <1>1 DEF Reset, AllGood
  <1>2. CASE client # 0
    <2>1. client \in Clients /\ Good(conn[client]) /\ Created(conn[client])
      BY <1>2 DEF Shared, AllGood
    <2>2. Good(Stop(conn[client])) /\ Created(Stop(conn[client]))
      BY <2>1, StopIsGood
    <2>3. Stop(conn[client]) \in Client
      BY <2>2 DEF Good
    <2>4. Reset = [conn EXCEPT ![client] = Stop(conn[client])]
      BY <1>2 DEF Reset
    <2>5. \A c \in Clients : Reset[c] = IF c = client THEN Stop(conn[client]) ELSE conn[c]
      BY <2>4 DEF AllGood
    <2>6. QED
      BY <2>1, <2>2, <2>3, <2>4, <2>5 DEF AllGood
  <1>3. QED
    BY <1>1, <1>2

(* A state of all clients becomes the current one.                          *)
LEMMA GoodNext ==
  ASSUME NEW k, k \in [Clients -> Client], \A c \in Clients : Good(k[c]), conn' = k
  PROVE  AllGood'
  BY DEF AllGood, Good, Created, NewClient, Client

(* ensureClient makes client f, which has not been made before.             *)
LEMMA MakesIsGood ==
  ASSUME Shared, NEW f \in Clients, NEW k, k \in [Clients -> Client],
         \A c \in Clients : Good(k[c]) /\ (Created(k[c]) <=> Created(conn[c])), Makes(f, k)
  PROVE  AllGood' /\ Shared'
  <1> DEFINE n == [k EXCEPT ![f] = Start(NewClient)]
  <1>0. /\ Good(Start(NewClient)) /\ Created(Start(NewClient)) /\ ~Start(NewClient).closed
        /\ Start(NewClient) \in Client
    BY StartIsGood DEF Good
  <1>1. n \in [Clients -> Client]
    BY <1>0
  <1>2. \A c \in Clients : n[c] = IF c = f THEN Start(NewClient) ELSE k[c]
    OBVIOUS
  <1>3. \A c \in Clients : Good(n[c])
    BY <1>0, <1>2
  <1>4. conn' = n /\ client' = f /\ promise' = f /\ settled' = [settled EXCEPT ![f] = "pending"]
    BY DEF Makes
  <1>5. AllGood'
    BY <1>1, <1>3, <1>4, GoodNext
  <1>6. \A c \in Clients : ~Created(n[c]) => settled'[c] = "none"
    BY <1>0, <1>2, <1>4 DEF Shared
  <1>7. Created(n[f]) /\ ~n[f].closed
    BY <1>0, <1>2
  <1> HIDE DEF n
  <1>8. \A c \in Clients : ~Created(conn[c])' => settled'[c] = "none"
    BY <1>4, <1>6 DEF Created
  <1>9. Created(conn[client])' /\ ~conn'[client'].closed
    BY <1>4, <1>7 DEF Created
  <1>10. QED
    BY <1>4, <1>5, <1>8, <1>9 DEF Shared, PromiseIsOpen, CurrentIsRunning
-----------------------------------------------------------------------------
(* The steps, one by one.  What the gateway, a socket or a timer does to a   *)
(* client leaves the books of the others as they are.                        *)
LEMMA CallStep ==
  ASSUME AllGood, Shared, Requested, NEW q \in Requests, Call(q)
  PROVE  AllGood' /\ Shared' /\ Requested'
  <1>1. Requested'
    <2>1. run' = [run EXCEPT ![q] = 1] /\ fault' = fault
      BY DEF Call
    <2>2. \E w \in Clients \cup {0} : on' = [on EXCEPT ![q] = w]
      BY DEF Call, Shared
    <2>3. \E p \in {"ensured", "ensuring"} : pc' = [pc EXCEPT ![q] = p]
      BY DEF Call
    <2>4. QED
      BY <2>1, <2>2, <2>3 DEF Requested
  <1>2. CASE UNCHANGED <<conn, clientVars>>
    BY <1>1, <1>2 DEF AllGood, Shared, clientVars, Good, Created, NewClient, Client,
                      PromiseIsOpen, CurrentIsRunning
  <1>3. CASE \E f \in Clients : Makes(f, conn)
    <2>1. PICK f \in Clients : Makes(f, conn)
      BY <1>3
    <2>2. conn \in [Clients -> Client] /\ \A c \in Clients : Good(conn[c])
      BY DEF AllGood
    <2>3. QED
      BY <2>1, <2>2, <1>1, MakesIsGood
  <1>4. UNCHANGED <<conn, clientVars>> \/ \E f \in Clients : Makes(f, conn)
    BY DEF Call
  <1>5. QED
    BY <1>1, <1>2, <1>3, <1>4

LEMMA UseClientStep ==
  ASSUME AllGood, Shared, Requested, NEW q \in Requests, UseClient(q)
  PROVE  AllGood' /\ Shared' /\ Requested' /\ SameLife
  <1> DEFINE c == on[q]
  <1>0. UNCHANGED clientVars
    BY DEF UseClient
  <1>1. ASSUME UNCHANGED conn
        PROVE  AllGood' /\ Shared' /\ SameLife
    BY <1>0, <1>1 DEF SameLife, AllGood, Shared, clientVars, Good, Created, NewClient, Client,
                      PromiseIsOpen, CurrentIsRunning
  <1>2. CASE Reject({q}, "connection") /\ UNCHANGED conn
    BY <1>1, <1>2, RejectIsTyped
  <1>3. CASE /\ Connected(conn[c])
             /\ conn' = [conn EXCEPT ![c] = Send(conn[c], q)]
             /\ pc' = [pc EXCEPT ![q] = "sent"]
             /\ UNCHANGED <<run, on, fault>>
    <2>1. Requested'
      BY <1>3 DEF Requested
    <2>2. CASE c \notin Clients
      <3>1. conn' = conn
        BY <2>2, <1>3 DEF AllGood
      <3>2. QED
        BY <3>1, <1>1, <2>1
    <2>3. CASE c \in Clients
      <3>1. Good(conn[c])
        BY <2>3 DEF AllGood
      <3>2. Created(conn[c])
        BY <3>1, <1>3 DEF Good, NewClient, Connected
      <3>3. /\ Good(Send(conn[c], q)) /\ Created(Send(conn[c], q))
            /\ Send(conn[c], q).closed = conn[c].closed
        BY <3>1, <1>3, SendIsGood, ClientAssumption
      <3>4. AllGood' /\ SameLife
        BY <2>3, <3>2, <3>3, <1>3, OneClient
      <3>5. QED
        BY <3>4, <2>1, <1>0, SharedStays
    <2>4. QED
      BY <2>2, <2>3
  <1>4. QED
    BY <1>2, <1>3 DEF UseClient

LEMMA CatchStep ==
  ASSUME AllGood, Shared, Requested, NEW q \in Requests, Catch(q)
  PROVE  AllGood' /\ Shared' /\ Requested'
  <1>1. ASSUME NEW f \in Clients, Makes(f, Reset),
               run' = [run EXCEPT ![q] = 2] /\ on' = [on EXCEPT ![q] = f],
               pc' = [p \in Requests |-> IF p = q THEN "ensuring"
                                         ELSE IF p \in Orphans THEN "caught" ELSE pc[p]],
               fault' = [p \in Requests |-> IF p \in Orphans THEN "other" ELSE fault[p]]
        PROVE  AllGood' /\ Shared' /\ Requested'
    <2>1. Requested'
      BY <1>1 DEF Requested
    <2>2. AllGood' /\ Shared'
      BY <1>1, ResetIsGood, MakesIsGood
    <2>3. QED
      BY <2>1, <2>2
  <1>2. ASSUME Ends(q, "failed"), UNCHANGED <<conn, clientVars>>
        PROVE  AllGood' /\ Shared' /\ Requested'
    <2>1. Requested'
      BY <1>2, EndsIsTyped
    <2>2. QED
      BY <2>1, <1>2 DEF AllGood, Shared, clientVars, Good, Created, NewClient, Client,
                        PromiseIsOpen, CurrentIsRunning
  <1>3. QED
    BY <1>1, <1>2 DEF Catch

LEMMA FinallyStep ==
  ASSUME AllGood, Shared, Requested, NEW c \in Clients, Finally(c)
  PROVE  AllGood' /\ Shared' /\ Requested'
  <1>1. AllGood' /\ Requested'
    BY DEF AllGood, Requested, Finally, requestVars, Good, Created, NewClient, Client
  <1>2. Created(conn[c])
    BY DEF Shared, Finally
  <1>3. PICK v \in {"resolved", "rejected"} : settled' = [settled EXCEPT ![c] = v]
    BY DEF Finally
  <1>4. promise' = 0 /\ client' = client /\ conn' = conn
    BY DEF Finally, PromiseForgotten
  <1>5. settled' \in [Clients -> {"none", "pending", "resolving", "rejecting",
                                  "resolved", "rejected"}]
    BY <1>3 DEF Shared
  <1>6. \A d \in Clients : ~Created(conn[d])' => settled'[d] = "none"
    BY <1>2, <1>3, <1>4 DEF Shared, Created
  <1>7. QED
    BY <1>1, <1>4, <1>5, <1>6 DEF Shared, Created, PromiseIsOpen, CurrentIsRunning

LEMMA QuietStep ==
  ASSUME AllGood, Shared, Requested, NEW c \in Clients, Quiet(c)
  PROVE  AllGood' /\ Shared' /\ Requested' /\ SameLife
  <1>0. Good(conn[c]) /\ UNCHANGED clientVars /\ Requested'
    BY DEF AllGood, Quiet, Requested, requestVars
  <1>1. ASSUME NEW k, Becomes(c, k), Good(k), Created(k), k.closed = conn[c].closed,
               Created(conn[c])
        PROVE  AllGood' /\ Shared' /\ Requested' /\ SameLife
    <2>1. AllGood' /\ SameLife
      BY <1>1, OneClient DEF Becomes
    <2>2. QED
      BY <2>1, <1>0, SharedStays
  <1>2. conn[c] # NewClient => Created(conn[c])
    BY <1>0 DEF Good
  <1>3. CASE SocketOpens(c)
    <2>1. Created(conn[c])
      BY <1>2, <1>3 DEF SocketOpens, NewClient
    <2>2. QED
      BY <2>1, <1>0, <1>1, <1>3, OpensIsGood DEF SocketOpens
  <1>4. CASE ConnectTimerFires(c)
    <2> DEFINE m == [conn[c] EXCEPT !.connectTimer = FALSE]
    <2>1. Created(conn[c])
      BY <1>2, <1>4 DEF ConnectTimerFires, NewClient
    <2>2. Good(m) /\ Created(m) /\ m.closed = conn[c].closed
      BY <2>1, <1>0, FieldsAreGood
    <2>3. Becomes(c, SendConnect(m))
      BY <1>4 DEF ConnectTimerFires
    <2> HIDE DEF m
    <2>4. QED
      BY <2>1, <2>2, <2>3, <1>1, SendConnectIsGood
  <1>5. CASE Challenge(c)
    <2>1. Created(conn[c])
      BY <1>2, <1>5 DEF Challenge, NewClient
    <2>2. QED
      BY <2>1, <1>0, <1>1, <1>5, SendConnectIsGood DEF Challenge
  <1>6. CASE CryptoReturns(c)
    <2>1. Created(conn[c])
      BY <1>2, <1>6 DEF CryptoReturns, NewClient
    <2>2. conn[c].connectSent /\ conn[c].connects = 0
      BY <1>0, <1>6 DEF CryptoReturns, Good
    <2>3. CASE Becomes(c, Introduce(conn[c]))
      BY <2>1, <2>2, <2>3, <1>0, <1>1, IntroduceIsGood
    <2>4. CASE Becomes(c, [conn[c] EXCEPT !.signing = FALSE])
      BY <2>1, <2>4, <1>0, <1>1, FieldsAreGood
    <2>5. QED
      BY <2>3, <2>4, <1>6 DEF CryptoReturns
  <1>7. CASE Reconnects(c)
    <2>1. Created(conn[c])
      BY <1>2, <1>7 DEF Reconnects, NewClient
    <2>2. /\ conn[c].reconnect /\ ~conn[c].signing
          /\ conn[c].closed \/ conn[c].sockets < 2
          /\ Becomes(c, Connect([conn[c] EXCEPT !.reconnect = FALSE]))
      <3>1. MayReconnect(c) => conn[c].sockets < 2
        BY DEF MayReconnect
      <3>2. QED
        BY <3>1, <1>7 DEF Reconnects
    <2>3. QED
      BY <2>1, <2>2, <1>0, <1>1, ReopenIsGood
  <1>8. QED
    BY <1>3, <1>4, <1>5, <1>6, <1>7 DEF Quiet, SocketEvent

LEMMA GreetsStep ==
  ASSUME AllGood, Shared, Requested, NEW c \in Clients, Greets(c)
  PROVE  AllGood' /\ Shared' /\ Requested' /\ SameLife
  <1> DEFINE k == [conn[c] EXCEPT !.pending = conn[c].pending \ {"connect"}, !.greeted = TRUE]
  <1>1. /\ Good(conn[c]) /\ conn[c].socket = "open" /\ conn' = [conn EXCEPT ![c] = k]
        /\ promise' = promise /\ Requested'
    BY DEF AllGood, Greets, Requested, requestVars
  <1>2. Created(conn[c]) /\ ~conn[c].closed
    BY <1>1 DEF Good, NewClient
  <1>3. conn[c].pending \ {"connect"} \in SUBSET conn[c].pending
    OBVIOUS
  <1>4. Good(k) /\ Created(k) /\ k.closed = conn[c].closed
    BY <1>1, <1>2, <1>3, FieldsAreGood
  <1> HIDE DEF k
  <1>5. AllGood' /\ SameLife
    BY <1>1, <1>2, <1>4, OneClient
  <1>6. CASE settled[c] = "pending"
    <2>1. settled' = [settled EXCEPT ![c] = "resolving"] /\ client' = c
      BY <1>6 DEF Greets
    <2>2. Created(conn[c])' /\ ~conn'[c].closed
      BY <1>2, <1>5 DEF SameLife
    <2>3. Created(conn[client])' /\ ~conn'[client'].closed
      BY <2>1, <2>2 DEF Created
    <2>4. \A d \in Clients : ~Created(conn[d])' => settled'[d] = "none"
      BY <2>1, <2>2, <1>5 DEF Shared, SameLife
    <2>5. QED
      BY <2>1, <2>3, <2>4, <1>1, <1>5, NumbersAreClients
         DEF Shared, PromiseIsOpen, CurrentIsRunning
  <1>7. CASE settled[c] # "pending"
    <2>1. UNCHANGED clientVars
      BY <1>1, <1>7 DEF Greets, clientVars
    <2>2. QED
      BY <2>1, <1>1, <1>5, SharedStays
  <1>8. QED
    BY <1>6, <1>7

LEMMA RefusesStep ==
  ASSUME AllGood, Shared, Requested, NEW c \in Clients, Refuses(c)
  PROVE  AllGood' /\ Shared' /\ Requested' /\ SameLife
  <1> DEFINE k == [conn[c] EXCEPT !.pending = conn[c].pending \ {"connect"},
                                  !.socket = "closing"]
  <1>1. /\ Good(conn[c]) /\ conn[c].socket = "open" /\ conn' = [conn EXCEPT ![c] = k]
        /\ UNCHANGED clientVars /\ Requested'
    BY DEF AllGood, Refuses, Requested, requestVars
  <1>2. Created(conn[c])
    BY <1>1 DEF Good, NewClient
  <1>3. conn[c].pending \ {"connect"} \in SUBSET conn[c].pending
    OBVIOUS
  <1>4. Good(k) /\ Created(k) /\ k.closed = conn[c].closed
    BY <1>1, <1>2, <1>3, FieldsAreGood
  <1> HIDE DEF k
  <1>5. QED
    BY <1>1, <1>2, <1>4, OneClient, SharedStays

LEMMA AnswersStep ==
  ASSUME AllGood, Shared, Requested, NEW c \in Clients, NEW q \in Requests,
         NEW what \in {"ok", "connection", "other"}, Answers(c, q, what)
  PROVE  AllGood' /\ Shared' /\ Requested' /\ SameLife
  <1> DEFINE k == [conn[c] EXCEPT !.pending = conn[c].pending \ {q}]
  <1>1. /\ Good(conn[c]) /\ conn[c].socket = "open" /\ conn' = [conn EXCEPT ![c] = k]
        /\ UNCHANGED clientVars
    BY DEF AllGood, Answers
  <1>2. Created(conn[c])
    BY <1>1 DEF Good, NewClient
  <1>3. conn[c].pending \ {q} \in SUBSET conn[c].pending
    OBVIOUS
  <1>4. Good(k) /\ Created(k) /\ k.closed = conn[c].closed
    BY <1>1, <1>2, <1>3, FieldsAreGood
  <1>5. Requested'
    <2>1. CASE UNCHANGED requestVars
      BY <2>1 DEF Requested, requestVars
    <2>2. CASE what # "ok" /\ Reject({q}, what)
      BY <2>2, RejectIsTyped
    <2>3. CASE Ends(q, "ok")
      BY <2>3, EndsIsTyped
    <2>4. QED
      BY <2>1, <2>2, <2>3 DEF Answers
  <1> HIDE DEF k
  <1>6. QED
    BY <1>1, <1>2, <1>4, <1>5, OneClient, SharedStays

LEMMA CloseEventStep ==
  ASSUME AllGood, Shared, Requested, NEW c \in Clients, CloseEvent(c)
  PROVE  AllGood' /\ Shared' /\ Requested' /\ SameLife
  <1>1. /\ Good(conn[c]) /\ conn[c].socket # "none"
        /\ conn' = [conn EXCEPT ![c] = SocketClosed(conn[c])]
        /\ client' = client /\ promise' = promise
        /\ settled' = [settled EXCEPT ![c] = IF settled[c] = "pending" THEN "rejecting"
                                             ELSE settled[c]]
    BY DEF AllGood, CloseEvent
  <1>2. Created(conn[c])
    BY <1>1 DEF Good, NewClient
  <1>3. AllGood' /\ SameLife
    BY <1>1, <1>2, ClosedIsGood, OneClient
  <1>4. Requested'
    BY RejectIsTyped DEF CloseEvent
  <1>5. \A d \in Clients : ~Created(conn[d])' => settled'[d] = "none"
    BY <1>1, <1>2, <1>3 DEF Shared, SameLife
  <1>6. client # 0 => Created(conn'[client]) /\ conn'[client].closed = conn[client].closed
    BY <1>3 DEF Shared, SameLife, Created
  <1>7. Shared'
    BY <1>1, <1>3, <1>4, <1>5, <1>6, NumbersAreClients
       DEF Shared, PromiseIsOpen, CurrentIsRunning, Created
  <1>8. QED
    BY <1>3, <1>4, <1>7

LEMMA ConnectTimeoutStep ==
  ASSUME AllGood, Shared, Requested, NEW c \in Clients, ConnectTimeout(c)
  PROVE  AllGood' /\ Shared' /\ Requested'
  <1>1. /\ conn' = Reset /\ client' = 0 /\ promise' = 0
        /\ settled' = [settled EXCEPT ![c] = "rejecting"] /\ settled[c] = "pending"
    BY DEF ConnectTimeout, ClientForgotten
  <1>2. AllGood'
    BY <1>1, ResetIsGood, GoodNext
  <1>3. Requested'
    BY RejectIsTyped DEF ConnectTimeout
  <1>4. Created(conn[c])
    BY <1>1 DEF Shared
  <1>5. \A d \in Clients : ~Created(Reset[d]) => settled'[d] = "none"
    BY <1>1, <1>4, ResetIsGood DEF Shared
  <1>6. \A d \in Clients : ~Created(conn[d])' => settled'[d] = "none"
    BY <1>1, <1>5 DEF Created
  <1>7. QED
    BY <1>1, <1>2, <1>3, <1>6 DEF Shared, PromiseIsOpen, CurrentIsRunning

LEMMA RequestTimeoutStep ==
  ASSUME AllGood, Shared, Requested, NEW q \in Requests, RequestTimeout(q)
  PROVE  AllGood' /\ Shared' /\ Requested'
  <1>1. Requested'
    BY RejectIsTyped DEF RequestTimeout
  <1>2. QED
    BY <1>1 DEF RequestTimeout, AllGood, Shared, clientVars, Good, Created, NewClient, Client,
                PromiseIsOpen, CurrentIsRunning
-----------------------------------------------------------------------------
(* The invariant holds at first, and every step keeps it.                   *)
LEMMA InitInvariant == Init => IInv
  <1> SUFFICES ASSUME Init
               PROVE  AllGood /\ Shared /\ Requested
    BY Parts
  <1>1. AllGood
    BY NewIsGood DEF Init, AllGood, Good
  <1>2. Shared
    BY DEF Init, Shared, PromiseIsOpen, CurrentIsRunning
  <1>3. Requested
    BY DEF Init, Requested
  <1>4. QED
    BY <1>1, <1>2, <1>3

LEMMA NextInvariant == IInv /\ [Next]_vars => IInv'
  <1> SUFFICES ASSUME AllGood, Shared, Requested, [Next]_vars
               PROVE  AllGood' /\ Shared' /\ Requested'
    BY Parts DEF IInv, AllGood, Shared, Requested, TypeOK, Good, Unborn, SocketBooks,
                 PendingOnSocket, StoppedStaysDown, IntroducedOnce, PromiseIsOpen,
                 CurrentIsRunning
  <1>1. ASSUME NEW q \in Requests, Call(q) \/ UseClient(q) \/ Catch(q) \/ RequestTimeout(q)
        PROVE  AllGood' /\ Shared' /\ Requested'
    BY <1>1, CallStep, UseClientStep, CatchStep, RequestTimeoutStep
  <1>2. ASSUME NEW c \in Clients,
               \/ Finally(c) \/ Quiet(c) \/ Greets(c) \/ Refuses(c)
               \/ CloseEvent(c) \/ ConnectTimeout(c)
        PROVE  AllGood' /\ Shared' /\ Requested'
    BY <1>2, FinallyStep, QuietStep, GreetsStep, RefusesStep, CloseEventStep,
       ConnectTimeoutStep
  <1>3. ASSUME NEW c \in Clients, NEW q \in Requests,
               NEW what \in {"ok", "connection", "other"}, Answers(c, q, what)
        PROVE  AllGood' /\ Shared' /\ Requested'
    BY <1>3, AnswersStep
  <1>4. CASE UNCHANGED vars
    BY <1>4 DEF vars, AllGood, Shared, Requested, Good, Created, NewClient, Client,
                PromiseIsOpen, CurrentIsRunning
  <1>5. QED
    BY <1>1, <1>2, <1>3, <1>4 DEF Next

LEMMA Invariance == Spec => []IInv
  BY InitInvariant, NextInvariant, PTL DEF Spec

(* Whatever the calls, answers, silences, closed sockets and timeouts, the  *)
(* fields of the two classes and the locals of the requests keep their      *)
(* types.                                                                   *)
THEOREM TypeCorrect == Spec => []TypeOK
  BY Invariance, PTL DEF IInv

(* A pending request always has a socket: flushPending comes wherever a      *)
(* client lets go of its socket.                                             *)
THEOREM PendingHasSocket == Spec => []PendingOnSocket
  BY Invariance, PTL DEF IInv

(* A client that was stopped never opens a socket again, whatever timers     *)
(* were armed when it was stopped.                                           *)
THEOREM StoppedIsDown == Spec => []StoppedStaysDown
  BY Invariance, PTL DEF IInv

(* However the timer, the challenge and the crypto calls interleave, a       *)
(* socket is sent at most one `connect`.                                     *)
THEOREM OneConnect == Spec => []IntroducedOnce
  BY Invariance, PTL DEF IInv

(* connectPromise never is a promise whose reactions have run: no request    *)
(* awaits a connection of the past.                                          *)
THEOREM OpenPromise == Spec => []PromiseIsOpen
  BY Invariance, PTL DEF IInv

(* The client that requests are handed was not stopped, whichever of the     *)
(* requests, timeouts and greetings wrote it last.                           *)
THEOREM RunningClient == Spec => []CurrentIsRunning
  BY Invariance, PTL DEF IInv
-----------------------------------------------------------------------------
(* What remains of RequestsSettle without fairness: a request under way is  *)
(* always awaiting something that the event loop or a timer brings, and     *)
(* whatever comes brings it forward.                                        *)
InFlight == {"ensuring", "ensured", "sent", "caught"}

(* A request that has not ended may resume, or has a timer of its own, or   *)
(* awaits a promise whose timer is armed or whose finally is due.  Where it *)
(* is to try again a client is left for it: EnoughClients bounds the calls  *)
(* of the model, never the retries.                                         *)
Attended ==
    \A q \in Requests : pc[q] \in InFlight =>
        /\ \/ HasEnsured(q) \/ HasCaught(q) \/ Expires(q)
           \/ settled[on[q]] \in {"pending", "resolving", "rejecting"}
        /\ HasCaught(q) /\ Fault(q) = "connection" /\ run[q] = 1 =>
              \E f \in Clients : IsNext(f)

(* How far a request has come: its four stages, twice at most, and its end. *)
Stage(q) == IF pc[q] = "idle" THEN 0
            ELSE IF pc[q] \in {"ok", "failed"} THEN 9
            ELSE (IF run[q] = 1 THEN 0 ELSE 4)
                 + (IF pc[q] = "ensuring" THEN 1 ELSE IF pc[q] = "ensured" THEN 2
                    ELSE IF pc[q] = "sent" THEN 3 ELSE 4)
Request(q) == <<pc[q], run[q], on[q], fault[q]>>
OnlyForward ==
    [][\A q \in Requests : Request(q)' = Request(q) \/ Stage(q)' > Stage(q)]_vars

(* The locals of a request under way.                                       *)
RequestBooks == \A q \in Requests :
    /\ pc[q] \in InFlight => run[q] \in {1, 2} /\ on[q] \in Clients
    /\ pc[q] = "ensuring" => settled[on[q]] # "none"

(* Clients are made in their order, and each request in its first run has   *)
(* one left for the second.                                                 *)
FirstRuns == {q \in Requests : run[q] = 1}
InTurnUpTo(n) == /\ \A c \in Clients : Created(conn[c]) <=> c <= n
                 /\ IsFiniteSet(FirstRuns)
                 /\ Cardinality(FirstRuns) + n <= Cardinality(Clients)
InTurn == \E n \in 0..Cardinality(Clients) : InTurnUpTo(n)

Underway == AllGood /\ Shared /\ Requested /\ RequestBooks /\ InTurn

LEMMA NextToBeMade ==
  ASSUME NEW n \in 0..Cardinality(Clients), InTurnUpTo(n)
  PROVE  /\ Cardinality(Unmade) = Cardinality(Clients) - n
         /\ \A f \in Clients : IsNext(f) => f = n + 1
         /\ n < Cardinality(Clients) => n + 1 \in Clients /\ IsNext(n + 1)
  <1> DEFINE N == Cardinality(Clients)
  <1>1. N \in Nat /\ Clients = 1..N
    BY ClientAssumption, FS_CardinalityType
  <1> HIDE DEF N
  <1>2. n \in 0..N /\ Unmade = (n + 1)..N
    BY <1>1 DEF Unmade, InTurnUpTo, N
  <1>3. Cardinality(Unmade) = N - n
    <2>1. n + 1 \in Int /\ N \in Int
      BY <1>1, <1>2
    <2>2. Cardinality((n + 1)..N) = IF n + 1 > N THEN 0 ELSE N - (n + 1) + 1
      BY <2>1, FS_Interval
    <2>3. QED
      BY <1>1, <1>2, <2>2
  <1>4. \A f \in Clients : IsNext(f) => f = n + 1
    BY <1>1, <1>2 DEF IsNext
  <1>5. n < N => n + 1 \in Clients /\ IsNext(n + 1)
    BY <1>1, <1>2 DEF IsNext
  <1>6. QED
    BY <1>3, <1>4, <1>5 DEF N

(* No client is made, and no request begins its first run.                  *)
LEMMA TurnsKept ==
  ASSUME InTurn, \A c \in Clients : Created(conn[c])' <=> Created(conn[c]),
         FirstRuns' \subseteq FirstRuns
  PROVE  InTurn'
  <1>1. PICK n \in 0..Cardinality(Clients) : InTurnUpTo(n)
    BY DEF InTurn
  <1>2. IsFiniteSet(FirstRuns') /\ Cardinality(FirstRuns') <= Cardinality(FirstRuns)
    BY <1>1, FS_Subset DEF InTurnUpTo
  <1>3. Cardinality(FirstRuns) \in Nat /\ Cardinality(FirstRuns') \in Nat
        /\ Cardinality(Clients) \in Nat
    BY <1>1, <1>2, FS_CardinalityType, ClientAssumption DEF InTurnUpTo
  <1>4. InTurnUpTo(n)'
    BY <1>1, <1>2, <1>3 DEF InTurnUpTo
  <1>5. QED
    BY <1>4 DEF InTurn

(* A client f is made, the next one, and S are the requests in their first  *)
(* run from now on.                                                         *)
LEMMA TurnTaken ==
  ASSUME AllGood, NEW n \in 0..Cardinality(Clients), InTurnUpTo(n),
         NEW f \in Clients, IsNext(f), NEW k \in [Clients -> Client],
         \A c \in Clients : Created(k[c]) <=> Created(conn[c]), Makes(f, k),
         IsFiniteSet(FirstRuns'), Cardinality(FirstRuns') + n + 1 <= Cardinality(Clients)
  PROVE  InTurn'
  <1>1. f = n + 1 /\ Cardinality(Clients) \in Nat /\ Clients = 1..Cardinality(Clients)
    BY NextToBeMade, ClientAssumption, FS_CardinalityType
  <1>2. Cardinality(FirstRuns') \in Nat
    BY FS_CardinalityType
  <1>3. conn' = [k EXCEPT ![f] = Start(NewClient)] /\ Start(NewClient) \in Client
        /\ Created(Start(NewClient))
    BY StartIsGood DEF Makes, Good
  <1>4. \A c \in Clients : Created(conn'[c]) <=> c <= n + 1
    BY <1>1, <1>3 DEF InTurnUpTo
  <1>5. \A c \in Clients : Created(conn[c])' <=> c <= n + 1
    BY <1>4 DEF Created
  <1>6. n + 1 \in 0..Cardinality(Clients)
    BY <1>1
  <1>7. InTurnUpTo(n + 1)'
    BY <1>1, <1>2, <1>5 DEF InTurnUpTo
  <1>8. QED
    BY <1>6, <1>7 DEF InTurn

LEMMA CallTurns ==
  ASSUME Underway, NEW q \in Requests, Call(q)
  PROVE  InTurn'
  <1>1. PICK n \in 0..Cardinality(Clients) : InTurnUpTo(n)
    BY DEF Underway, InTurn
  <1>2. /\ Cardinality(Unmade) = Cardinality(Clients) - n
        /\ n \in Nat /\ Cardinality(Clients) \in Nat
    BY <1>1, NextToBeMade, ClientAssumption, FS_CardinalityType
  <1>3. FirstRuns' = FirstRuns \cup {q}
    BY DEF Underway, Requested, Call, FirstRuns
  <1>4. /\ IsFiniteSet(FirstRuns') /\ Cardinality(FirstRuns') \in Nat
        /\ Cardinality(FirstRuns) \in Nat
        /\ Cardinality(FirstRuns') <= Cardinality(FirstRuns) + 1
    <2>1. IsFiniteSet(FirstRuns)
      BY <1>1 DEF InTurnUpTo
    <2>2. /\ IsFiniteSet(FirstRuns \cup {q})
          /\ Cardinality(FirstRuns \cup {q}) = IF q \in FirstRuns THEN Cardinality(FirstRuns)
                                              ELSE Cardinality(FirstRuns) + 1
      BY <2>1, FS_AddElement
    <2>3. Cardinality(FirstRuns) \in Nat /\ Cardinality(FirstRuns \cup {q}) \in Nat
      BY <2>1, <2>2, FS_CardinalityType
    <2> HIDE DEF FirstRuns
    <2>4. QED
      BY <1>3, <2>2, <2>3
  <1>5. \A new \in {0, 1} : EnoughClients(new) =>
           Cardinality(FirstRuns) + 1 + new <= Cardinality(Clients) - n
    BY <1>2 DEF EnoughClients, FirstRuns
  <1>6. CASE UNCHANGED <<conn, clientVars>>
    <2>1. Cardinality(FirstRuns) + 1 + 0 <= Cardinality(Clients) - n
      BY <1>5 DEF Call
    <2>2. InTurnUpTo(n)'
      BY <1>1, <1>2, <1>4, <1>6, <2>1 DEF InTurnUpTo, Created
    <2>3. QED
      BY <2>2 DEF InTurn
  <1>7. CASE \E f \in Clients : EnoughClients(1) /\ IsNext(f) /\ Makes(f, conn)
    <2>1. PICK f \in Clients : EnoughClients(1) /\ IsNext(f) /\ Makes(f, conn)
      BY <1>7
    <2>2. Cardinality(FirstRuns) + 1 + 1 <= Cardinality(Clients) - n
      BY <2>1, <1>5
    <2>3. Cardinality(FirstRuns') + n + 1 <= Cardinality(Clients)
      BY <2>2, <1>2, <1>4
    <2>4. conn \in [Clients -> Client]
      BY DEF Underway, AllGood
    <2>5. QED
      BY <1>1, <1>4, <2>1, <2>3, <2>4, TurnTaken DEF Underway
  <1>8. QED
    BY <1>6, <1>7 DEF Call

LEMMA CatchTurns ==
  ASSUME Underway, NEW q \in Requests, Catch(q)
  PROVE  InTurn'
  <1>1. CASE Ends(q, "failed") /\ UNCHANGED <<conn, clientVars>>
    <2>1. FirstRuns' \subseteq FirstRuns
      BY <1>1 DEF Ends, FirstRuns, Underway, Requested
    <2>2. QED
      BY <2>1, <1>1, TurnsKept DEF Underway, Created
  <1>2. CASE \E f \in Clients : /\ IsNext(f) /\ Makes(f, Reset) /\ run[q] = 1
                                /\ run' = [run EXCEPT ![q] = 2]
    <2>1. PICK f \in Clients : IsNext(f) /\ Makes(f, Reset)
      BY <1>2
    <2>2. PICK n \in 0..Cardinality(Clients) : InTurnUpTo(n)
      BY DEF Underway, InTurn
    <2>3. FirstRuns' = FirstRuns \ {q} /\ q \in FirstRuns
      BY <1>2 DEF Underway, Requested, FirstRuns
    <2>4. IsFiniteSet(FirstRuns')
          /\ Cardinality(FirstRuns') = Cardinality(FirstRuns) - 1
          /\ Cardinality(FirstRuns) \in Nat
      BY <2>2, <2>3, FS_RemoveElement, FS_CardinalityType DEF InTurnUpTo
    <2>5. Cardinality(Clients) \in Nat /\ n \in Nat
      BY ClientAssumption, FS_CardinalityType
    <2>6. Cardinality(FirstRuns') + n + 1 <= Cardinality(Clients)
      BY <2>2, <2>4, <2>5 DEF InTurnUpTo
    <2>7. /\ Reset \in [Clients -> Client]
          /\ \A c \in Clients : Created(Reset[c]) <=> Created(conn[c])
      BY ResetIsGood DEF Underway
    <2>8. QED
      BY <2>1, <2>2, <2>4, <2>6, <2>7, TurnTaken DEF Underway
  <1>3. QED
    BY <1>1, <1>2 DEF Catch

LEMMA TurnsStep ==
  ASSUME Underway, [Next]_vars
  PROVE  InTurn'
  <1>0. AllGood /\ Shared /\ Requested /\ InTurn
    BY DEF Underway
  <1>1. ASSUME NEW q \in Requests, Call(q) \/ Catch(q)
        PROVE  InTurn'
    BY <1>1, CallTurns, CatchTurns
  <1>2. ASSUME SameLife, UNCHANGED run \/ \E q \in Requests, p \in {"ok", "failed"} : Ends(q, p)
        PROVE  InTurn'
    <2>1. FirstRuns' \subseteq FirstRuns
      BY <1>0, <1>2 DEF FirstRuns, Requested, Ends
    <2>2. \A c \in Clients : Created(conn[c])' <=> Created(conn[c])
      BY <1>2 DEF SameLife
    <2>3. QED
      BY <1>0, <2>1, <2>2, TurnsKept
  <1>3. ASSUME UNCHANGED conn
        PROVE  SameLife
    BY <1>3 DEF SameLife, Created
  <1>4. ASSUME NEW q \in Requests, UseClient(q) \/ RequestTimeout(q)
        PROVE  InTurn'
    BY <1>0, <1>2, <1>3, <1>4, UseClientStep DEF UseClient, RequestTimeout, Reject
  <1>5. ASSUME NEW c \in Clients, \/ Finally(c) \/ Quiet(c) \/ Greets(c) \/ Refuses(c)
                                  \/ CloseEvent(c)
        PROVE  InTurn'
    <2>1. SameLife
      BY <1>0, <1>3, <1>5, QuietStep, GreetsStep, RefusesStep, CloseEventStep DEF Finally
    <2>2. UNCHANGED run
      BY <1>5 DEF Finally, Quiet, Greets, Refuses, CloseEvent, Reject, requestVars
    <2>3. QED
      BY <2>1, <2>2, <1>2
  <1>6. ASSUME NEW c \in Clients, ConnectTimeout(c)
        PROVE  InTurn'
    <2>1. conn' = Reset /\ UNCHANGED run
      BY <1>6 DEF ConnectTimeout, Reject
    <2>2. \A d \in Clients : Created(conn[d])' <=> Created(conn[d])
      BY <1>0, <2>1, ResetIsGood DEF Created
    <2>3. QED
      BY <1>0, <2>1, <2>2, TurnsKept DEF FirstRuns
  <1>7. ASSUME NEW c \in Clients, NEW q \in Requests,
               NEW what \in {"ok", "connection", "other"}, Answers(c, q, what)
        PROVE  InTurn'
    <2>1. SameLife
      BY <1>0, <1>7, AnswersStep
    <2>2. UNCHANGED run \/ Ends(q, "ok")
      BY <1>7 DEF Answers, Reject, requestVars
    <2>3. QED
      BY <2>1, <2>2, <1>2
  <1>8. CASE UNCHANGED vars
    BY <1>2, <1>3, <1>8 DEF vars
  <1>9. QED
    BY <1>1, <1>4, <1>5, <1>6, <1>7, <1>8 DEF Next
-----------------------------------------------------------------------------
Forward == \A q \in Requests : Request(q)' = Request(q) \/ Stage(q)' > Stage(q)

(* A promise once made is never unmade.                                     *)
LEMMA PromisesStay ==
  ASSUME Shared, [Next]_vars, NEW c \in Clients, settled[c] # "none"
  PROVE  settled'[c] # "none"
  <1>1. CASE UNCHANGED settled
    BY <1>1
  <1>2. CASE \E f \in Clients, v \in {"pending", "resolving", "rejecting", "resolved", "rejected"} :
                settled' = [settled EXCEPT ![f] = v]
    BY <1>2 DEF Shared
  <1>3. ASSUME NEW f \in Clients, CloseEvent(f)
        PROVE  settled'[c] # "none"
    BY <1>3 DEF CloseEvent, Shared
  <1>4. QED
    BY <1>1, <1>2, <1>3 DEF Next, Call, UseClient, Catch, RequestTimeout, Finally, Quiet, Greets,
       Refuses, ConnectTimeout, Answers, Makes, clientVars, vars

(* The books of a request that no step touches.                             *)
LEMMA Untouched ==
  ASSUME Underway, [Next]_vars, NEW q \in Requests, Request(q)' = Request(q)
  PROVE  /\ pc'[q] \in InFlight => run'[q] \in {1, 2} /\ on'[q] \in Clients
         /\ pc'[q] = "ensuring" => settled'[on'[q]] # "none"
  <1>1. pc'[q] = pc[q] /\ run'[q] = run[q] /\ on'[q] = on[q]
    BY DEF Request
  <1>2. /\ pc[q] \in InFlight => run[q] \in {1, 2} /\ on[q] \in Clients
        /\ pc[q] = "ensuring" => settled[on[q]] # "none"
    BY DEF Underway, RequestBooks
  <1>3. pc[q] = "ensuring" => on[q] \in Clients
    BY <1>2 DEF InFlight
  <1>4. pc[q] = "ensuring" => settled'[on[q]] # "none"
    BY <1>2, <1>3, PromisesStay DEF Underway
  <1>5. QED
    BY <1>1, <1>2, <1>4

(* What a request may become in a step: rejected or ended, sent, or, as it  *)
(* begins or tries again, waiting for a client.                             *)
Rejected(q) == /\ pc[q] \in {"ensuring", "ensured", "sent"} /\ pc'[q] = "caught"
               /\ run'[q] = run[q] /\ on'[q] = on[q]
Sent(q)     == /\ pc[q] \in {"ensuring", "ensured"} /\ pc'[q] = "sent"
               /\ run'[q] = run[q] /\ on'[q] = on[q]
Over(q)     == pc[q] \in InFlight /\ pc'[q] \in {"ok", "failed"}
Ensures(q)  == /\ \/ pc[q] = "idle" /\ run'[q] = 1
                  \/ pc[q] \in InFlight /\ run[q] = 1 /\ run'[q] = 2
               /\ pc'[q] \in {"ensuring", "ensured"}
               /\ on'[q] \in Clients
               /\ pc'[q] = "ensuring" => settled'[on'[q]] # "none"
Moves(q) == Rejected(q) \/ Sent(q) \/ Over(q) \/ Ensures(q)

LEMMA MovesForward ==
  ASSUME Underway, Requested', NEW q \in Requests, Moves(q)
  PROVE  /\ Stage(q)' > Stage(q)
         /\ pc'[q] \in InFlight => run'[q] \in {1, 2} /\ on'[q] \in Clients
         /\ pc'[q] = "ensuring" => settled'[on'[q]] # "none"
  <1>1. pc[q] \in InFlight => run[q] \in {1, 2} /\ on[q] \in Clients
    BY DEF Underway, RequestBooks
  <1>2. CASE Rejected(q)
    BY <1>1, <1>2 DEF Rejected, Stage, InFlight
  <1>3. CASE Sent(q)
    BY <1>1, <1>3 DEF Sent, Stage, InFlight
  <1>4. CASE Over(q)
    BY <1>1, <1>4 DEF Over, Stage, InFlight
  <1>5. CASE Ensures(q)
    BY <1>1, <1>5 DEF Ensures, Stage, InFlight
  <1>6. QED
    BY <1>2, <1>3, <1>4, <1>5 DEF Moves

(* Rejecting requests that were sent.                                       *)
LEMMA RejectMoves ==
  ASSUME Requested, NEW S, NEW f, Reject(S, f),
         \A q \in S \cap Requests : pc[q] \in {"ensuring", "ensured", "sent"}
  PROVE  \A q \in Requests : Request(q)' = Request(q) \/ Moves(q)
  BY DEF Requested, Reject, Request, Moves, Rejected

LEMMA EndMoves ==
  ASSUME Requested, NEW q \in Requests, NEW p \in {"ok", "failed"}, Ends(q, p),
         pc[q] \in InFlight
  PROVE  \A r \in Requests : Request(r)' = Request(r) \/ Moves(r)
  BY DEF Requested, Ends, Request, Moves, Over

LEMMA CallMoves ==
  ASSUME Underway, NEW q \in Requests, Call(q)
  PROVE  \A r \in Requests : Request(r)' = Request(r) \/ Moves(r)
  <1>1. ASSUME NEW r \in Requests, r # q
        PROVE  Request(r)' = Request(r)
    BY <1>1 DEF Underway, Requested, Call, Request
  <1>2. /\ pc[q] = "idle" /\ run'[q] = 1
        /\ pc'[q] \in {"ensuring", "ensured"}
    BY DEF Underway, Requested, Call
  <1>3. on'[q] \in Clients
    BY DEF Underway, Requested, Shared, Call, HasClient
  <1>4. pc'[q] = "ensuring" => settled'[on'[q]] # "none"
    <2>1. CASE on' = [on EXCEPT ![q] = client] /\ pc' = [pc EXCEPT ![q] = "ensured"]
      BY <2>1 DEF Underway, Requested
    <2>2. CASE promise # 0 /\ on' = [on EXCEPT ![q] = promise] /\ UNCHANGED clientVars
      BY <2>2 DEF Underway, Requested, Shared, PromiseIsOpen, clientVars
    <2>3. CASE \E f \in Clients : Makes(f, conn) /\ on' = [on EXCEPT ![q] = f]
      BY <2>3 DEF Underway, Requested, Shared, Makes
    <2>4. QED
      BY <2>1, <2>2, <2>3 DEF Call
  <1>5. QED
    BY <1>1, <1>2, <1>3, <1>4 DEF Moves, Ensures

LEMMA CatchMoves ==
  ASSUME Underway, NEW q \in Requests, Catch(q)
  PROVE  \A r \in Requests : Request(r)' = Request(r) \/ Moves(r)
  <1>0. pc[q] \in {"caught", "ensuring"} /\ pc[q] \in InFlight
    BY DEF Catch, HasCaught, InFlight
  <1>1. CASE Ends(q, "failed")
    BY <1>0, <1>1, EndMoves DEF Underway
  <1>2. ASSUME NEW f \in Clients, Makes(f, Reset), run[q] = 1,
               run' = [run EXCEPT ![q] = 2], on' = [on EXCEPT ![q] = f],
               pc' = [p \in Requests |-> IF p = q THEN "ensuring"
                                         ELSE IF p \in Orphans THEN "caught" ELSE pc[p]],
               fault' = [p \in Requests |-> IF p \in Orphans THEN "other" ELSE fault[p]]
        PROVE  \A r \in Requests : Request(r)' = Request(r) \/ Moves(r)
    <2>1. settled'[f] # "none"
      BY <1>2 DEF Underway, Shared, Makes
    <2>2. Ensures(q)
      BY <1>0, <1>2, <2>1 DEF Underway, Requested, Ensures
    <2>3. \A r \in Orphans : pc[r] = "sent"
      BY DEF Orphans, Awaiting
    <2>4. ASSUME NEW r \in Requests, r # q
          PROVE  Request(r)' = Request(r) \/ Rejected(r)
      BY <1>2, <2>3, <2>4 DEF Underway, Requested, Request, Rejected
    <2>5. QED
      BY <2>2, <2>4 DEF Moves
  <1>3. QED
    BY <1>1, <1>2 DEF Catch

LEMMA RequestsMove ==
  ASSUME Underway, [Next]_vars
  PROVE  \A q \in Requests : Request(q)' = Request(q) \/ Moves(q)
  <1>0. Requested
    BY DEF Underway
  <1>1. ASSUME NEW q \in Requests, Call(q) \/ Catch(q)
        PROVE  \A r \in Requests : Request(r)' = Request(r) \/ Moves(r)
    BY <1>1, CallMoves, CatchMoves
  <1>2. ASSUME NEW q \in Requests, UseClient(q)
        PROVE  \A r \in Requests : Request(r)' = Request(r) \/ Moves(r)
    <2>1. pc[q] \in {"ensuring", "ensured"}
      BY <1>2 DEF UseClient, HasEnsured
    <2>2. CASE Reject({q}, "connection")
      BY <1>0, <2>1, <2>2, RejectMoves
    <2>3. CASE pc' = [pc EXCEPT ![q] = "sent"] /\ UNCHANGED <<run, on, fault>>
      BY <1>0, <2>1, <2>3 DEF Requested, Request, Moves, Sent
    <2>4. QED
      BY <1>2, <2>2, <2>3 DEF UseClient
  <1>3. ASSUME NEW q \in Requests, RequestTimeout(q)
        PROVE  \A r \in Requests : Request(r)' = Request(r) \/ Moves(r)
    BY <1>0, <1>3, RejectMoves DEF RequestTimeout, Expires
  <1>4. ASSUME NEW c \in Clients, CloseEvent(c) \/ ConnectTimeout(c)
        PROVE  \A r \in Requests : Request(r)' = Request(r) \/ Moves(r)
    <2>1. \A d : \A q \in Awaiting(d) : pc[q] = "sent"
      BY DEF Awaiting
    <2>2. \A q \in Orphans : pc[q] = "sent"
      BY <2>1 DEF Orphans
    <2>3. QED
      BY <1>0, <1>4, <2>1, <2>2, RejectMoves DEF CloseEvent, ConnectTimeout
  <1>5. ASSUME NEW c \in Clients, NEW q \in Requests,
               NEW what \in {"ok", "connection", "other"}, Answers(c, q, what)
        PROVE  \A r \in Requests : Request(r)' = Request(r) \/ Moves(r)
    <2>1. CASE UNCHANGED requestVars
      BY <2>1 DEF Request, requestVars
    <2>2. CASE q \in Awaiting(c)
      <3>1. pc[q] = "sent" /\ pc[q] \in InFlight
        BY <2>2 DEF Awaiting, InFlight
      <3>2. Reject({q}, what) \/ Ends(q, "ok")
        BY <2>2, <1>5 DEF Answers
      <3>3. QED
        BY <1>0, <3>1, <3>2, RejectMoves, EndMoves
    <2>3. QED
      BY <1>5, <2>1, <2>2 DEF Answers
  <1>6. CASE UNCHANGED requestVars
    BY <1>6 DEF Request, requestVars
  <1>7. QED
    BY <1>1, <1>2, <1>3, <1>4, <1>5, <1>6 DEF Next, Finally, Quiet, Greets, Refuses, vars,
       requestVars

(* The books hold at first and are kept, and every change of a request      *)
(* brings it forward.                                                       *)
LEMMA UnderwayStep ==
  ASSUME Underway, [Next]_vars
  PROVE  Underway' /\ Forward
  <1>1. AllGood' /\ Shared' /\ Requested'
    BY NextInvariant, Parts DEF Underway, IInv, AllGood, Shared, Requested, TypeOK, Good, Unborn,
       SocketBooks, PendingOnSocket, StoppedStaysDown, IntroducedOnce, PromiseIsOpen,
       CurrentIsRunning
  <1>2. ASSUME NEW q \in Requests
        PROVE  /\ Request(q)' = Request(q) \/ Stage(q)' > Stage(q)
               /\ pc'[q] \in InFlight => run'[q] \in {1, 2} /\ on'[q] \in Clients
               /\ pc'[q] = "ensuring" => settled'[on'[q]] # "none"
    BY <1>1, RequestsMove, Untouched, MovesForward
  <1>3. RequestBooks'
    BY <1>2 DEF RequestBooks
  <1>4. Forward
    BY <1>2 DEF Forward
  <1>5. QED
    BY <1>1, <1>3, <1>4, TurnsStep DEF Underway

LEMMA InitUnderway == Init => Underway
  <1> SUFFICES ASSUME Init
               PROVE  RequestBooks /\ InTurn
    BY InitInvariant, Parts DEF Underway
  <1>1. RequestBooks
    BY DEF Init, RequestBooks, InFlight
  <1>2. FirstRuns = {}
    BY DEF Init, FirstRuns
  <1>3. IsFiniteSet(FirstRuns) /\ Cardinality(FirstRuns) = 0
    BY <1>2, FS_EmptySet
  <1>4. Cardinality(Clients) \in Nat /\ Clients = 1..Cardinality(Clients)
    BY ClientAssumption, FS_CardinalityType
  <1>5. \A c \in Clients : ~Created(conn[c])
    BY DEF Init, Created, NewClient
  <1>6. InTurnUpTo(0)
    BY <1>3, <1>4, <1>5 DEF InTurnUpTo
  <1>7. QED
    BY <1>1, <1>4, <1>6 DEF InTurn

LEMMA UnderwayInvariance == Spec => []Underway
  BY InitUnderway, UnderwayStep, PTL DEF Spec

(* Whatever the other requests, the sockets and the timers do, a request    *)
(* that has not ended may go on at once or has a timer to wake it, and the  *)
(* client it is to try again with can be made.                              *)
THEOREM RequestsAttended == Spec => []Attended
  <1>1. ASSUME Underway, NEW q \in Requests, pc[q] \in InFlight
        PROVE  \/ HasEnsured(q) \/ HasCaught(q) \/ Expires(q)
               \/ settled[on[q]] \in {"pending", "resolving", "rejecting"}
    BY <1>1 DEF Underway, RequestBooks, Shared, InFlight, HasEnsured, HasCaught, Expires
  <1>2. ASSUME Underway, NEW q \in Requests, run[q] = 1
        PROVE  \E f \in Clients : IsNext(f)
    <2>1. PICK n \in 0..Cardinality(Clients) : InTurnUpTo(n)
      BY <1>2 DEF Underway, InTurn
    <2>2. q \in FirstRuns /\ IsFiniteSet(FirstRuns)
      BY <1>2, <2>1 DEF FirstRuns, InTurnUpTo
    <2>3. Cardinality(FirstRuns) \in Nat /\ Cardinality(FirstRuns) # 0
      BY <2>2, FS_CardinalityType, FS_EmptySet
    <2>4. n < Cardinality(Clients)
      BY <2>1, <2>3, ClientAssumption, FS_CardinalityType DEF InTurnUpTo
    <2>5. QED
      BY <2>1, <2>4, NextToBeMade
  <1>3. Underway => Attended
    BY <1>1, <1>2 DEF Attended
  <1>4. QED
    BY <1>3, UnderwayInvariance, PTL

(* No step of another request, of a socket or of a timer takes a request    *)
(* back: whatever changes it brings it nearer to its end, which is nine     *)
(* changes away at most.                                                    *)
THEOREM RequestsAdvance == Spec => OnlyForward
  <1>1. Underway /\ [Next]_vars =>
          [\A q \in Requests : Request(q)' = Request(q) \/ Stage(q)' > Stage(q)]_vars
    BY UnderwayStep DEF Forward
  <1>2. QED
    BY <1>1, UnderwayInvariance, PTL DEF Spec, OnlyForward
=============================================================================
