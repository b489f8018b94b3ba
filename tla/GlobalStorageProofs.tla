------------------------- MODULE GlobalStorageProofs -------------------------
(***************************************************************************)
(* Theorems about GlobalStorage for every set of calls, every time to live *)
(* and every delay of Redis.                                               *)
(***************************************************************************)
EXTENDS GlobalStorage, TLAPS

(* Value v is current, or was so at time t; and the same after the step.    *)
Since(v, t) == (v # "none" /\ replaced[v] # Never) => replaced[v] >= t
Still(v, t) == (v # "none" /\ replaced'[v] # Never) => replaced'[v] >= t

(* A current value is not on record as replaced.                            *)
RowBooks == \A s \in Setters : Current(s) => replaced[s] = Never

(* A cache entry lives for Ttl, and was written from a value that was       *)
(* current at most Delay before.                                            *)
Sound(e) == e.expiresAt <= clock + Ttl /\ Since(e.value, e.expiresAt - Ttl - Delay)
EntryBooks == /\ Sound(memory) /\ Sound(redis)
              /\ redis.value # "none" => redis.expiresAt > clock

(* A message between the process and Redis is young; a SET carries a value  *)
(* that was current when it was sent, a GET brings one the cache may still  *)
(* hold; the getKv it belongs to is under way and began before it.          *)
Good(m) ==
    /\ m.at \in Times /\ m.value \in Values
    /\ m.at <= clock /\ clock <= m.at + Delay
    /\ m.op = "set" => m.call \in Calls /\ Since(m.value, m.at)
    /\ m.op = "get" => m.call \in Getters /\ Since(m.value, m.at + 1 - Ttl - Delay)
    /\ m.call \in Getters => pc[m.call] # "idle" /\ began[m.call] <= m.at

Elements(q) == {q[i] : i \in DOMAIN q}
MessageBooks == \A m \in Elements(wire) \cup Elements(replies) : Good(m)

(* What a getKv answers was current shortly before it began.                *)
AnswerBooks == \A g \in Getters :
    /\ began[g] <= clock
    /\ pc[g] = "idle" => answer[g] = "none"
    /\ Since(answer[g], began[g] + 1 - Ttl - Delay)

IInv == TypeOK /\ RowBooks /\ EntryBooks /\ MessageBooks /\ AnswerBooks
-----------------------------------------------------------------------------
(* The constants as the provers need them.                                  *)
LEMMA Bounds == Ttl \in Nat /\ Delay \in Nat /\ Ttl >= 1 /\ Delay >= 1 /\ Horizon \in Nat
  BY StorageAssumption

(* The elements of a queue one message longer, or one shorter.              *)
LEMMA LongerQueue ==
  ASSUME NEW S, NEW q \in Seq(S), NEW m \in S
  PROVE  Append(q, m) \in Seq(S) /\ Elements(Append(q, m)) \subseteq Elements(q) \cup {m}
  BY DEF Elements

LEMMA ShorterQueue ==
  ASSUME NEW S, NEW q \in Seq(S), q # <<>>
  PROVE  /\ Head(q) \in S /\ Head(q) \in Elements(q)
         /\ Tail(q) \in Seq(S) /\ Elements(Tail(q)) \subseteq Elements(q)
  BY DEF Elements

(* The history of the values is one of times, and what was current at a     *)
(* time t remains so recorded.                                              *)
LEMMA HistoryTyped == TypeOK /\ History => replaced' \in [Setters -> Times \cup {Never}]
  BY DEF TypeOK, History

LEMMA HistoryRow == History => RowBooks'
  BY DEF History, RowBooks, Current

LEMMA SinceStays ==
  TypeOK /\ History => \A v \in Values, t \in Int : Since(v, t) /\ t <= clock => Still(v, t)
  BY Bounds DEF TypeOK, History, Since, Still, Values, Times, Never

(* A message in transit stays good while no call it belongs to starts anew  *)
(* and its delay has not passed.                                            *)
CallsGoOn == \A g \in Getters : pc[g] # "idle" => pc'[g] # "idle" /\ began'[g] = began[g]

LEMMA GoodStays ==
  ASSUME TypeOK, History, CallsGoOn, clock' \in Times, clock <= clock',
         NEW m, Good(m), clock' <= m.at + Delay
  PROVE  Good(m)'
  <1>1. m.at \in Int /\ m.at + 1 - Ttl - Delay \in Int /\ m.at + 1 - Ttl - Delay <= clock
        /\ m.at <= clock /\ clock \in Int /\ clock' \in Int
    BY Bounds DEF Good, TypeOK, Times
  <1>2. m.op = "set" => Still(m.value, m.at)
    BY <1>1, SinceStays DEF Good
  <1>3. m.op = "get" => Still(m.value, m.at + 1 - Ttl - Delay)
    BY <1>1, SinceStays DEF Good
  <1>4. m.call \in Getters => pc'[m.call] # "idle" /\ began'[m.call] <= m.at
    BY DEF Good, CallsGoOn
  <1>5. m.at <= clock'
    BY <1>1
  <1>6. QED
    BY <1>2, <1>3, <1>4, <1>5 DEF Good, Since, Still

(* An entry that a step leaves alone stays sound, and one written from a    *)
(* value that was current at most Delay ago is sound.                       *)
SoundStill(e) == e.expiresAt <= clock' + Ttl /\ Still(e.value, e.expiresAt - Ttl - Delay)

LEMMA SoundStays ==
  ASSUME TypeOK, History, clock' \in Times, clock <= clock'
  PROVE  \A e \in Entries : Sound(e) => SoundStill(e)
  <1> SUFFICES ASSUME NEW e \in Entries, Sound(e) PROVE SoundStill(e)
    OBVIOUS
  <1>1. e.value \in Values /\ e.expiresAt - Ttl - Delay \in Int
        /\ e.expiresAt - Ttl - Delay <= clock /\ e.expiresAt <= clock' + Ttl
    BY Bounds DEF Entries, Sound, TypeOK, Times
  <1>2. Still(e.value, e.expiresAt - Ttl - Delay)
    BY <1>1, SinceStays DEF Sound
  <1>3. QED
    BY <1>1, <1>2 DEF SoundStill

LEMMA FreshSound ==
  ASSUME TypeOK, History, clock' = clock
  PROVE  \A v \in Values, t \in Int :
            clock - Delay <= t /\ Still(v, t) => Fresh(v) \in Entries /\ SoundStill(Fresh(v))
  <1> SUFFICES ASSUME NEW v \in Values, NEW t \in Int, clock - Delay <= t, Still(v, t)
               PROVE  Fresh(v) \in Entries /\ SoundStill(Fresh(v))
    OBVIOUS
  <1>1. clock \in Times /\ clock \in Int
    BY Bounds DEF TypeOK, Times
  <1>2. Fresh(v) = Entry(v, clock + Ttl) /\ Fresh(v).value = v /\ Fresh(v).expiresAt = clock + Ttl
    BY DEF Fresh, Entry
  <1>3. Fresh(v) \in Entries
    BY <1>1, <1>2, Bounds DEF Entry, Entries, Times
  <1>4. replaced' \in [Setters -> Times \cup {Never}]
    BY HistoryTyped
  <1>5. Still(v, clock + Ttl - Ttl - Delay)
    BY <1>1, <1>4, Bounds DEF Still, Values, Times, Never
  <1>6. QED
    BY <1>1, <1>2, <1>3, <1>5, Bounds DEF SoundStill
-----------------------------------------------------------------------------
(* No entry, no message, no answer: the invariant holds.                    *)
LEMMA InitIInv == Init => IInv
  <1> SUFFICES ASSUME Init PROVE IInv
    OBVIOUS
  <1>1. TypeOK
    <2>1. 0 \in Times /\ NoEntry \in Entries /\ 0 \in 0..MaxUpsets
      BY Bounds, StorageAssumption DEF NoEntry, Entry, Entries, Values, Times
    <2>2. pc \in [Calls -> {"idle", "setting", "getting", "filling", "done"}]
          /\ (\A c \in Calls : pc[c] = "idle")
      BY DEF Init
    <2>3. began \in [Getters -> Times] /\ answer \in [Getters -> Values]
          /\ replaced \in [Setters -> Times \cup {Never}]
      BY <2>1 DEF Init, Values
    <2>4. wire \in Seq(Commands) /\ replies \in Seq(Replies)
      BY DEF Init
    <2>5. QED
      BY <2>1, <2>2, <2>3, <2>4 DEF Init, TypeOK, Values, Calls
  <1>2. RowBooks /\ AnswerBooks
    BY DEF Init, RowBooks, AnswerBooks, Since
  <1>3. EntryBooks
    BY Bounds DEF Init, EntryBooks, Sound, Since, NoEntry, Entry
  <1>4. MessageBooks
    BY DEF Init, MessageBooks, Elements
  <1>5. QED
    BY <1>1, <1>2, <1>3, <1>4 DEF IInv

(* A command sent is typed and leaves the older ones in place.              *)
LEMMA SendsTyped ==
  ASSUME TypeOK, NEW op \in {"set", "get", "ping"}, NEW c \in Calls \cup {"status"},
         NEW v \in Values, Sends(op, c, v)
  PROVE  LET m == [op |-> op, call |-> c, value |-> v, at |-> clock]
         IN  wire' \in Seq(Commands) /\ Elements(wire') \subseteq Elements(wire) \cup {m}
  <1> DEFINE m == [op |-> op, call |-> c, value |-> v, at |-> clock]
  <1>1. m \in Commands
    BY DEF TypeOK, Commands
  <1>2. wire' = Append(wire, m) /\ wire \in Seq(Commands)
    BY DEF Sends, TypeOK
  <1> HIDE DEF m
  <1>3. wire' \in Seq(Commands) /\ Elements(wire') \subseteq Elements(wire) \cup {m}
    BY <1>1, <1>2, LongerQueue
  <1>4. QED
    BY <1>3 DEF m

(* The row keeps its value in a step that does not write it.                *)
LEMMA RowStill ==
  ASSUME TypeOK, History, row' = row
  PROVE  row \in Values /\ \A t \in Int : Still(row, t)
  BY DEF TypeOK, History, Current, Still, Values

(* A getKv that goes on without Redis answers with an entry that is alive,  *)
(* or with the row, or else puts the row on its way to Redis.               *)
LEMMA FromMemoryEffect ==
  ASSUME TypeOK, EntryBooks, History, clock' = clock,
         NEW g \in Getters, FromMemory(g)
  PROVE  /\ row' = row /\ memory' \in Entries /\ SoundStill(memory')
         /\ \/ /\ wire' = wire
               /\ \E v \in Values : Answers(g, v) /\ Still(v, clock + 1 - Ttl - Delay)
            \/ Sends("set", g, row) /\ Goes(g, "filling") /\ answer' = answer
  <1>1. memory \in Entries /\ Sound(memory) /\ clock' \in Times /\ clock <= clock'
        /\ clock \in Int /\ row \in Values
    BY DEF TypeOK, EntryBooks, Times
  <1>3. CASE Hit(g)
    <2>1. row' = row /\ memory' = memory /\ wire' = wire /\ Answers(g, memory.value)
          /\ memory.expiresAt > clock
      BY <1>3 DEF Hit, Live
    <2>2. memory.value \in Values /\ memory.expiresAt - Ttl - Delay \in Int
          /\ clock + 1 - Ttl - Delay \in Int
          /\ memory.expiresAt - Ttl - Delay >= clock + 1 - Ttl - Delay
          /\ memory.expiresAt - Ttl - Delay <= clock
      BY <1>1, <2>1, Bounds DEF Entries, Times, Sound
    <2>3. Since(memory.value, memory.expiresAt - Ttl - Delay)
      BY <1>1 DEF Sound
    <2>4. Still(memory.value, memory.expiresAt - Ttl - Delay)
      BY <2>2, <2>3, SinceStays
    <2>5. replaced' \in [Setters -> Times \cup {Never}]
      BY HistoryTyped
    <2>6. Still(memory.value, clock + 1 - Ttl - Delay)
      BY <2>2, <2>4, <2>5 DEF Still, Values, Times, Never
    <2>7. SoundStill(memory')
      BY <1>1, <2>1, SoundStays
    <2>8. QED
      BY <1>1, <2>1, <2>2, <2>6, <2>7
  <1>4. CASE Miss(g)
    <2>1. row' = row
      BY <1>4 DEF Miss, Fill, Sends
    <2>2. \A t \in Int : Still(row, t)
      BY <2>1, RowStill
    <2>3. clock - Delay \in Int /\ clock + 1 - Ttl - Delay \in Int
      BY <1>1, Bounds
    <2>4. memory' \in Entries /\ SoundStill(memory')
      <3>1. memory' = memory \/ memory' = Fresh(row)
        BY <1>4 DEF Miss, Fill, Sends
      <3>2. SoundStill(memory)
        BY <1>1, SoundStays
      <3>3. Fresh(row) \in Entries /\ SoundStill(Fresh(row))
        BY <1>1, <2>2, <2>3, FreshSound, Bounds
      <3>4. QED
        BY <1>1, <3>1, <3>2, <3>3
    <2>5. Still("none", clock + 1 - Ttl - Delay) /\ "none" \in Values
      BY DEF Still, Values
    <2>6. Still(row, clock + 1 - Ttl - Delay)
      BY <2>2, <2>3
    <2>7. QED
      BY <1>1, <1>4, <2>1, <2>4, <2>5, <2>6 DEF Miss, Fill
  <1>5. QED
    BY <1>3, <1>4 DEF FromMemory
-----------------------------------------------------------------------------
(* What no step disturbs: the messages in transit before their delay has    *)
(* passed, and the answers given.                                           *)
LEMMA MessagesStay ==
  ASSUME TypeOK, History, CallsGoOn, MessageBooks, clock' = clock
  PROVE  \A m \in Elements(wire) \cup Elements(replies) : Good(m)'
  <1> SUFFICES ASSUME NEW m \in Elements(wire) \cup Elements(replies) PROVE Good(m)'
    OBVIOUS
  <1>1. Good(m)
    BY DEF MessageBooks
  <1>2. clock' \in Times /\ clock <= clock' /\ clock' <= m.at + Delay
    BY <1>1, Bounds DEF TypeOK, Good, Times
  <1>3. QED
    BY <1>1, <1>2, GoodStays

LEMMA AnswerStays ==
  ASSUME TypeOK, History, CallsGoOn, AnswerBooks, NEW g \in Getters, answer'[g] = answer[g]
  PROVE  Still(answer'[g], began'[g] + 1 - Ttl - Delay)
  <1>1. answer[g] \in Values /\ began[g] + 1 - Ttl - Delay \in Int
        /\ began[g] + 1 - Ttl - Delay <= clock
    BY Bounds DEF TypeOK, Times, AnswerBooks
  <1>2. Still(answer[g], began[g] + 1 - Ttl - Delay)
    BY <1>1, SinceStays DEF AnswerBooks
  <1>3. CASE pc[g] = "idle"
    BY <1>3 DEF AnswerBooks, Still
  <1>4. CASE pc[g] # "idle"
    BY <1>2, <1>4 DEF CallsGoOn
  <1>5. QED
    BY <1>3, <1>4

(* The parts of the invariant that a step has to show.                      *)
LEMMA StepIInv ==
  ASSUME History, TypeOK', SoundStill(memory'), SoundStill(redis'),
         redis'.value # "none" => redis'.expiresAt > clock', MessageBooks',
         \A g \in Getters : /\ began'[g] <= clock'
                            /\ pc'[g] = "idle" => answer'[g] = "none"
                            /\ Still(answer'[g], began'[g] + 1 - Ttl - Delay)
  PROVE  IInv'
  <1>1. RowBooks'
    BY HistoryRow
  <1>2. EntryBooks'
    BY DEF EntryBooks, Sound, SoundStill, Since, Still
  <1>3. AnswerBooks'
    BY DEF AnswerBooks, Since, Still
  <1>4. QED
    BY <1>1, <1>2, <1>3 DEF IInv

(* A SET sent with a value that is current.                                 *)
LEMMA NewSet ==
  ASSUME TypeOK, clock' = clock, NEW c \in Calls, NEW v \in Values, Still(v, clock),
         c \in Getters => pc'[c] # "idle" /\ began'[c] <= clock
  PROVE  Good([op |-> "set", call |-> c, value |-> v, at |-> clock])'
  BY Bounds DEF TypeOK, Good, Since, Still, Times

(* setKv: its value is current from here on, or was until this step.        *)
LEMMA SetKvStep ==
  ASSUME IInv, NEW s \in Setters, SetKv(s), History
  PROVE  IInv'
  <1> DEFINE m == [op |-> "set", call |-> s, value |-> s, at |-> clock]
  <1>0. TypeOK /\ RowBooks /\ EntryBooks /\ MessageBooks /\ AnswerBooks
    BY DEF IInv
  <1>1. clock' = clock /\ clock' \in Times /\ clock <= clock' /\ clock \in Int
        /\ redis' = redis /\ began' = began /\ answer' = answer /\ replies' = replies
    BY <1>0, Bounds DEF SetKv, TypeOK, Times
  <1>2. s \in Calls /\ s \in Values /\ s \notin Getters
    BY StorageAssumption DEF Calls, Values
  <1>3. CallsGoOn /\ (\A g \in Getters : pc'[g] = pc[g])
    BY <1>0, <1>1, <1>2 DEF SetKv, Goes, WriteRow, TypeOK, Calls, CallsGoOn
  <1>4. replaced' \in [Setters -> Times \cup {Never}]
    BY <1>0, HistoryTyped
  <1>5. Still(s, clock)
    BY <1>0, <1>1 DEF SetKv, Goes, WriteRow, TypeOK, History, Still, Current, Calls
  <1>6. /\ SoundStill(redis) /\ SoundStill(memory)
        /\ SoundStill(Fresh(s)) /\ Fresh(s) \in Entries
    BY <1>0, <1>1, <1>2, <1>5, SoundStays, FreshSound, Bounds DEF EntryBooks, TypeOK
  <1>7. memory' \in {memory, Fresh(s)} /\ row' \in {row, s}
    BY DEF SetKv, Sends, WriteRow
  <1>8. wire' \in Seq(Commands) /\ Elements(wire') \subseteq Elements(wire) \cup {m}
    BY <1>0, <1>2, SendsTyped DEF SetKv, TypeOK
  <1>9. pc' \in [Calls -> {"idle", "setting", "getting", "filling", "done"}]
        /\ (\A t \in Setters : pc'[t] \notin {"getting", "filling"})
    <2>1. Goes(s, "setting") \/ Goes(s, "done")
      BY DEF SetKv, WriteRow
    <2>2. QED
      BY <1>0, <2>1 DEF Goes, TypeOK, Calls
  <1>10. TypeOK'
    BY <1>0, <1>1, <1>2, <1>3, <1>4, <1>6, <1>7, <1>8, <1>9 DEF SetKv, TypeOK
  <1>11. Good(m)'
    BY <1>0, <1>1, <1>2, <1>5, NewSet
  <1>12. MessageBooks'
    <2> SUFFICES ASSUME NEW n \in (Elements(wire) \cup Elements(replies))' PROVE Good(n)'
      BY DEF MessageBooks
    <2>1. n \in Elements(wire) \cup Elements(replies) \/ n = m
      BY <1>1, <1>8 DEF Elements
    <2>2. QED
      BY <2>1, <1>0, <1>1, <1>3, <1>11, MessagesStay
  <1>13. QED
    BY <1>0, <1>1, <1>3, <1>6, <1>7, <1>10, <1>12, AnswerStays, StepIInv
       DEF EntryBooks, AnswerBooks

(* What is current at a time was current, or was so later than, before it.  *)
LEMMA StillEarlier ==
  ASSUME TypeOK, History
  PROVE  \A v \in Values, t \in Int, u \in Int : Still(v, t) /\ u <= t => Still(v, u)
  <1>1. replaced' \in [Setters -> Times \cup {Never}]
    BY HistoryTyped
  <1>2. QED
    BY <1>1 DEF Still, Values, Times, Never

(* getKv without Redis: at its start, or when a GET was of no use.          *)
LEMMA FromMemoryStep ==
  ASSUME IInv, History, NEW g \in Getters, FromMemory(g),
         UNCHANGED <<clock, connecting, cacheMode, open, redis, upsets>>,
         began' \in [Getters -> Times], began'[g] <= clock,
         \A h \in Getters : pc[h] # "idle" \/ h # g => began'[h] = began[h],
         replies' \in Seq(Replies), Elements(replies') \subseteq Elements(replies)
  PROVE  IInv'
  <1> DEFINE m == [op |-> "set", call |-> g, value |-> row, at |-> clock]
  <1>0. TypeOK /\ RowBooks /\ EntryBooks /\ MessageBooks /\ AnswerBooks
    BY DEF IInv
  <1>1. clock' = clock /\ clock' \in Times /\ clock <= clock' /\ clock \in Int
        /\ row \in Values /\ g \in Calls
    BY <1>0, Bounds DEF TypeOK, Times, Calls
  <1>2. row' = row /\ memory' \in Entries /\ SoundStill(memory')
    BY <1>0, <1>1, FromMemoryEffect
  <1>3. replaced' \in [Setters -> Times \cup {Never}]
    BY <1>0, HistoryTyped
  <1>4. SoundStill(redis)
    BY <1>0, <1>1, SoundStays DEF EntryBooks, TypeOK
  <1>5. CASE /\ wire' = wire
             /\ \E v \in Values : Answers(g, v) /\ Still(v, clock + 1 - Ttl - Delay)
    <2>1. PICK v \in Values : Answers(g, v) /\ Still(v, clock + 1 - Ttl - Delay)
      BY <1>5
    <2>2. pc' = [pc EXCEPT ![g] = "done"] /\ answer' = [answer EXCEPT ![g] = v]
      BY <2>1 DEF Answers, Goes
    <2>3. CallsGoOn
      BY <1>0, <2>2 DEF CallsGoOn, TypeOK, Calls
    <2>4. TypeOK'
      BY <1>0, <1>1, <1>2, <1>3, <1>5, <2>2, StorageAssumption DEF TypeOK, Calls
    <2>5. MessageBooks'
      <3>1. Elements(wire') = Elements(wire)
        BY <1>5
      <3>2. QED
        BY <1>0, <1>1, <2>3, <3>1, MessagesStay DEF MessageBooks, Elements
    <2>6. began'[g] + 1 - Ttl - Delay \in Int /\ clock + 1 - Ttl - Delay \in Int
          /\ began'[g] + 1 - Ttl - Delay <= clock + 1 - Ttl - Delay
      BY <1>1, Bounds DEF Times
    <2>7. Still(v, began'[g] + 1 - Ttl - Delay)
      BY <1>0, <2>1, <2>6, StillEarlier
    <2>8. ASSUME NEW h \in Getters
          PROVE  /\ began'[h] <= clock'
                 /\ pc'[h] = "idle" => answer'[h] = "none"
                 /\ Still(answer'[h], began'[h] + 1 - Ttl - Delay)
      <3>1. CASE h = g
        BY <1>0, <1>1, <2>2, <2>7, <3>1 DEF TypeOK, Calls
      <3>2. CASE h # g
        <4>1. answer'[h] = answer[h] /\ began'[h] = began[h] /\ pc'[h] = pc[h]
          BY <1>0, <2>2, <3>2 DEF TypeOK, Calls
        <4>2. QED
          BY <1>0, <1>1, <2>3, <4>1, AnswerStays DEF AnswerBooks
      <3>3. QED
        BY <3>1, <3>2
    <2>9. QED
      BY <1>0, <1>1, <1>2, <1>4, <2>4, <2>5, <2>8, StepIInv DEF EntryBooks
  <1>6. CASE Sends("set", g, row) /\ Goes(g, "filling") /\ answer' = answer
    <2>1. pc' = [pc EXCEPT ![g] = "filling"]
      BY <1>6 DEF Goes
    <2>2. CallsGoOn
      BY <1>0, <2>1 DEF CallsGoOn, TypeOK, Calls
    <2>3. wire' \in Seq(Commands) /\ Elements(wire') \subseteq Elements(wire) \cup {m}
      BY <1>0, <1>1, <1>6, SendsTyped
    <2>4. TypeOK'
      BY <1>0, <1>1, <1>2, <1>3, <1>6, <2>1, <2>3, StorageAssumption DEF TypeOK, Calls
    <2>5. ASSUME NEW n, n = m
          PROVE  Good(n)'
      <3>1. Still(row, clock)
        BY <1>0, <1>1, <1>2, RowStill
      <3>2. pc'[g] # "idle"
        BY <1>0, <1>1, <2>1 DEF TypeOK
      <3>3. n.op = "set" /\ n.call = g /\ n.value = row /\ n.at = clock
        BY <2>5
      <3>4. QED
        BY <1>1, <3>1, <3>2, <3>3, Bounds DEF Good, Since, Still, Times
    <2>6. MessageBooks'
      <3> SUFFICES ASSUME NEW n \in (Elements(wire) \cup Elements(replies))' PROVE Good(n)'
        BY DEF MessageBooks
      <3>1. n \in Elements(wire) \cup Elements(replies) \/ n = m
        BY <2>3 DEF Elements
      <3>2. QED
        BY <3>1, <1>0, <1>1, <2>2, <2>5, MessagesStay
    <2>7. ASSUME NEW h \in Getters
          PROVE  began'[h] <= clock' /\ (pc'[h] = "idle" => answer'[h] = "none")
      BY <1>0, <1>1, <1>6, <2>1 DEF TypeOK, Calls, AnswerBooks
    <2>8. QED
      BY <1>0, <1>1, <1>2, <1>4, <1>6, <2>2, <2>4, <2>6, <2>7, AnswerStays, StepIInv
         DEF EntryBooks
  <1>7. QED
    BY <1>0, <1>1, <1>5, <1>6, FromMemoryEffect

(* getKv: it asks Redis, or goes on without.                                *)
LEMMA GetKvStep ==
  ASSUME IInv, NEW g \in Getters, GetKv(g), History
  PROVE  IInv'
  <1> DEFINE m == [op |-> "get", call |-> g, value |-> "none", at |-> clock]
  <1>0. TypeOK /\ RowBooks /\ EntryBooks /\ MessageBooks /\ AnswerBooks
    BY DEF IInv
  <1>1. clock' = clock /\ clock' \in Times /\ clock <= clock' /\ clock \in Int
        /\ redis' = redis /\ replies' = replies /\ g \in Calls /\ pc[g] = "idle"
    BY <1>0, Bounds DEF GetKv, TypeOK, Times, Calls
  <1>2. began' = [began EXCEPT ![g] = clock] /\ began' \in [Getters -> Times] /\ began'[g] = clock
    BY <1>0, <1>1 DEF GetKv, TypeOK
  <1>3. CASE cacheMode = "memory" /\ FromMemory(g)
    <2>1. \A h \in Getters : pc[h] # "idle" \/ h # g => began'[h] = began[h]
      BY <1>0, <1>1, <1>2 DEF TypeOK
    <2>2. UNCHANGED <<clock, connecting, cacheMode, open, redis, upsets>>
      BY DEF GetKv
    <2>3. replies' \in Seq(Replies) /\ Elements(replies') \subseteq Elements(replies)
      BY <1>0, <1>1 DEF TypeOK
    <2>4. QED
      BY <1>1, <1>2, <1>3, <2>1, <2>2, <2>3, FromMemoryStep
  <1>4. CASE Sends("get", g, "none") /\ Goes(g, "getting") /\ answer' = answer
    <2>1. pc' = [pc EXCEPT ![g] = "getting"] /\ row' = row /\ memory' = memory
      BY <1>4 DEF Goes, Sends
    <2>2. CallsGoOn
      BY <1>0, <1>1, <1>2, <2>1 DEF CallsGoOn, TypeOK, Calls
    <2>3. wire' \in Seq(Commands) /\ Elements(wire') \subseteq Elements(wire) \cup {m}
      BY <1>0, <1>1, <1>4, SendsTyped DEF Values
    <2>4. replaced' \in [Setters -> Times \cup {Never}]
      BY <1>0, HistoryTyped
    <2>5. TypeOK'
      BY <1>0, <1>1, <1>2, <2>1, <2>3, <2>4, <1>4, StorageAssumption
         DEF GetKv, TypeOK, Calls
    <2>6. Good(m)'
      BY <1>0, <1>1, <1>2, <2>1, Bounds DEF TypeOK, Good, Since, Values
    <2>7. MessageBooks'
      <3> SUFFICES ASSUME NEW n \in (Elements(wire) \cup Elements(replies))' PROVE Good(n)'
        BY DEF MessageBooks
      <3>1. n \in Elements(wire) \cup Elements(replies) \/ n = m
        BY <1>1, <2>3 DEF Elements
      <3>2. QED
        BY <3>1, <1>0, <1>1, <2>2, <2>6, MessagesStay
    <2>8. ASSUME NEW h \in Getters
          PROVE  began'[h] <= clock' /\ (pc'[h] = "idle" => answer'[h] = "none")
      BY <1>0, <1>1, <1>2, <1>4, <2>1 DEF TypeOK, Calls, AnswerBooks
    <2>9. SoundStill(redis') /\ SoundStill(memory')
      BY <1>0, <1>1, <2>1, SoundStays DEF EntryBooks, TypeOK
    <2>10. QED
      BY <1>0, <1>1, <1>4, <2>2, <2>5, <2>7, <2>8, <2>9, AnswerStays, StepIInv
         DEF EntryBooks
  <1>5. QED
    BY <1>3, <1>4 DEF GetKv

(* A step that leaves calls and entries alone.                              *)
LEMMA QuietStep ==
  ASSUME IInv, History, TypeOK', MessageBooks',
         UNCHANGED <<clock, pc, began, answer>>,
         SoundStill(memory'), SoundStill(redis'),
         redis'.value # "none" => redis'.expiresAt > clock
  PROVE  IInv'
  <1>0. TypeOK /\ AnswerBooks
    BY DEF IInv
  <1>1. CallsGoOn
    BY DEF CallsGoOn
  <1>2. QED
    BY <1>0, <1>1, AnswerStays, StepIInv DEF AnswerBooks

(* getStatus sends a ping, which belongs to no call.                        *)
LEMMA GetStatusStep ==
  ASSUME IInv, GetStatus, History
  PROVE  IInv'
  <1> DEFINE m == [op |-> "ping", call |-> "status", value |-> "none", at |-> clock]
  <1>0. TypeOK /\ EntryBooks /\ MessageBooks
    BY DEF IInv
  <1>1. UNCHANGED <<clock, connecting, cacheMode, open, row, memory, redis, replies, pc, began, answer>>
        /\ upsets' \in 0..MaxUpsets
    BY <1>0, StorageAssumption DEF GetStatus, Sends, Upset, TypeOK
  <1>2. CallsGoOn /\ clock \in Times /\ clock \in Int
    BY <1>0, <1>1, Bounds DEF CallsGoOn, TypeOK, Times
  <1>3. wire' \in Seq(Commands) /\ Elements(wire') \subseteq Elements(wire) \cup {m}
    BY <1>0, SendsTyped DEF GetStatus, Values
  <1>4. TypeOK'
    BY <1>0, <1>1, <1>3, HistoryTyped DEF TypeOK
  <1>5. Good(m)'
    BY <1>1, <1>2, Bounds, StorageAssumption DEF Good, Values
  <1>6. MessageBooks'
    <2> SUFFICES ASSUME NEW n \in (Elements(wire) \cup Elements(replies))' PROVE Good(n)'
      BY DEF MessageBooks
    <2>1. n \in Elements(wire) \cup Elements(replies) \/ n = m
      BY <1>1, <1>3 DEF Elements
    <2>2. QED
      BY <2>1, <1>0, <1>1, <1>2, <1>5, MessagesStay
  <1>7. QED
    BY <1>0, <1>1, <1>2, <1>4, <1>6, SoundStays, QuietStep DEF EntryBooks, TypeOK

(* Redis is connected or given up.                                          *)
LEMMA InitRedisStep ==
  ASSUME IInv, NEW mode \in {"redis", "memory"}, InitRedis(mode), History
  PROVE  IInv'
  <1>0. TypeOK /\ EntryBooks /\ MessageBooks
    BY DEF IInv
  <1>1. UNCHANGED <<clock, open, row, memory, redis, wire, replies, pc, began, answer, upsets>>
    BY DEF InitRedis, store
  <1>2. CallsGoOn /\ clock \in Times /\ clock \in Int
    BY <1>0, <1>1, Bounds DEF CallsGoOn, TypeOK, Times
  <1>3. TypeOK'
    BY <1>0, <1>1, HistoryTyped DEF InitRedis, TypeOK
  <1>4. MessageBooks'
    BY <1>0, <1>1, <1>2, MessagesStay DEF MessageBooks, Elements
  <1>5. QED
    BY <1>0, <1>1, <1>2, <1>3, <1>4, SoundStays, QuietStep DEF EntryBooks, TypeOK

(* Redis loses its entry.                                                   *)
LEMMA RedisEvictsStep ==
  ASSUME IInv, RedisEvicts, History
  PROVE  IInv'
  <1>0. TypeOK /\ EntryBooks /\ MessageBooks
    BY DEF IInv
  <1>1. UNCHANGED <<clock, connecting, cacheMode, open, row, memory, wire, replies, pc, began, answer>>
        /\ redis' = NoEntry /\ upsets' \in 0..MaxUpsets
    BY <1>0, StorageAssumption DEF RedisEvicts, Upset, TypeOK
  <1>2. CallsGoOn /\ clock \in Times /\ clock \in Int
    BY <1>0, <1>1, Bounds DEF CallsGoOn, TypeOK, Times
  <1>3. NoEntry \in Entries /\ SoundStill(NoEntry) /\ NoEntry.value = "none"
    BY <1>1, <1>2, Bounds DEF NoEntry, Entry, Entries, Values, SoundStill, Still, Times
  <1>4. TypeOK'
    BY <1>0, <1>1, <1>3, HistoryTyped DEF TypeOK
  <1>5. MessageBooks'
    BY <1>0, <1>1, <1>2, MessagesStay DEF MessageBooks, Elements
  <1>6. QED
    BY <1>0, <1>1, <1>2, <1>3, <1>4, <1>5, SoundStays, QuietStep DEF EntryBooks, TypeOK

(* Redis executes or fails the next command: what it stores, and what it    *)
(* replies, is as current as the command, or as its entry, was.             *)
LEMMA RedisAnswersStep ==
  ASSUME IInv, NEW ok \in BOOLEAN, RedisAnswers(ok), History
  PROVE  IInv'
  <1> DEFINE cmd == Head(wire)
             m   == ReplyTo(Head(wire), ok)
  <1>0. TypeOK /\ EntryBooks /\ MessageBooks
    BY DEF IInv
  <1>1. UNCHANGED <<clock, connecting, cacheMode, open, row, memory, pc, began, answer, upsets>>
    BY DEF RedisAnswers
  <1>2. CallsGoOn /\ clock \in Times /\ clock \in Int /\ redis \in Entries
    BY <1>0, <1>1, Bounds DEF CallsGoOn, TypeOK, Times
  <1>3. /\ Head(wire) \in Commands /\ Head(wire) \in Elements(wire)
        /\ wire' \in Seq(Commands) /\ Elements(wire') \subseteq Elements(wire)
    BY <1>0, ShorterQueue DEF RedisAnswers, TypeOK
  <1>4. Good(Head(wire))
    BY <1>0, <1>3 DEF MessageBooks
  <1>5. m \in Replies
    BY <1>2, <1>3 DEF ReplyTo, Replies, Commands, Entries
  <1>6. replies' \in Seq(Replies) /\ Elements(replies') \subseteq Elements(replies) \cup {m}
    <2>1. replies' = Append(replies, m) /\ replies \in Seq(Replies)
      BY <1>0 DEF RedisAnswers, TypeOK
    <2> HIDE DEF m
    <2>2. QED
      BY <1>5, <2>1, LongerQueue
  <1>7. cmd.op = "set" => Fresh(cmd.value) \in Entries /\ SoundStill(Fresh(cmd.value))
    <2> SUFFICES ASSUME cmd.op = "set" PROVE Fresh(cmd.value) \in Entries /\ SoundStill(Fresh(cmd.value))
      OBVIOUS
    <2>1. cmd.value \in Values /\ cmd.at \in Int /\ cmd.at <= clock /\ clock - Delay <= cmd.at
          /\ Since(cmd.value, cmd.at)
      BY <1>2, <1>4, Bounds DEF Good, Times
    <2>2. Still(cmd.value, cmd.at)
      BY <1>0, <2>1, SinceStays
    <2>3. QED
      BY <1>0, <1>1, <2>1, <2>2, FreshSound
  <1>8. SoundStill(redis) /\ SoundStill(memory)
    BY <1>0, <1>1, <1>2, SoundStays DEF EntryBooks, TypeOK
  <1>9. redis' = redis \/ (cmd.op = "set" /\ redis' = Fresh(cmd.value))
    BY DEF RedisAnswers, Executed
  <1>10. redis' \in Entries /\ SoundStill(redis')
         /\ (redis'.value # "none" => redis'.expiresAt > clock)
    <2>1. Fresh(cmd.value).expiresAt > clock
      BY <1>2, Bounds DEF Fresh, Entry
    <2>2. QED
      BY <1>0, <1>2, <1>7, <1>8, <1>9, <2>1 DEF EntryBooks
  <1>11. TypeOK'
    BY <1>0, <1>1, <1>3, <1>6, <1>10, HistoryTyped DEF TypeOK
  <1>12. ASSUME NEW n, n = m
         PROVE  Good(n)'
    <2>1. n.op = cmd.op /\ n.call = cmd.call /\ n.at = cmd.at
          /\ n.value = IF cmd.op = "get" THEN redis.value ELSE cmd.value
      BY <1>12 DEF ReplyTo
    <2>2. n.at \in Times /\ n.at \in Int /\ n.at <= clock /\ clock <= n.at + Delay
          /\ n.value \in Values
          /\ (n.op = "set" => n.call \in Calls) /\ (n.op = "get" => n.call \in Getters)
          /\ (n.call \in Getters => pc[n.call] # "idle" /\ began[n.call] <= n.at)
      BY <1>2, <1>4, <2>1, Bounds DEF Good, Entries, Times
    <2>3. n.op = "set" => Still(n.value, n.at)
      BY <1>0, <1>4, <2>1, <2>2, SinceStays DEF Good
    <2>4. n.op = "get" => Still(n.value, n.at + 1 - Ttl - Delay)
      <3> SUFFICES ASSUME n.op = "get" PROVE Still(n.value, n.at + 1 - Ttl - Delay)
        OBVIOUS
      <3>1. n.value = redis.value
        BY <2>1
      <3>2. CASE redis.value = "none"
        BY <3>1, <3>2 DEF Still
      <3>3. CASE redis.value # "none"
        <4>1. redis.expiresAt - Ttl - Delay \in Int /\ redis.expiresAt - Ttl - Delay <= clock
              /\ n.at + 1 - Ttl - Delay \in Int
              /\ n.at + 1 - Ttl - Delay <= redis.expiresAt - Ttl - Delay
          BY <1>0, <1>2, <2>2, <3>3, Bounds DEF EntryBooks, Sound, Entries
        <4>2. Still(redis.value, redis.expiresAt - Ttl - Delay)
          BY <1>8 DEF SoundStill
        <4>3. QED
          BY <1>0, <2>2, <3>1, <4>1, <4>2, StillEarlier
      <3>4. QED
        BY <3>2, <3>3
    <2>5. QED
      BY <1>1, <2>2, <2>3, <2>4 DEF Good, Since, Still
  <1>13. MessageBooks'
    <2> SUFFICES ASSUME NEW n \in (Elements(wire) \cup Elements(replies))' PROVE Good(n)'
      BY DEF MessageBooks
    <2>1. n \in Elements(wire) \cup Elements(replies) \/ n = m
      BY <1>3, <1>6 DEF Elements
    <2>2. CASE n = m
      BY <1>12, <2>2
    <2>3. CASE n \in Elements(wire) \cup Elements(replies)
      BY <2>3, <1>0, <1>1, <1>2, MessagesStay
    <2>4. QED
      BY <2>1, <2>2, <2>3
  <1>14. QED
    BY <1>1, <1>8, <1>10, <1>11, <1>13, QuietStep

(* The reply to a SET: a failed one puts its value into memory; the call    *)
(* ends, and a getKv answers with the value.                                *)
LEMMA SetReturnsStep ==
  ASSUME IInv, Reply, SetReturns(Head(replies)), History
  PROVE  IInv'
  <1> DEFINE r == Head(replies)
  <1>0. TypeOK /\ RowBooks /\ EntryBooks /\ MessageBooks /\ AnswerBooks
    BY DEF IInv
  <1>1. UNCHANGED <<clock, connecting, cacheMode, open, redis, wire, began, upsets>>
        /\ clock \in Times /\ clock \in Int /\ r.op = "set"
    BY <1>0, Bounds DEF Reply, SetReturns, TypeOK, Times
  <1>2. /\ r \in Replies /\ r \in Elements(replies)
        /\ replies' \in Seq(Replies) /\ Elements(replies') \subseteq Elements(replies)
    BY <1>0, ShorterQueue DEF Reply, TypeOK
  <1>3. Good(r)
    BY <1>0, <1>2 DEF MessageBooks
  <1>4. r.value \in Values /\ r.at \in Int /\ r.at <= clock /\ clock - Delay <= r.at
        /\ r.call \in Calls /\ Since(r.value, r.at)
    BY <1>1, <1>3, Bounds DEF Good, Times
  <1>5. Still(r.value, r.at)
    BY <1>0, <1>4, SinceStays
  <1>6. /\ SoundStill(redis) /\ SoundStill(memory)
        /\ Fresh(r.value) \in Entries /\ SoundStill(Fresh(r.value))
    BY <1>0, <1>1, <1>4, <1>5, SoundStays, FreshSound DEF EntryBooks, TypeOK
  <1>7. memory' \in Entries /\ SoundStill(memory')
    BY <1>0, <1>6 DEF SetReturns, TypeOK
  <1>8. pc' = [pc EXCEPT ![r.call] = "done"] /\ pc[r.call] # "idle"
    BY DEF SetReturns, WriteRow, Answers, Goes
  <1>9. CallsGoOn
    BY <1>0, <1>1, <1>8 DEF CallsGoOn, TypeOK, Calls
  <1>10. MessageBooks'
    <2> SUFFICES ASSUME NEW n \in (Elements(wire) \cup Elements(replies))' PROVE Good(n)'
      BY DEF MessageBooks
    <2>1. n \in Elements(wire) \cup Elements(replies)
      BY <1>1, <1>2 DEF Elements
    <2>2. QED
      BY <2>1, <1>0, <1>1, <1>9, MessagesStay
  <1>11. CASE pc[r.call] = "setting" /\ WriteRow(r.call) /\ answer' = answer
    <2>1. r.call \in Setters
      BY <1>0, <1>4, <1>11 DEF TypeOK, Calls
    <2>2. TypeOK'
      BY <1>0, <1>1, <1>2, <1>7, <1>8, <1>11, <2>1, HistoryTyped
         DEF WriteRow, TypeOK, Values, Calls
    <2>3. \A h \in Getters : began'[h] <= clock' /\ (pc'[h] = "idle" => answer'[h] = "none")
      BY <1>0, <1>1, <1>9, <1>11 DEF AnswerBooks, CallsGoOn
    <2>4. QED
      BY <1>0, <1>1, <1>6, <1>7, <1>9, <1>10, <1>11, <2>2, <2>3, AnswerStays, StepIInv
         DEF EntryBooks
  <1>12. CASE pc[r.call] = "filling" /\ Answers(r.call, r.value) /\ row' = row
    <2>1. r.call \in Getters /\ answer' = [answer EXCEPT ![r.call] = r.value]
      BY <1>0, <1>4, <1>12 DEF TypeOK, Calls, Answers
    <2>2. TypeOK'
      BY <1>0, <1>1, <1>2, <1>4, <1>7, <1>8, <1>12, <2>1, HistoryTyped DEF TypeOK, Calls
    <2>3. ASSUME NEW h \in Getters
          PROVE  /\ began'[h] <= clock'
                 /\ pc'[h] = "idle" => answer'[h] = "none"
                 /\ Still(answer'[h], began'[h] + 1 - Ttl - Delay)
      <3>1. CASE h = r.call
        <4>1. answer'[h] = r.value /\ began'[h] = began[h] /\ pc'[h] = "done"
              /\ began[h] \in Int /\ began[h] <= clock
          BY <1>0, <1>1, <1>8, <2>1, <3>1, Bounds DEF TypeOK, Calls, AnswerBooks, Times
        <4>2. began[h] <= r.at
          BY <1>3, <2>1, <3>1 DEF Good
        <4>3. began[h] + 1 - Ttl - Delay \in Int /\ began[h] + 1 - Ttl - Delay <= r.at
          BY <1>4, <4>1, <4>2, Bounds
        <4>4. Still(r.value, began[h] + 1 - Ttl - Delay)
          BY <1>0, <1>4, <1>5, <4>3, StillEarlier
        <4>5. QED
          BY <1>1, <4>1, <4>4
      <3>2. CASE h # r.call
        <4>1. answer'[h] = answer[h] /\ began'[h] = began[h] /\ pc'[h] = pc[h]
          BY <1>0, <1>1, <1>8, <2>1, <3>2 DEF TypeOK, Calls
        <4>2. QED
          BY <1>0, <1>1, <1>9, <4>1, AnswerStays DEF AnswerBooks
      <3>3. QED
        BY <3>1, <3>2
    <2>4. QED
      BY <1>0, <1>1, <1>6, <1>7, <1>10, <2>2, <2>3, StepIInv DEF EntryBooks
  <1>13. QED
    BY <1>11, <1>12 DEF SetReturns

(* The reply to a GET: it is the answer, or getKv goes on without.          *)
LEMMA GetReturnsStep ==
  ASSUME IInv, Reply, GetReturns(Head(replies)), History
  PROVE  IInv'
  <1> DEFINE r == Head(replies)
             g == r.call
  <1>0. TypeOK /\ RowBooks /\ EntryBooks /\ MessageBooks /\ AnswerBooks
    BY DEF IInv
  <1>1. UNCHANGED <<clock, connecting, cacheMode, open, redis, began, upsets>>
        /\ clock \in Times /\ clock \in Int /\ r.op = "get"
    BY <1>0, Bounds DEF Reply, GetReturns, TypeOK, Times
  <1>2. /\ r \in Replies /\ r \in Elements(replies)
        /\ replies' \in Seq(Replies) /\ Elements(replies') \subseteq Elements(replies)
    BY <1>0, ShorterQueue DEF Reply, TypeOK
  <1>3. Good(r)
    BY <1>0, <1>2 DEF MessageBooks
  <1>4. /\ g \in Getters /\ pc[g] # "idle" /\ began[g] <= r.at /\ began[g] \in Int
        /\ r.value \in Values /\ r.at \in Int /\ r.at <= clock
        /\ Since(r.value, r.at + 1 - Ttl - Delay)
    BY <1>0, <1>1, <1>3, Bounds DEF Good, Times, TypeOK
  <1>5. CASE FromMemory(g)
    <2>1. began' \in [Getters -> Times] /\ began'[g] <= clock
      BY <1>0, <1>1, <1>4 DEF TypeOK, AnswerBooks
    <2> HIDE DEF g
    <2>2. QED
      BY <1>1, <1>2, <1>4, <1>5, <2>1, FromMemoryStep
  <1>6. CASE Answers(g, r.value) /\ UNCHANGED <<row, memory, wire>>
    <2>1. pc' = [pc EXCEPT ![g] = "done"] /\ answer' = [answer EXCEPT ![g] = r.value]
      BY <1>6 DEF Answers, Goes
    <2>2. CallsGoOn
      BY <1>0, <1>1, <2>1 DEF CallsGoOn, TypeOK, Calls
    <2>3. TypeOK'
      BY <1>0, <1>1, <1>2, <1>4, <1>6, <2>1, HistoryTyped, StorageAssumption DEF TypeOK, Calls
    <2>4. MessageBooks'
      <3> SUFFICES ASSUME NEW n \in (Elements(wire) \cup Elements(replies))' PROVE Good(n)'
        BY DEF MessageBooks
      <3>1. n \in Elements(wire) \cup Elements(replies)
        BY <1>2, <1>6 DEF Elements
      <3>2. QED
        BY <3>1, <1>0, <1>1, <2>2, MessagesStay
    <2>5. Still(r.value, began[g] + 1 - Ttl - Delay)
      <3>1. /\ r.at + 1 - Ttl - Delay \in Int /\ r.at + 1 - Ttl - Delay <= clock
            /\ began[g] + 1 - Ttl - Delay \in Int
            /\ began[g] + 1 - Ttl - Delay <= r.at + 1 - Ttl - Delay
        BY <1>1, <1>4, Bounds
      <3>2. Still(r.value, r.at + 1 - Ttl - Delay)
        BY <1>0, <1>4, <3>1, SinceStays
      <3>3. QED
        BY <1>0, <1>4, <3>1, <3>2, StillEarlier
    <2>6. ASSUME NEW h \in Getters
          PROVE  /\ began'[h] <= clock'
                 /\ pc'[h] = "idle" => answer'[h] = "none"
                 /\ Still(answer'[h], began'[h] + 1 - Ttl - Delay)
      <3>1. CASE h = g
        BY <1>0, <1>1, <1>4, <2>1, <2>5, <3>1 DEF TypeOK, Calls, AnswerBooks
      <3>2. CASE h # g
        <4>1. answer'[h] = answer[h] /\ began'[h] = began[h] /\ pc'[h] = pc[h]
          BY <1>0, <1>1, <2>1, <3>2 DEF TypeOK, Calls
        <4>2. QED
          BY <1>0, <1>1, <2>2, <4>1, AnswerStays DEF AnswerBooks
      <3>3. QED
        BY <3>1, <3>2
    <2>7. SoundStill(redis') /\ SoundStill(memory')
      BY <1>0, <1>1, <1>6, SoundStays DEF EntryBooks, TypeOK
    <2>8. QED
      BY <1>0, <1>1, <2>3, <2>4, <2>6, <2>7, StepIInv DEF EntryBooks
  <1>7. QED
    BY <1>5, <1>6 DEF GetReturns

(* The reply to a ping.                                                     *)
LEMMA PingReturnsStep ==
  ASSUME IInv, Reply, PingReturns(Head(replies)), History
  PROVE  IInv'
  <1>0. TypeOK /\ EntryBooks /\ MessageBooks
    BY DEF IInv
  <1>1. UNCHANGED <<clock, connecting, open, row, memory, redis, wire, pc, began, answer, upsets>>
        /\ cacheMode' \in {cacheMode, "memory"}
    BY DEF Reply, PingReturns
  <1>2. CallsGoOn /\ clock \in Times /\ clock \in Int
    BY <1>0, <1>1, Bounds DEF CallsGoOn, TypeOK, Times
  <1>3. replies' \in Seq(Replies) /\ Elements(replies') \subseteq Elements(replies)
    BY <1>0, ShorterQueue DEF Reply, TypeOK
  <1>4. TypeOK'
    BY <1>0, <1>1, <1>3, HistoryTyped DEF TypeOK
  <1>5. MessageBooks'
    <2> SUFFICES ASSUME NEW n \in (Elements(wire) \cup Elements(replies))' PROVE Good(n)'
      BY DEF MessageBooks
    <2>1. n \in Elements(wire) \cup Elements(replies)
      BY <1>1, <1>3 DEF Elements
    <2>2. QED
      BY <2>1, <1>0, <1>1, <1>2, MessagesStay
  <1>6. QED
    BY <1>0, <1>1, <1>2, <1>4, <1>5, SoundStays, QuietStep DEF EntryBooks, TypeOK

(* A restart ends every call under way; Redis may store one of the values   *)
(* on their way to it.                                                      *)
LEMMA RestartStep ==
  ASSUME IInv, Restart, History
  PROVE  IInv'
  <1>0. TypeOK /\ EntryBooks /\ MessageBooks /\ AnswerBooks
    BY DEF IInv
  <1>1. /\ UNCHANGED <<clock, row, began, answer>> /\ clock \in Times /\ clock \in Int
        /\ memory' = NoEntry /\ wire' = <<>> /\ replies' = <<>>
        /\ upsets' \in 0..MaxUpsets
        /\ pc' = [c \in Calls |-> IF pc[c] = "idle" THEN "idle" ELSE "done"]
    BY <1>0, Bounds, StorageAssumption DEF Restart, Upset, TypeOK, Times
  <1>2. NoEntry \in Entries /\ SoundStill(NoEntry)
    BY <1>1, Bounds DEF NoEntry, Entry, Entries, Values, SoundStill, Still, Times
  <1>3. CallsGoOn
    BY <1>1 DEF CallsGoOn, Calls
  <1>4. redis' \in Entries /\ SoundStill(redis')
        /\ (redis'.value # "none" => redis'.expiresAt > clock)
    <2>1. CASE redis' = redis
      BY <1>0, <1>1, <2>1, SoundStays DEF EntryBooks, TypeOK
    <2>2. ASSUME NEW i \in DOMAIN wire, wire[i].op = "set", redis' = Fresh(wire[i].value)
          PROVE  redis' \in Entries /\ SoundStill(redis') /\ redis'.expiresAt > clock
      <3>1. Good(wire[i])
        BY <1>0 DEF MessageBooks, Elements
      <3>2. wire[i].value \in Values /\ wire[i].at \in Int /\ wire[i].at <= clock
            /\ clock - Delay <= wire[i].at /\ Since(wire[i].value, wire[i].at)
        BY <1>1, <2>2, <3>1, Bounds DEF Good, Times
      <3>3. Still(wire[i].value, wire[i].at)
        BY <1>0, <3>2, SinceStays
      <3>4. Fresh(wire[i].value) \in Entries /\ SoundStill(Fresh(wire[i].value))
        BY <1>0, <1>1, <3>2, <3>3, FreshSound
      <3>5. Fresh(wire[i].value).expiresAt > clock
        BY <1>1, Bounds DEF Fresh, Entry
      <3>6. QED
        BY <2>2, <3>4, <3>5
    <2>3. QED
      BY <2>1, <2>2 DEF Restart
  <1>5. TypeOK'
    BY <1>0, <1>1, <1>2, <1>4, HistoryTyped DEF Restart, TypeOK, Calls
  <1>6. MessageBooks'
    BY <1>1 DEF MessageBooks, Elements
  <1>7. \A h \in Getters : began'[h] <= clock' /\ (pc'[h] = "idle" => answer'[h] = "none")
    BY <1>0, <1>1 DEF AnswerBooks, Calls
  <1>8. QED
    BY <1>0, <1>1, <1>2, <1>3, <1>4, <1>5, <1>6, <1>7, AnswerStays, StepIInv

(* The clock: no message outlives its delay, no entry in Redis its time.    *)
LEMMA TickStep ==
  ASSUME IInv, Tick, History
  PROVE  IInv'
  <1>0. TypeOK /\ EntryBooks /\ MessageBooks /\ AnswerBooks
    BY DEF IInv
  <1>1. /\ UNCHANGED <<connecting, cacheMode, open, row, memory, wire, replies, pc, began,
                        answer, upsets>>
        /\ clock' = clock + 1 /\ clock' \in Times /\ clock <= clock' /\ clock \in Int
    BY <1>0, Bounds DEF Tick, TypeOK, Times
  <1>2. CallsGoOn
    BY <1>1 DEF CallsGoOn
  <1>3. NoEntry \in Entries /\ SoundStill(NoEntry) /\ NoEntry.value = "none"
    BY <1>1, Bounds DEF NoEntry, Entry, Entries, Values, SoundStill, Still, Times
  <1>4. SoundStill(memory) /\ SoundStill(redis)
    BY <1>0, <1>1, SoundStays DEF EntryBooks, TypeOK
  <1>5. redis' \in Entries /\ SoundStill(redis')
        /\ (redis'.value # "none" => redis'.expiresAt > clock')
    BY <1>0, <1>3, <1>4 DEF Tick, TypeOK
  <1>6. TypeOK'
    BY <1>0, <1>1, <1>5, HistoryTyped DEF TypeOK
  <1>7. MessageBooks'
    <2> SUFFICES ASSUME NEW n \in (Elements(wire) \cup Elements(replies))' PROVE Good(n)'
      BY DEF MessageBooks
    <2>1. n \in Elements(wire) \cup Elements(replies)
      BY <1>1 DEF Elements
    <2>2. Good(n)
      BY <1>0, <2>1 DEF MessageBooks
    <2>3. clock < n.at + Delay
      BY <2>1 DEF Tick, Prompt, Elements
    <2>4. clock' <= n.at + Delay
      BY <1>1, <2>2, <2>3, Bounds DEF Good, Times
    <2>5. QED
      BY <1>0, <1>1, <1>2, <2>2, <2>4, GoodStays
  <1>8. \A h \in Getters : began'[h] <= clock' /\ (pc'[h] = "idle" => answer'[h] = "none")
    BY <1>0, <1>1, Bounds DEF AnswerBooks, TypeOK, Times
  <1>9. QED
    BY <1>0, <1>1, <1>2, <1>4, <1>5, <1>6, <1>7, <1>8, AnswerStays, StepIInv

(* No step breaks the invariant.                                            *)
LEMMA NextIInv == IInv /\ [Next]_vars => IInv'
  <1> SUFFICES ASSUME IInv, [Next]_vars PROVE IInv'
    OBVIOUS
  <1>1. CASE Next
    <2>0. History
      BY <1>1 DEF Next
    <2>1. ASSUME NEW s \in Setters, SetKv(s) PROVE IInv'
      BY <2>0, <2>1, SetKvStep
    <2>2. ASSUME NEW g \in Getters, GetKv(g) PROVE IInv'
      BY <2>0, <2>2, GetKvStep
    <2>3. ASSUME NEW mode \in {"redis", "memory"}, InitRedis(mode) PROVE IInv'
      BY <2>0, <2>3, InitRedisStep
    <2>4. ASSUME NEW ok \in BOOLEAN, RedisAnswers(ok) PROVE IInv'
      BY <2>0, <2>4, RedisAnswersStep
    <2>5. CASE GetStatus
      BY <2>0, <2>5, GetStatusStep
    <2>6. CASE Reply
      <3>1. \/ SetReturns(Head(replies)) \/ GetReturns(Head(replies))
            \/ PingReturns(Head(replies))
        BY <2>6 DEF Reply
      <3>2. QED
        BY <2>0, <2>6, <3>1, SetReturnsStep, GetReturnsStep, PingReturnsStep
    <2>7. CASE RedisEvicts
      BY <2>0, <2>7, RedisEvictsStep
    <2>8. CASE Restart
      BY <2>0, <2>8, RestartStep
    <2>9. CASE Tick
      BY <2>0, <2>9, TickStep
    <2>10. QED
      BY <1>1, <2>1, <2>2, <2>3, <2>4, <2>5, <2>6, <2>7, <2>8, <2>9 DEF Next
  <1>2. CASE UNCHANGED vars
    BY <1>2 DEF vars, store, IInv, TypeOK, RowBooks, EntryBooks, MessageBooks, AnswerBooks,
       Sound, Good, Since, Current, Elements
  <1>3. QED
    BY <1>1, <1>2

(* The invariant holds throughout.                                          *)
LEMMA Invariance == Spec => []IInv
  BY InitIInv, NextIInv, PTL DEF Spec
-----------------------------------------------------------------------------
(* Every variable keeps its type, whatever Redis, a restart or the calls do *)
(* between the awaits of getKv and setKv.                                   *)
THEOREM TypeCorrect == Spec => []TypeOK
  <1>1. IInv => TypeOK
    BY DEF IInv
  <1>2. QED
    BY <1>1, Invariance, PTL

(* A value that was replaced is gone from both caches once its time to live *)
(* and the delay of a command have passed, for any number of calls of setKv *)
(* and getKv, any time to live and any delay.                               *)
THEOREM StaleEntriesGone == Spec => []CacheExpires
  <1>1. IInv => CacheExpires
    <2> SUFFICES ASSUME IInv PROVE ~Expired(Live) /\ ~Expired(redis.value)
      BY DEF CacheExpires
    <2>0. TypeOK /\ EntryBooks
      BY DEF IInv
    <2>1. clock \in Int /\ replaced \in [Setters -> Times \cup {Never}]
          /\ memory \in Entries /\ redis \in Entries
      BY <2>0, Bounds DEF TypeOK, Times
    <2>2. ASSUME NEW e \in Entries, Sound(e), e.expiresAt > clock
          PROVE  ~Expired(e.value)
      BY <2>1, <2>2, Bounds DEF Sound, Since, Expired, Entries, Values, Times, Never
    <2>3. ~Expired(Live)
      BY <2>0, <2>1, <2>2 DEF Live, EntryBooks, Expired
    <2>4. ~Expired(redis.value)
      BY <2>0, <2>1, <2>2 DEF EntryBooks, Expired
    <2>5. QED
      BY <2>3, <2>4
  <1>2. QED
    BY <1>1, Invariance, PTL

(* No getKv answers with a value replaced that long before the call began.  *)
THEOREM RecentAnswers == Spec => []AnswersRecent
  <1>1. IInv => AnswersRecent
    <2> SUFFICES ASSUME IInv, NEW g \in Getters, answer[g] # "none",
                        replaced[answer[g]] # Never
                 PROVE  began[g] < replaced[answer[g]] + Ttl + Delay
      BY DEF AnswersRecent
    <2>1. answer[g] \in Setters /\ began[g] \in Int /\ replaced[answer[g]] \in Int
      BY Bounds DEF IInv, TypeOK, Values, Times, Never
    <2>2. replaced[answer[g]] >= began[g] + 1 - Ttl - Delay
      BY DEF IInv, AnswerBooks, Since
    <2>3. QED
      BY <2>1, <2>2, Bounds
  <1>2. QED
    BY <1>1, Invariance, PTL
=============================================================================
