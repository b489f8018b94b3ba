------------------------ MODULE ProactiveDaemonProofs ------------------------
(***************************************************************************)
(* Theorems about ProactiveDaemon for every finite set of ticks, however   *)
(* many of them overlap, every day length and offset, every limit and any  *)
(* number of crashes.                                                      *)
(***************************************************************************)
EXTENDS ProactiveDaemonHistory, FiniteSetTheorems, TLAPS

(* What the await a tick has reached says of its dispatcher, and the        *)
(* dispatcher of the list of messages.                                      *)
ChildBooks ==
    /\ \A t \in Ticks :
         /\ pc[t] \in {"idle", "loading", "evaluating", "failed"} => child[t] = "none"
         /\ child[t] \in {"running", "delivered"} => pc[t] \in {"dispatching", "dead"}
    /\ \A i \in DOMAIN sent : child[sent[i]] \in {"delivered", "exit0", "exit1"}

(* The dispatchers of a date that reported success.                         *)
Backed(d) == {t \in Ticks : child[t] = "exit0" /\ DateKey(now[t]) = d}

(* A tick's copy of the state is of its own date, and charges it with no    *)
(* more than others reported; its own message comes on top when it is done. *)
CopyBacked(t) ==
    /\ pc[t] \in {"evaluating", "dispatching", "saving", "writing"} =>
          mem[t].date = DateKey(now[t])
    /\ pc[t] \in {"evaluating", "dispatching"} =>
          mem[t].count <= Cardinality(Backed(mem[t].date) \ {t})
    /\ pc[t] \in {"saving", "writing"} => mem[t].count <= Cardinality(Backed(mem[t].date))
CopiesBacked == \A t \in Ticks : CopyBacked(t)

IInv == TypeOK /\ ChildBooks /\ CopiesBacked /\ CountBacked
-----------------------------------------------------------------------------
LEMMA Bounds ==
  /\ IsFiniteSet(Ticks)
  /\ DayLen \in Nat /\ DayLen >= 1 /\ HostOffset \in Nat /\ UserOffset \in Nat
  /\ IdleThreshold \in Nat /\ MaxDaily \in Nat /\ MaxDaily >= 1
  /\ MaxInFlight \in Nat /\ Horizon \in Nat /\ MaxCrashes \in Nat /\ MaxLies \in Nat
  BY DaemonAssumption

(* Dates are numbers, and later times have no earlier dates.                *)
LEMMA DateIsNatural == ASSUME NEW n \in Nat PROVE DateKey(n) \in Nat
  <1>1. /\ DayLen \in Nat \ {0} /\ n \div DayLen \in Int
        /\ n = DayLen * (n \div DayLen) + (n % DayLen) /\ n % DayLen \in 0..(DayLen - 1)
    BY Bounds
  <1>2. ASSUME n \div DayLen < 0 PROVE FALSE
    <2>1. DayLen * (n \div DayLen) <= DayLen * (0 - 1)
      BY <1>1, <1>2
    <2> QED BY <1>1, <2>1
  <1> QED BY <1>1, <1>2 DEF DateKey

LEMMA DatesInOrder ==
  ASSUME NEW m \in Nat, NEW n \in Nat, m <= n
  PROVE  DateKey(m) <= DateKey(n)
  <1>1. /\ DayLen \in Nat \ {0} /\ m \div DayLen \in Int /\ n \div DayLen \in Int
        /\ m = DayLen * (m \div DayLen) + (m % DayLen) /\ m % DayLen \in 0..(DayLen - 1)
        /\ n = DayLen * (n \div DayLen) + (n % DayLen) /\ n % DayLen \in 0..(DayLen - 1)
    BY Bounds
  <1>2. ASSUME m \div DayLen >= (n \div DayLen) + 1 PROVE FALSE
    <2>1. DayLen * (m \div DayLen) >= DayLen * ((n \div DayLen) + 1)
      BY <1>1, <1>2
    <2> QED BY <1>1, <2>1
  <1> QED BY <1>1, <1>2 DEF DateKey

-----------------------------------------------------------------------------
(* Types.                                                                   *)
LEMMA DefaultIsState == ASSUME NEW d \in Nat PROVE DefaultState(d) \in State
  BY Bounds DEF DefaultState, State, Times, Never

LEMMA InitTyped == Init => TypeOK
  <1> SUFFICES ASSUME Init PROVE TypeOK
    OBVIOUS
  <1>1. clock \in Nat /\ clock \in 1..Horizon /\ clock \in Times
    BY Bounds DEF Init, Times
  <1>2. DateKey(clock) \in Nat
    BY <1>1, DateIsNatural
  <1>3. DefaultState(0) \in State /\ DefaultState(DateKey(clock)) \in State
    BY <1>2, DefaultIsState
  <1>4. file.form \in {"missing", "empty", "torn", "ok"} /\ file.state \in State
    BY <1>1, <1>3 DEF Init, NoFile, Holds, State
  <1>5. mem \in [Ticks -> State] /\ now \in [Ticks -> Times] /\ sent \in Seq(Ticks)
    BY <1>3, Bounds DEF Init, Times, Never
  <1> QED BY <1>1, <1>4, <1>5, Bounds DEF Init, TypeOK

(* What loading makes of the file.                                          *)
LEMMA LoadedIsState ==
  ASSUME TypeOK, NEW d \in Nat, file.form \in {"missing", "ok"}
  PROVE  /\ Loaded(d) \in State /\ Loaded(d).date = d
         /\ Loaded(d).topic = IF file.form = "ok" THEN file.state.topic ELSE "none"
         /\ file.form = "ok" /\ file.state.date = d => Loaded(d) = file.state
         /\ ~(file.form = "ok" /\ file.state.date = d) => Loaded(d).count = 0
  <1>1. DefaultState(d) \in State /\ file.state \in State
    BY DefaultIsState DEF TypeOK
  <1>2. CarryOver(file.state, d) \in State
    BY <1>1 DEF CarryOver, State
  <1>3. CASE file.form = "missing"
    BY <1>1, <1>3 DEF Loaded, DefaultState
  <1>4. CASE file.form = "ok" /\ file.state.date # d
    BY <1>1, <1>2, <1>4 DEF Loaded, CarryOver, DefaultState
  <1>5. CASE file.form = "ok" /\ file.state.date = d
    BY <1>1, <1>5 DEF Loaded
  <1> QED BY <1>3, <1>4, <1>5

LEMMA ChargeIsState ==
  ASSUME TypeOK, NEW t \in Ticks
  PROVE  /\ Charge(t) \in State /\ Charge(t).date = mem[t].date
         /\ Charge(t).count = IF child[t] = "exit0" THEN mem[t].count + 1 ELSE mem[t].count
  <1>1. mem[t] \in State /\ now[t] \in Times /\ subj[t] \in Subjects \cup {"none"}
    BY DEF TypeOK
  <1>2. /\ Remember(t) \in State /\ Remember(t).date = mem[t].date
        /\ Remember(t).count = mem[t].count + 1
    <2> DEFINE P == IF kind[t] = "idle_check" THEN now[t] ELSE mem[t].ping
               C == IF kind[t] = "calendar_event" THEN subj[t] ELSE mem[t].calendar
               T == IF kind[t] = "topic_followup" THEN subj[t] ELSE mem[t].topic
    <2>1. P \in Times /\ C \in Subjects \cup {"none"} /\ T \in Subjects \cup {"none"}
      BY <1>1 DEF State
    <2>2. Remember(t) = [mem[t] EXCEPT !.count = @ + 1, !.ping = P, !.calendar = C, !.topic = T]
      BY <1>1 DEF Remember, State
    <2> HIDE DEF P, C, T
    <2>3. /\ mem[t].date \in Nat /\ mem[t].count + 1 \in Nat /\ mem[t].interaction \in Times
          /\ mem[t] = [date |-> mem[t].date, count |-> mem[t].count,
                       interaction |-> mem[t].interaction, ping |-> mem[t].ping,
                       calendar |-> mem[t].calendar, topic |-> mem[t].topic]
      BY <1>1 DEF State
    <2>4. Remember(t) = [date |-> mem[t].date, count |-> mem[t].count + 1,
                         interaction |-> mem[t].interaction, ping |-> P,
                         calendar |-> C, topic |-> T]
      BY <2>2, <2>3
    <2> QED BY <2>1, <2>3, <2>4 DEF State
  <1> QED BY <1>1, <1>2 DEF Charge

LEMMA StartTickTyped ==
  ASSUME TypeOK, NEW t \in Ticks, NEW o \in Owners, NEW k \in Kinds, StartTick(t, o, k)
  PROVE  TypeOK'
  <1>1. clock \in Times
    BY Bounds DEF TypeOK, Times
  <1> QED BY <1>1, Bounds DEF TypeOK, StartTick, Goes, UnderWay

LEMMA LoadStateTyped == ASSUME TypeOK, NEW t \in Ticks, LoadState(t) PROVE TypeOK'
  <1>1. DateKey(now[t]) \in Nat
    BY DateIsNatural, Bounds DEF TypeOK, Times
  <1>2. mem' \in [Ticks -> State]
    BY <1>1, LoadedIsState DEF TypeOK, LoadState
  <1>3. pc' \in [Ticks -> UnderWay \cup {"idle", "done", "failed", "dead"}]
    BY DEF TypeOK, LoadState, Goes, UnderWay
  <1> QED BY <1>2, <1>3 DEF TypeOK, LoadState, input

LEMMA DecideTyped ==
  ASSUME TypeOK, NEW t \in Ticks, NEW s \in Subjects \cup {"none"}, Decide(t, s)
  PROVE  TypeOK'
  BY DEF TypeOK, Decide, Goes, UnderWay, input

LEMMA DeliverTyped == ASSUME TypeOK, NEW t \in Ticks, Deliver(t) PROVE TypeOK'
  BY DEF TypeOK, Deliver, input

LEMMA ChildExitsTyped ==
  ASSUME TypeOK, NEW t \in Ticks, NEW code \in {"exit0", "exit1"}, ChildExits(t, code)
  PROVE  TypeOK'
  <1>1. lies' \in 0..MaxLies
    BY Bounds DEF TypeOK, ChildExits
  <1> QED BY <1>1 DEF TypeOK, ChildExits, input

LEMMA DispatchEndsTyped == ASSUME TypeOK, NEW t \in Ticks, DispatchEnds(t) PROVE TypeOK'
  <1>1. mem' \in [Ticks -> State]
    BY ChargeIsState DEF TypeOK, DispatchEnds
  <1> QED BY <1>1 DEF TypeOK, DispatchEnds, Goes, UnderWay, input

LEMMA OpenStateTyped == ASSUME TypeOK, NEW t \in Ticks, OpenState(t) PROVE TypeOK'
  <1>1. file'.form = "empty" /\ file'.state \in State
    BY DefaultIsState DEF OpenState, EmptyFile
  <1> QED BY <1>1 DEF TypeOK, OpenState, Goes, UnderWay, input

LEMMA WriteStateTyped == ASSUME TypeOK, NEW t \in Ticks, WriteState(t) PROVE TypeOK'
  <1>1. mem[t] \in State /\ DefaultState(0) \in State
    BY DefaultIsState DEF TypeOK
  <1>2. file'.form \in {"torn", "ok"} /\ file'.state \in State
    BY <1>1 DEF WriteState, TornFile, Holds
  <1>3. mem' \in [Ticks -> State]
    BY <1>1 DEF TypeOK, WriteState
  <1> QED BY <1>2, <1>3 DEF TypeOK, WriteState, Goes, UnderWay, input

(* The end of a process: the ticks of the daemon are dead or done.          *)
LEMMA DieTyped ==
  ASSUME TypeOK, Die
  PROVE  /\ pc' \in [Ticks -> UnderWay \cup {"idle", "done", "failed", "dead"}]
         /\ \A u \in Ticks : \/ pc'[u] = pc[u]
                             \/ pc[u] = "written" /\ pc'[u] = "done"
                             \/ pc[u] \in UnderWay \ {"written"} /\ pc'[u] = "dead"
  BY DEF TypeOK, Die, Active, UnderWay

LEMMA FinishTyped == ASSUME TypeOK, NEW t \in Ticks, Finish(t) PROVE TypeOK'
  <1>1. pc' \in [Ticks -> UnderWay \cup {"idle", "done", "failed", "dead"}] /\ up' \in BOOLEAN
    BY DieTyped DEF TypeOK, Finish, Goes
  <1> QED BY <1>1 DEF TypeOK, Finish, input

LEMMA CrashTyped == ASSUME TypeOK, Crash PROVE TypeOK'
  <1>1. pc' \in [Ticks -> UnderWay \cup {"idle", "done", "failed", "dead"}]
    BY DieTyped DEF Crash
  <1>2. crashes' \in 0..MaxCrashes
    BY Bounds DEF TypeOK, Crash
  <1> QED BY <1>1, <1>2 DEF TypeOK, Crash, input

LEMMA ClockTyped == ASSUME TypeOK, Restart \/ TimePasses PROVE TypeOK'
  <1>1. clock' \in 1..Horizon
    BY Bounds DEF TypeOK, Restart, TimePasses
  <1>2. up' \in BOOLEAN
    BY DEF TypeOK, Restart, TimePasses
  <1> QED BY <1>1, <1>2 DEF TypeOK, Restart, TimePasses, input

LEMMA Typed == TypeOK /\ [Next]_vars => TypeOK'
  <1> SUFFICES ASSUME TypeOK, [Next]_vars PROVE TypeOK'
    OBVIOUS
  <1>1. CASE UNCHANGED vars
    BY <1>1 DEF TypeOK, vars
  <1>2. CASE Next
    BY <1>2, StartTickTyped, LoadStateTyped, DecideTyped, DeliverTyped, ChildExitsTyped,
       DispatchEndsTyped, OpenStateTyped, WriteStateTyped, FinishTyped, CrashTyped, ClockTyped
       DEF Next
  <1> QED BY <1>1, <1>2
-----------------------------------------------------------------------------
(* The awaits and the dispatchers.                                          *)
LEMMA InitChildren == Init => ChildBooks
  BY DEF Init, ChildBooks

LEMMA Children == TypeOK /\ ChildBooks /\ [Next]_vars => ChildBooks'
  <1> SUFFICES ASSUME TypeOK, ChildBooks, [Next]_vars PROVE ChildBooks'
    OBVIOUS
  <1> USE DEF ChildBooks
  <1>1. ASSUME NEW t \in Ticks, NEW o \in Owners, NEW k \in Kinds, StartTick(t, o, k)
        PROVE  ChildBooks'
    BY <1>1 DEF TypeOK, StartTick, Goes
  <1>2. ASSUME NEW t \in Ticks, NEW s \in Subjects \cup {"none"}, Decide(t, s)
        PROVE  ChildBooks'
    <2>1. \A i \in DOMAIN sent : child'[sent[i]] = child[sent[i]]
      BY <1>2 DEF TypeOK, Decide
    <2> QED BY <1>2, <2>1 DEF TypeOK, Decide, Goes
  <1>3. ASSUME NEW t \in Ticks, NEW code \in {"exit0", "exit1"}, ChildExits(t, code)
        PROVE  ChildBooks'
    BY <1>3 DEF TypeOK, ChildExits, input
  <1>4. ASSUME NEW t \in Ticks, Deliver(t) PROVE ChildBooks'
    <2>1. \A i \in DOMAIN sent' : sent'[i] = t \/ (i \in DOMAIN sent /\ sent'[i] = sent[i])
      BY <1>4 DEF TypeOK, Deliver
    <2>2. \A i \in DOMAIN sent : sent[i] \in Ticks /\ sent[i] # t
      BY <1>4 DEF TypeOK, Deliver
    <2> QED BY <1>4, <2>1, <2>2 DEF TypeOK, Deliver, input
  <1>5. ASSUME NEW t \in Ticks,
               LoadState(t) \/ DispatchEnds(t) \/ OpenState(t) \/ WriteState(t)
        PROVE  ChildBooks'
    BY <1>5 DEF TypeOK, LoadState, DispatchEnds, OpenState, WriteState, Goes, input
  <1>6. ASSUME NEW t \in Ticks, Finish(t) PROVE ChildBooks'
    <2>1. /\ child' = child /\ sent' = sent /\ (pc[t] = "written" => pc'[t] # "idle")
          /\ \A u \in Ticks : \/ pc'[u] = pc[u]
                              \/ pc[u] = "written" /\ pc'[u] = "done"
                              \/ pc[u] \in UnderWay \ {"written"} /\ pc'[u] = "dead"
      BY <1>6, DieTyped DEF TypeOK, Finish, Goes, Reports
    <2> QED BY <2>1 DEF UnderWay
  <1>7. ASSUME Crash PROVE ChildBooks'
    <2>1. /\ child' = child /\ sent' = sent
          /\ \A u \in Ticks : \/ pc'[u] = pc[u]
                              \/ pc[u] = "written" /\ pc'[u] = "done"
                              \/ pc[u] \in UnderWay \ {"written"} /\ pc'[u] = "dead"
      BY <1>7, DieTyped DEF Crash
    <2> QED BY <2>1 DEF UnderWay
  <1>8. CASE Restart \/ TimePasses \/ UNCHANGED vars
    BY <1>8 DEF Restart, TimePasses, vars, input
  <1> QED BY <1>1, <1>2, <1>3, <1>4, <1>5, <1>6, <1>7, <1>8 DEF Next
-----------------------------------------------------------------------------
(* A report of success is never taken back: sets of them only grow.         *)
LEMMA BackedIsFinite ==
  ASSUME NEW d
  PROVE  /\ Backed(d) \subseteq Ticks /\ IsFiniteSet(Backed(d))
         /\ Cardinality(Backed(d)) \in Nat
  <1>1. Backed(d) \subseteq Ticks
    BY DEF Backed
  <1> QED BY <1>1, Bounds, FS_Subset, FS_CardinalityType

LEMMA BackedGrows ==
  ASSUME TypeOK, ChildBooks, [Next]_vars, NEW d
  PROVE  Backed(d) \subseteq Backed(d)'
  <1> SUFFICES ASSUME NEW u \in Ticks, child[u] = "exit0"
               PROVE  child'[u] = "exit0" /\ now'[u] = now[u]
    BY DEF Backed, DateKey
  <1>1. pc[u] \notin {"idle", "loading", "evaluating"}
    BY DEF ChildBooks
  <1>2. ASSUME NEW t \in Ticks, NEW o \in Owners, NEW k \in Kinds, StartTick(t, o, k)
        PROVE  child'[u] = "exit0" /\ now'[u] = now[u]
    BY <1>1, <1>2 DEF TypeOK, StartTick
  <1>3. ASSUME NEW t \in Ticks, NEW s \in Subjects \cup {"none"}, Decide(t, s)
        PROVE  child'[u] = "exit0" /\ now'[u] = now[u]
    BY <1>1, <1>3 DEF TypeOK, Decide, input
  <1>4. ASSUME NEW t \in Ticks, NEW code \in {"exit0", "exit1"}, ChildExits(t, code)
        PROVE  child'[u] = "exit0" /\ now'[u] = now[u]
    BY <1>4 DEF TypeOK, ChildExits, input
  <1>5. ASSUME NEW t \in Ticks, Deliver(t) PROVE child'[u] = "exit0" /\ now'[u] = now[u]
    BY <1>5 DEF TypeOK, Deliver, input
  <1>6. ASSUME UNCHANGED <<child, now>> PROVE child'[u] = "exit0" /\ now'[u] = now[u]
    BY <1>6
  <1> QED
    BY <1>2, <1>3, <1>4, <1>5, <1>6
       DEF Next, vars, input, LoadState, DispatchEnds, OpenState, WriteState, Finish, Crash,
           Restart, TimePasses

LEMMA BackedCount ==
  ASSUME TypeOK, ChildBooks, [Next]_vars, NEW d, NEW t
  PROVE  /\ Cardinality(Backed(d)) <= Cardinality(Backed(d)')
         /\ Cardinality(Backed(d) \ {t}) <= Cardinality(Backed(d)' \ {t})
         /\ {Cardinality(Backed(d)), Cardinality(Backed(d)'), Cardinality(Backed(d) \ {t}),
             Cardinality(Backed(d)' \ {t})} \subseteq Nat
  <1>1. Backed(d)' \subseteq Ticks
    BY DEF Backed
  <1>2. Backed(d) \subseteq Backed(d)' /\ Backed(d) \ {t} \subseteq Backed(d)' \ {t}
    BY BackedGrows
  <1>3. IsFiniteSet(Backed(d)') /\ IsFiniteSet(Backed(d)' \ {t})
    BY <1>1, Bounds, FS_Subset
  <1>4. IsFiniteSet(Backed(d)) /\ IsFiniteSet(Backed(d) \ {t})
    BY <1>2, <1>3, FS_Subset
  <1> QED BY <1>2, <1>3, <1>4, FS_Subset, FS_CardinalityType

LEMMA InitBacked == Init => CopiesBacked /\ CountBacked
  <1> SUFFICES ASSUME Init PROVE CopiesBacked /\ CountBacked
    OBVIOUS
  <1>1. CopiesBacked
    BY DEF Init, CopiesBacked, CopyBacked
  <1>2. file.form = "ok" => file.state.count = 0
    BY DEF Init, NoFile, Holds, DefaultState
  <1>3. Cardinality(Backed(file.state.date)) \in Nat
    BY BackedIsFinite
  <1> QED BY <1>1, <1>2, <1>3 DEF CountBacked, Backed

(* A tick whose copy a step leaves alone, and that it does not bring        *)
(* forward by more than the opening of the file.                            *)
LEMMA CopyKept ==
  ASSUME TypeOK, ChildBooks, [Next]_vars, NEW u \in Ticks, CopyBacked(u),
         mem'[u] = mem[u], pc[u] # "idle" => now'[u] = now[u],
         \/ pc'[u] = pc[u]
         \/ pc[u] = "saving" /\ pc'[u] = "writing"
         \/ pc'[u] \notin {"evaluating", "dispatching", "saving", "writing"}
  PROVE  CopyBacked(u)'
  <1>1. mem[u].count \in Nat /\ mem[u].date \in Nat
    BY DEF TypeOK, State
  <1> DEFINE d == mem[u].date
  <1>2. /\ Cardinality(Backed(d)) <= Cardinality(Backed(d)')
        /\ Cardinality(Backed(d) \ {u}) <= Cardinality(Backed(d)' \ {u})
        /\ Cardinality(Backed(d)) \in Nat /\ Cardinality(Backed(d)') \in Nat
        /\ Cardinality(Backed(d) \ {u}) \in Nat /\ Cardinality(Backed(d)' \ {u}) \in Nat
    BY BackedCount
  <1>3. mem'[u].date = d /\ mem'[u].count = mem[u].count
    OBVIOUS
  <1>4. Backed(mem[u].date)' = Backed(d)'
    BY <1>3 DEF Backed
  <1>5. pc'[u] \in {"evaluating", "dispatching", "saving", "writing"} =>
            mem'[u].date = DateKey(now'[u])
    BY <1>3 DEF CopyBacked
  <1>6. pc'[u] \in {"evaluating", "dispatching"} =>
            mem'[u].count <= Cardinality(Backed(d)' \ {u})
    BY <1>1, <1>2, <1>3 DEF CopyBacked
  <1>7. pc'[u] \in {"saving", "writing"} => mem'[u].count <= Cardinality(Backed(d)')
    BY <1>1, <1>2, <1>3 DEF CopyBacked
  <1> QED BY <1>4, <1>5, <1>6, <1>7 DEF CopyBacked, DateKey

(* A step that leaves the file alone, or empties or garbles it.             *)
LEMMA CountKept ==
  ASSUME TypeOK, ChildBooks, [Next]_vars, CountBacked, file' = file \/ file'.form # "ok"
  PROVE  CountBacked'
  <1> SUFFICES ASSUME file' = file, file.form = "ok"
               PROVE  file.state.count <= Cardinality(Backed(file.state.date)')
    BY DEF CountBacked, Backed, DateKey
  <1>1. file.state.count \in Nat
    BY DEF TypeOK, State
  <1>2. file.state.count <= Cardinality(Backed(file.state.date))
    BY DEF CountBacked, Backed
  <1>3. /\ Cardinality(Backed(file.state.date)) <= Cardinality(Backed(file.state.date)')
        /\ Cardinality(Backed(file.state.date)) \in Nat
        /\ Cardinality(Backed(file.state.date)') \in Nat
    BY BackedCount
  <1> QED BY <1>1, <1>2, <1>3
-----------------------------------------------------------------------------
(* The steps of a tick: its copy is backed when it loads, when it decides,  *)
(* when it has heard of its dispatcher; the file is when it writes.         *)
LEMMA LoadBacked ==
  ASSUME IInv, [Next]_vars, NEW t \in Ticks, LoadState(t)
  PROVE  CopyBacked(t)'
  <1> USE DEF IInv
  <1>1. CASE pc'[t] = "evaluating"
    <2> DEFINE d == DateKey(now[t])
    <2>1. d \in Nat
      BY DateIsNatural, Bounds DEF TypeOK, Times
    <2>2. file.form \in {"missing", "ok"} /\ mem'[t] = Loaded(d) /\ now' = now /\ child' = child
      BY <1>1 DEF TypeOK, LoadState, Goes, input
    <2>3. t \notin Backed(d) /\ Backed(d) \ {t} = Backed(d) /\ Backed(d)' = Backed(d)
      BY <2>2 DEF Backed, ChildBooks, LoadState, DateKey
    <2>4. Loaded(d).date = d /\ Cardinality(Backed(d)) \in Nat
      BY <2>1, <2>2, LoadedIsState, BackedIsFinite
    <2>5. Loaded(d).count <= Cardinality(Backed(d))
      <3>1. CASE file.form = "ok" /\ file.state.date = d
        BY <2>1, <2>2, <3>1, LoadedIsState DEF CountBacked, Backed
      <3>2. CASE ~(file.form = "ok" /\ file.state.date = d)
        BY <2>1, <2>2, <2>4, <3>2, LoadedIsState
      <3> QED BY <3>1, <3>2
    <2>6. mem'[t].date = d /\ now'[t] = now[t] /\ mem'[t].count <= Cardinality(Backed(d)' \ {t})
      BY <2>2, <2>3, <2>4, <2>5
    <2>7. Backed(mem[t].date)' = Backed(d)'
      BY <2>6 DEF Backed
    <2> QED BY <1>1, <2>6, <2>7 DEF CopyBacked, DateKey
  <1>2. CASE pc'[t] = "failed"
    BY <1>2 DEF CopyBacked
  <1> QED BY <1>1, <1>2 DEF TypeOK, LoadState, Goes

LEMMA DecideBacked ==
  ASSUME IInv, [Next]_vars, NEW t \in Ticks, NEW s \in Subjects \cup {"none"}, Decide(t, s)
  PROVE  CopyBacked(t)'
  <1> USE DEF IInv
  <1> DEFINE d == mem[t].date
  <1>1. /\ pc[t] = "evaluating" /\ pc'[t] \in {"dispatching", "saving"}
        /\ mem' = mem /\ now' = now
    BY DEF TypeOK, Decide, Goes, input
  <1>2. d = DateKey(now[t]) /\ mem[t].count <= Cardinality(Backed(d) \ {t})
    BY <1>1 DEF CopiesBacked, CopyBacked
  <1>3. /\ Cardinality(Backed(d) \ {t}) <= Cardinality(Backed(d)' \ {t})
        /\ Cardinality(Backed(d) \ {t}) \in Nat /\ Cardinality(Backed(d)' \ {t}) \in Nat
        /\ Cardinality(Backed(d)') \in Nat
    BY <1>1, BackedCount
  <1>4. Cardinality(Backed(d)' \ {t}) <= Cardinality(Backed(d)')
    <2>1. IsFiniteSet(Backed(d)')
      <3>1. Backed(d)' \subseteq Ticks
        BY DEF Backed
      <3> QED BY <3>1, Bounds, FS_Subset
    <2> QED BY <2>1, FS_Subset
  <1>5. mem[t].count \in Nat
    BY DEF TypeOK, State
  <1>6. Backed(mem[t].date)' = Backed(d)'
    BY <1>1 DEF Backed
  <1>7. /\ mem'[t].count <= Cardinality(Backed(d)' \ {t})
        /\ mem'[t].count <= Cardinality(Backed(d)')
        /\ mem'[t].date = DateKey(now'[t])
    BY <1>1, <1>2, <1>3, <1>4, <1>5
  <1> QED BY <1>1, <1>6, <1>7 DEF CopyBacked, DateKey

LEMMA DispatchBacked ==
  ASSUME IInv, [Next]_vars, NEW t \in Ticks, DispatchEnds(t)
  PROVE  CopyBacked(t)'
  <1> USE DEF IInv
  <1> DEFINE d == mem[t].date
  <1>1. /\ pc[t] = "dispatching" /\ pc'[t] = "saving" /\ mem'[t] = Charge(t)
        /\ child' = child /\ now' = now
    BY DEF TypeOK, DispatchEnds, Goes, input
  <1>2. d = DateKey(now[t]) /\ mem[t].count <= Cardinality(Backed(d) \ {t})
    BY <1>1 DEF CopiesBacked, CopyBacked
  <1>3. Charge(t).date = d /\ Backed(mem[t].date)' = Backed(d)
    BY <1>1, ChargeIsState DEF Backed, DateKey
  <1>4. IsFiniteSet(Backed(d)) /\ Cardinality(Backed(d)) \in Nat /\ mem[t].count \in Nat
    BY BackedIsFinite DEF TypeOK, State
  <1>5. Charge(t).count <= Cardinality(Backed(d))
    <2>1. CASE child[t] = "exit0"
      <3>1. t \in Backed(d)
        BY <1>2, <2>1 DEF Backed
      <3>2. Cardinality(Backed(d) \ {t}) = Cardinality(Backed(d)) - 1
        BY <1>4, <3>1, FS_RemoveElement
      <3>3. Charge(t).count = mem[t].count + 1
        BY <2>1, ChargeIsState
      <3> QED BY <1>2, <1>4, <3>2, <3>3
    <2>2. CASE child[t] # "exit0"
      <3>1. Backed(d) \ {t} = Backed(d)
        BY <2>2 DEF Backed
      <3>2. Charge(t).count = mem[t].count
        BY <2>2, ChargeIsState
      <3> QED BY <1>2, <3>1, <3>2
    <2> QED BY <2>1, <2>2
  <1>6. mem'[t].count <= Cardinality(Backed(d)) /\ mem'[t].date = DateKey(now'[t])
    BY <1>1, <1>2, <1>3, <1>5
  <1> QED BY <1>1, <1>3, <1>6 DEF CopyBacked, DateKey

LEMMA WriteBacked ==
  ASSUME IInv, [Next]_vars, NEW t \in Ticks, WriteState(t)
  PROVE  CountBacked'
  <1> USE DEF IInv
  <1>1. pc[t] = "writing" /\ child' = child /\ now' = now /\ file' \in {Holds(mem[t]), TornFile}
    BY DEF WriteState, input
  <1>2. CASE file' = TornFile
    BY <1>2 DEF CountBacked, TornFile
  <1>3. CASE file' = Holds(mem[t])
    <2>1. mem[t].count <= Cardinality(Backed(mem[t].date))
      BY <1>1 DEF CopiesBacked, CopyBacked
    <2> QED BY <1>1, <1>3, <2>1 DEF CountBacked, Holds, Backed, DateKey
  <1> QED BY <1>1, <1>2, <1>3

LEMMA BackedStep == IInv /\ [Next]_vars => CopiesBacked' /\ CountBacked'
  <1> SUFFICES ASSUME IInv, [Next]_vars PROVE CopiesBacked' /\ CountBacked'
    OBVIOUS
  <1>0. TypeOK /\ ChildBooks /\ CountBacked /\ \A u \in Ticks : CopyBacked(u)
    BY DEF IInv, CopiesBacked
  <1> USE <1>0
  <1>1. ASSUME NEW t \in Ticks, NEW o \in Owners, NEW k \in Kinds, StartTick(t, o, k)
        PROVE  CopiesBacked' /\ CountBacked'
    <2>1. \A u \in Ticks : CopyBacked(u)'
      BY <1>1, CopyKept DEF TypeOK, StartTick, Goes
    <2> QED BY <1>1, <2>1, CountKept DEF StartTick, CopiesBacked
  <1>2. ASSUME NEW t \in Ticks, LoadState(t) PROVE CopiesBacked' /\ CountBacked'
    <2>1. \A u \in Ticks \ {t} : CopyBacked(u)'
      BY <1>2, CopyKept DEF TypeOK, LoadState, Goes, input
    <2> QED BY <1>2, <2>1, LoadBacked, CountKept DEF LoadState, CopiesBacked
  <1>3. ASSUME NEW t \in Ticks, NEW s \in Subjects \cup {"none"}, Decide(t, s)
        PROVE  CopiesBacked' /\ CountBacked'
    <2>1. \A u \in Ticks \ {t} : CopyBacked(u)'
      BY <1>3, CopyKept DEF TypeOK, Decide, Goes, input
    <2> QED BY <1>3, <2>1, DecideBacked, CountKept DEF Decide, CopiesBacked
  <1>4. ASSUME NEW t \in Ticks, DispatchEnds(t) PROVE CopiesBacked' /\ CountBacked'
    <2>1. \A u \in Ticks \ {t} : CopyBacked(u)'
      BY <1>4, CopyKept DEF TypeOK, DispatchEnds, Goes, input
    <2> QED BY <1>4, <2>1, DispatchBacked, CountKept DEF DispatchEnds, CopiesBacked
  <1>5. ASSUME NEW t \in Ticks, OpenState(t) PROVE CopiesBacked' /\ CountBacked'
    <2>1. \A u \in Ticks : CopyBacked(u)'
      BY <1>5, CopyKept DEF TypeOK, OpenState, Goes, input
    <2> QED BY <1>5, <2>1, CountKept DEF OpenState, EmptyFile, CopiesBacked
  <1>6. ASSUME NEW t \in Ticks, WriteState(t) PROVE CopiesBacked' /\ CountBacked'
    <2>1. \A u \in Ticks \ {t} : CopyBacked(u)'
      BY <1>6, CopyKept DEF TypeOK, WriteState, Goes, input
    <2>2. CopyBacked(t)'
      BY <1>6 DEF TypeOK, WriteState, Goes, CopyBacked
    <2> QED BY <1>6, <2>1, <2>2, WriteBacked DEF CopiesBacked
  <1>7. ASSUME NEW t \in Ticks, Finish(t) PROVE CopiesBacked' /\ CountBacked'
    <2>1. /\ mem' = mem /\ now' = now /\ file' = file
          /\ \A u \in Ticks : pc'[u] = pc[u] \/ pc'[u] \in {"dead", "done"}
      BY <1>7 DEF TypeOK, Finish, Die, Goes, input
    <2>2. \A u \in Ticks : CopyBacked(u)'
      BY <2>1, CopyKept
    <2> QED BY <2>1, <2>2, CountKept DEF CopiesBacked
  <1>8. ASSUME Crash PROVE CopiesBacked' /\ CountBacked'
    <2>1. /\ mem' = mem /\ now' = now /\ file' = file
          /\ \A u \in Ticks : pc'[u] = pc[u] \/ pc'[u] \in {"dead", "done"}
      BY <1>8 DEF Crash, Die, input
    <2>2. \A u \in Ticks : CopyBacked(u)'
      BY <2>1, CopyKept
    <2> QED BY <2>1, <2>2, CountKept DEF CopiesBacked
  <1>9. CASE UNCHANGED <<pc, now, mem, file>>
    <2>1. \A u \in Ticks : CopyBacked(u)'
      BY <1>9, CopyKept
    <2> QED BY <1>9, <2>1, CountKept DEF CopiesBacked
  <1> QED
    BY <1>1, <1>2, <1>3, <1>4, <1>5, <1>6, <1>7, <1>8, <1>9
       DEF Next, Deliver, ChildExits, Restart, TimePasses, vars, input

LEMMA Invariance == Spec => []IInv
  <1>1. Init => IInv
    BY InitTyped, InitChildren, InitBacked DEF IInv
  <1>2. IInv /\ [Next]_vars => IInv'
    BY Typed, Children, BackedStep DEF IInv
  <1> QED BY <1>1, <1>2, PTL DEF Spec

(* Every variable of the engine keeps its type, however many ticks of       *)
(* daemon, command line and dry runs overlap, die or are overtaken.         *)
THEOREM TypeCorrect == Spec => []TypeOK
  BY Invariance, PTL DEF IInv

(* executeTick saves a copy as old as its dispatch: what overlapping ticks  *)
(* lose is always a count, never a message; the file charges no date with   *)
(* more than dispatchers reported.                                          *)
THEOREM CountIsBacked == Spec => []CountBacked
  BY Invariance, PTL DEF IInv
-----------------------------------------------------------------------------
(* The quiet hours start and end at slots of a day.                         *)
HoursOfTheDay == QuietStart \in 0..(DayLen - 1) /\ QuietEnd \in 0..(DayLen - 1)

(* No dispatcher was started in them.                                       *)
Awake == \A t \in Ticks : child[t] # "none" => ~Quiet(now[t], HostOffset)

LEMMA Remainders ==
  ASSUME NEW n \in Nat, n < DayLen
  PROVE  n % DayLen = n /\ (n + DayLen) % DayLen = n
  <1>1. /\ DayLen \in Nat \ {0} /\ n % DayLen \in 0..(DayLen - 1) /\ n \div DayLen \in Int
        /\ n = DayLen * (n \div DayLen) + (n % DayLen)
    BY Bounds
  <1>2. /\ (n + DayLen) % DayLen \in 0..(DayLen - 1) /\ (n + DayLen) \div DayLen \in Int
        /\ n + DayLen = DayLen * ((n + DayLen) \div DayLen) + ((n + DayLen) % DayLen)
    BY Bounds
  <1>3. ASSUME NEW q \in Int, NEW r \in 0..(DayLen - 1), NEW b \in Int,
               n = DayLen * (q - b) + r
        PROVE  r = n
    <2>1. CASE q - b >= 1
      <3>1. DayLen * (q - b) >= DayLen
        BY <1>1, <1>3, <2>1
      <3> QED BY <1>1, <1>3, <3>1
    <2>2. CASE q - b <= -1
      <3>1. DayLen * (q - b) <= DayLen * (0 - 1)
        BY <1>1, <1>3, <2>2
      <3> QED BY <1>1, <1>3, <3>1
    <2>3. CASE q - b = 0
      BY <1>1, <1>3, <2>3
    <2> QED BY <1>3, <2>1, <2>2, <2>3
  <1>4. n % DayLen = n
    <2>1. n = DayLen * ((n \div DayLen) - 0) + (n % DayLen)
      BY <1>1
    <2> QED BY <1>1, <1>3, <2>1
  <1>5. (n + DayLen) % DayLen = n
    <2>1. n = DayLen * (((n + DayLen) \div DayLen) - 1) + ((n + DayLen) % DayLen)
      BY <1>1, <1>2
    <2> QED BY <1>2, <1>3, <2>1
  <1> QED BY <1>4, <1>5

LEMMA AwakeIsNotQuiet ==
  ASSUME HoursOfTheDay, NEW x \in 0..(DayLen - 1), ~IsQuietHours(x, QuietStart, QuietEnd)
  PROVE  x \in AwakeSlots
  <1> DEFINE Last == (QuietStart + DayLen - QuietEnd - 1) % DayLen
  <1>1. /\ DayLen \in Nat /\ DayLen >= 1 /\ x \in Nat /\ x < DayLen
        /\ QuietStart \in Nat /\ QuietStart < DayLen /\ QuietEnd \in Nat /\ QuietEnd < DayLen
    BY Bounds DEF HoursOfTheDay
  <1>2. QuietStart <= QuietEnd => Last = QuietStart + DayLen - QuietEnd - 1
    BY <1>1, Remainders
  <1>3. QuietStart > QuietEnd => Last = QuietStart - QuietEnd - 1
    <2> SUFFICES ASSUME QuietStart > QuietEnd PROVE Last = QuietStart - QuietEnd - 1
      OBVIOUS
    <2> DEFINE n == QuietStart - QuietEnd - 1
    <2>1. n \in Nat /\ n < DayLen /\ QuietStart + DayLen - QuietEnd - 1 = n + DayLen
      BY <1>1
    <2> QED BY <2>1, Remainders
  <1> HIDE DEF Last
  <1>4. CASE x >= QuietEnd
    <2>1. x - QuietEnd \in 0..Last /\ QuietEnd + (x - QuietEnd) = x
      BY <1>1, <1>2, <1>3, <1>4 DEF IsQuietHours
    <2>2. (QuietEnd + (x - QuietEnd)) % DayLen = x
      BY <1>1, <2>1, Remainders
    <2> QED BY <2>1, <2>2 DEF AwakeSlots, Last
  <1>5. CASE x < QuietEnd
    <2> DEFINE k == x + DayLen - QuietEnd
    <2>1. k \in 0..Last /\ QuietEnd + k = x + DayLen
      BY <1>1, <1>2, <1>3, <1>5 DEF IsQuietHours
    <2>2. (QuietEnd + k) % DayLen = x
      BY <1>1, <2>1, Remainders
    <2> QED BY <2>1, <2>2 DEF AwakeSlots, Last
  <1> QED BY <1>1, <1>4, <1>5

LEMMA AwakeStep == ASSUME IInv, Awake, [Next]_vars PROVE Awake'
  <1>1. ASSUME NEW t \in Ticks, NEW o \in Owners, NEW k \in Kinds, StartTick(t, o, k)
        PROVE  Awake'
    BY <1>1 DEF StartTick, IInv, TypeOK, ChildBooks, Awake, Quiet
  <1>2. ASSUME NEW t \in Ticks, NEW s \in Subjects \cup {"none"}, Decide(t, s)
        PROVE  Awake'
    BY <1>2 DEF Decide, IInv, TypeOK, ChildBooks, Awake, Quiet, input
  <1>3. ASSUME UNCHANGED now, \A t \in Ticks : child'[t] # "none" => child[t] # "none"
        PROVE  Awake'
    BY <1>3 DEF Awake, Quiet
  <1>4. ASSUME NEW t \in Ticks, NEW code \in {"exit0", "exit1"}, ChildExits(t, code)
        PROVE  Awake'
    BY <1>3, <1>4 DEF ChildExits, IInv, TypeOK, input
  <1>5. ASSUME NEW t \in Ticks, Deliver(t) PROVE Awake'
    BY <1>3, <1>5 DEF Deliver, IInv, TypeOK, input
  <1>6. ASSUME UNCHANGED <<now, child>> PROVE Awake'
    BY <1>3, <1>6
  <1> QED
    BY <1>1, <1>2, <1>4, <1>5, <1>6
       DEF Next, vars, input, LoadState, DispatchEnds, OpenState, WriteState, Finish, Crash,
           Restart, TimePasses

(* No message is decided on in the quiet hours of the host's clock, which   *)
(* is the one getHours() reads, however far the user's is from it, however  *)
(* ticks overlap, and whether or not the interval that isQuietHours tests   *)
(* spans midnight.                                                          *)
THEOREM QuietKept == ASSUME HoursOfTheDay PROVE Spec => []QuietByHost
  <1>1. Init => Awake
    BY DEF Init, Awake
  <1>2. IInv /\ Awake /\ [Next]_vars => Awake'
    BY AwakeStep
  <1>3. IInv /\ Awake => QuietByHost
    <2> SUFFICES ASSUME IInv, Awake, NEW t \in Delivered
                 PROVE  (now[t] + HostOffset) % DayLen \in AwakeSlots
      BY DEF QuietByHost
    <2>1. t \in Ticks /\ child[t] # "none"
      BY DEF IInv, TypeOK, ChildBooks, Delivered
    <2>2. ~IsQuietHours((now[t] + HostOffset) % DayLen, QuietStart, QuietEnd)
      BY <2>1 DEF Awake, Quiet
    <2>3. (now[t] + HostOffset) % DayLen \in 0..(DayLen - 1)
      BY <2>1, Bounds DEF IInv, TypeOK, Times
    <2> QED BY <2>2, <2>3, AwakeIsNotQuiet
  <1> QED BY <1>1, <1>2, <1>3, Invariance, PTL DEF Spec
-----------------------------------------------------------------------------
(***************************************************************************)
(* Theorems about HSpec: what a tick that ran beside no other has saved    *)
(* stays known to the ticks after it, while those overlap as they like.    *)
(***************************************************************************)

(* Starts go up with the clock, ticks under way together have met, and all  *)
(* that started after a tick under way has met it.                          *)
MetBooks ==
    /\ \A t \in Ticks : pc[t] # "idle" => now[t] >= 1 /\ now[t] <= clock
    /\ \A t \in Ticks : \A u \in met[t] : u \in Ticks /\ t \in met[u] /\ pc[u] # "idle"
    /\ \A t, u \in Active : t # u => u \in met[t]
    /\ \A t \in Active, u \in Ticks : pc[u] # "idle" /\ now[u] > now[t] => u \in met[t]

(* The charged messages of ticks that ran alone, and those of them that the *)
(* file has been told of.                                                   *)
Unsaved  == {t \in Ticks : pc[t] \in {"dispatching", "saving", "writing"}}
Told     == {t \in Charged : Alone(t)}
Settled  == Told \ Unsaved
On(R, d) == {t \in R : DateKey(now[t]) = d}

(* No tick of a later date has started.                                     *)
Newest(d) == \A t \in Ticks : pc[t] # "idle" => DateKey(now[t]) <= d

(* The ticks that have saved a message, or rehearsed one; and which of them *)
(* may have replaced the subject of a message in the state.                 *)
Saved          == {t \in Ticks : child[t] = "exit0" /\ pc[t] \in {"written", "done"}}
Own(t)         == IF child[t] = "exit0" THEN {t} ELSE {}
Follows(a, c)  == /\ kind[c] = kind[a]
                  /\ \/ Before(a, c)
                     \/ owner[c] = "dry-run" /\ now[c] >= now[a]
Replaced(a, W) == \E c \in W : Follows(a, c)

(* State s remembers the messages R, but for subjects that W replaced.      *)
TopicKept(s, R, W) ==
    \A a \in R : kind[a] = "topic_followup" => s.topic = subj[a] \/ Replaced(a, W)
SumsUp(s, R, W) ==
    /\ Cardinality(On(R, s.date)) <= s.count
    /\ \A a \in On(R, s.date) :
         /\ kind[a] = "idle_check" => s.ping >= now[a]
         /\ kind[a] = "calendar_event" => s.calendar = subj[a] \/ Replaced(a, W)

(* The file remembers what is settled; with a state of another date, that   *)
(* nothing of the newest date is.                                           *)
FileBooks ==
    /\ file.form = "missing" => Settled = {}
    /\ file.form = "ok" =>
         /\ TopicKept(file.state, Settled, Saved)
         /\ \A d \in Nat : Newest(d) =>
              /\ file.state.date = d => SumsUp(file.state, Settled, Saved)
              /\ file.state.date # d => On(Settled, d) = {}

(* What a tick has decided by: the limit, the last ping, the last subject.  *)
Decided(t) ==
    /\ mem[t].count < MaxDaily
    /\ kind[t] = "idle_check" => IdleReady(t)
    /\ kind[t] = "calendar_event" => subj[t] # mem[t].calendar
    /\ kind[t] = "topic_followup" => subj[t] # mem[t].topic

(* A tick's copy remembers what is settled, and in the end its own message. *)
BookOf(t) ==
    /\ pc[t] \in {"evaluating", "dispatching"} =>
         /\ TopicKept(mem[t], Settled, Saved)
         /\ Newest(mem[t].date) => SumsUp(mem[t], Settled, Saved)
    /\ pc[t] \in {"saving", "writing"} =>
         /\ TopicKept(mem[t], Told, Saved \cup Own(t))
         /\ Newest(mem[t].date) => SumsUp(mem[t], Told, Saved \cup Own(t))
    /\ pc[t] = "dispatching" => Decided(t)
TickBooks == \A t \in Ticks : BookOf(t)

(* The message of a tick under way is later than all those that were told;  *)
(* a dispatcher that reports success delivered, unless it was a dry run.    *)
Ordered == \A t \in Active \cap Delivered, a \in Told : a # t => Before(a, t)
Reported ==
    \A t \in Ticks : /\ child[t] = "exit0" /\ owner[t] # "dry-run" => t \in Delivered
                     /\ child[t] = "delivered" => t \in Delivered
Unowned == \A t \in Ticks : pc[t] = "idle" => owner[t] = "none"

(* FollowUpsNew, where only a saved message in between is an excuse: such a *)
(* message is not lost any more.                                            *)
Varied ==
    \A a, b \in Charged :
        (/\ Before(a, b) /\ kind[a] = kind[b] /\ kind[a] \in {"calendar_event", "topic_followup"}
         /\ \A c \in Saved : Before(a, c) /\ Before(c, b) => kind[c] # kind[a]
         /\ kind[a] = "calendar_event" => DateKey(now[a]) = DateKey(now[b]) /\ NoneLater(b)
         /\ Alone(a) /\ ~RehearsedSince(a, b))
        => subj[a] # subj[b]
Spoken == LimitHeld /\ IdleSpaced /\ Varied

Base == IInv /\ HistoryTypeOK /\ MetBooks /\ Ordered /\ Reported /\ Unowned
SInv == Base /\ FileBooks /\ TickBooks /\ Spoken
-----------------------------------------------------------------------------
(* What a step of the engine is to one tick.                                *)
Rests(u)    == pc'[u] = pc[u] /\ child'[u] = child[u]
Starts(u)   == /\ pc[u] = "idle" /\ pc'[u] = "loading" /\ child'[u] = child[u]
               /\ now'[u] = clock
Decides(u)  == \E s \in Subjects \cup {"none"} : Decide(u, s)
Exits(u)    == \E code \in {"exit0", "exit1"} : ChildExits(u, code)
Finishes(u) == pc[u] = "written" /\ pc'[u] = "done" /\ child'[u] = child[u]
Dies(u)     == pc[u] \in UnderWay \ {"written"} /\ pc'[u] = "dead" /\ child'[u] = child[u]
Moves(u)    == \/ Rests(u) \/ Starts(u) \/ LoadState(u) \/ Decides(u) \/ Deliver(u) \/ Exits(u)
               \/ DispatchEnds(u) \/ OpenState(u) \/ WriteState(u) \/ Finishes(u) \/ Dies(u)

LEMMA Advance ==
  ASSUME TypeOK, ChildBooks, [Next]_vars, NEW u \in Ticks
  PROVE  Moves(u)
  <1> USE DEF TypeOK
  <1>1. ASSUME NEW t \in Ticks, NEW o \in Owners, NEW k \in Kinds, StartTick(t, o, k)
        PROVE  Rests(u) \/ Starts(u)
    BY <1>1 DEF StartTick, Goes, Rests, Starts
  <1>2. ASSUME NEW t \in Ticks, LoadState(t) PROVE Rests(u) \/ LoadState(u)
    BY <1>2 DEF LoadState, Goes, Rests
  <1>3. ASSUME NEW t \in Ticks, NEW s \in Subjects \cup {"none"}, Decide(t, s)
        PROVE  Rests(u) \/ Decides(u)
    <2>1. CASE u = t
      BY <1>3, <2>1 DEF Decides
    <2>2. CASE u # t
      BY <1>3, <2>2 DEF Decide, Goes, Rests
    <2> QED BY <2>1, <2>2
  <1>4. ASSUME NEW t \in Ticks, Deliver(t) PROVE Rests(u) \/ Deliver(u)
    BY <1>4 DEF Deliver, Rests
  <1>5. ASSUME NEW t \in Ticks, NEW code \in {"exit0", "exit1"}, ChildExits(t, code)
        PROVE  Rests(u) \/ Exits(u)
    <2>1. CASE u = t
      BY <1>5, <2>1 DEF Exits
    <2>2. CASE u # t
      BY <1>5, <2>2 DEF ChildExits, Rests
    <2> QED BY <2>1, <2>2
  <1>6. ASSUME NEW t \in Ticks, DispatchEnds(t) PROVE Rests(u) \/ DispatchEnds(u)
    BY <1>6 DEF DispatchEnds, Goes, Rests
  <1>7. ASSUME NEW t \in Ticks, OpenState(t) PROVE Rests(u) \/ OpenState(u)
    BY <1>7 DEF OpenState, Goes, Rests
  <1>8. ASSUME NEW t \in Ticks, WriteState(t) PROVE Rests(u) \/ WriteState(u)
    BY <1>8 DEF WriteState, Goes, Rests
  <1>9. ASSUME Die, child' = child PROVE Rests(u) \/ Finishes(u) \/ Dies(u)
    BY <1>9, DieTyped DEF Rests, Finishes, Dies
  <1>10. ASSUME NEW t \in Ticks, Finish(t) PROVE Rests(u) \/ Finishes(u) \/ Dies(u)
    <2>1. child' = child /\ pc[t] = "written" /\ (Die \/ Goes(t, "done"))
      BY <1>10 DEF Finish, Reports
    <2>2. CASE Goes(t, "done")
      BY <2>1, <2>2 DEF Goes, Rests, Finishes
    <2> QED BY <1>9, <2>1, <2>2
  <1>11. ASSUME Crash PROVE Rests(u) \/ Finishes(u) \/ Dies(u)
    BY <1>9, <1>11 DEF Crash
  <1>12. ASSUME Restart \/ TimePasses \/ UNCHANGED vars PROVE Rests(u)
    BY <1>12 DEF Restart, TimePasses, vars, Rests
  <1>13. CASE \E t \in Ticks, o \in Owners, k \in Kinds : StartTick(t, o, k)
    BY <1>1, <1>13 DEF Moves
  <1>14. CASE \E t \in Ticks, s \in Subjects \cup {"none"} : Decide(t, s)
    BY <1>3, <1>14 DEF Moves
  <1>15. CASE \E t \in Ticks, code \in {"exit0", "exit1"} : ChildExits(t, code)
    BY <1>5, <1>15 DEF Moves
  <1>16. ASSUME NEW t \in Ticks, \/ LoadState(t) \/ Deliver(t) \/ DispatchEnds(t)
                                 \/ OpenState(t) \/ WriteState(t) \/ Finish(t)
         PROVE  Moves(u)
    BY <1>2, <1>4, <1>6, <1>7, <1>8, <1>10, <1>16 DEF Moves
  <1>17. CASE Crash \/ Restart \/ TimePasses \/ UNCHANGED vars
    BY <1>11, <1>12, <1>17 DEF Moves
  <1> QED BY <1>13, <1>14, <1>15, <1>16, <1>17 DEF Next

(* The time goes up, and what a tick has decided on stays.                  *)
LEMMA Fixed ==
  ASSUME TypeOK, ChildBooks, [Next]_vars
  PROVE  /\ clock \in Nat /\ clock >= 1 /\ clock' \in Nat /\ clock <= clock'
         /\ \A u \in Ticks : pc[u] # "idle" =>
               now'[u] = now[u] /\ kind'[u] = kind[u] /\ owner'[u] = owner[u]
         /\ \A u \in Ticks : child[u] # "none" \/ pc[u] # "evaluating" => subj'[u] = subj[u]
         /\ \A u \in Ticks : pc'[u] = pc[u] => mem'[u] = mem[u] /\ owner'[u] = owner[u]
  <1> USE DEF TypeOK
  <1>0. clock \in Nat /\ clock >= 1
    BY Bounds
  <1>1. ASSUME NEW t \in Ticks, NEW o \in Owners, NEW k \in Kinds, StartTick(t, o, k)
        PROVE  /\ clock' = clock /\ mem' = mem /\ subj' = subj
               /\ \A u \in Ticks : pc[u] # "idle" =>
                    now'[u] = now[u] /\ kind'[u] = kind[u] /\ owner'[u] = owner[u]
               /\ \A u \in Ticks : pc'[u] = pc[u] => owner'[u] = owner[u]
    BY <1>1 DEF StartTick, Goes
  <1>2. ASSUME NEW t \in Ticks, NEW s \in Subjects \cup {"none"}, Decide(t, s)
        PROVE  /\ clock' = clock /\ UNCHANGED <<input, mem>>
               /\ \A u \in Ticks : child[u] # "none" \/ pc[u] # "evaluating" => subj'[u] = subj[u]
    BY <1>2 DEF Decide, ChildBooks
  <1>3. ASSUME NEW t \in Ticks, LoadState(t) \/ DispatchEnds(t) \/ WriteState(t)
        PROVE  /\ clock' = clock /\ UNCHANGED <<input, subj>>
               /\ \A u \in Ticks : pc'[u] = pc[u] => mem'[u] = mem[u] /\ owner'[u] = owner[u]
    BY <1>3 DEF LoadState, DispatchEnds, WriteState, Goes, input
  <1>4. ASSUME UNCHANGED <<input, subj, mem>>, clock' \in {clock, clock + 1}
        PROVE  /\ clock' \in Nat /\ clock <= clock' /\ UNCHANGED <<input, subj, mem>>
    BY <1>0, <1>4
  <1>5. CASE \E t \in Ticks, o \in Owners, k \in Kinds : StartTick(t, o, k)
    BY <1>0, <1>1, <1>5
  <1>6. CASE \E t \in Ticks, s \in Subjects \cup {"none"} : Decide(t, s)
    BY <1>0, <1>2, <1>6 DEF input
  <1>7. CASE \E t \in Ticks : LoadState(t) \/ DispatchEnds(t) \/ WriteState(t)
    BY <1>0, <1>3, <1>7 DEF input
  <1>8. CASE UNCHANGED <<input, subj, mem>> /\ clock' \in {clock, clock + 1}
    BY <1>0, <1>4, <1>8 DEF input
  <1>9. ASSUME NEW t \in Ticks, \/ Deliver(t) \/ OpenState(t) \/ Finish(t)
                                \/ \E code \in {"exit0", "exit1"} : ChildExits(t, code)
        PROVE  UNCHANGED <<input, subj, mem>> /\ clock' = clock
    BY <1>9 DEF Deliver, OpenState, Finish, ChildExits
  <1>10. CASE Crash \/ Restart \/ TimePasses \/ UNCHANGED vars
    BY <1>8, <1>10 DEF Crash, Restart, TimePasses, vars, input
  <1> QED BY <1>5, <1>6, <1>7, <1>8, <1>9, <1>10 DEF Next

(* The list of messages only grows, at its end.                             *)
LEMMA SentGrows ==
  ASSUME IInv, [Next]_vars
  PROVE  /\ Delivered \subseteq Ticks /\ \A a \in Delivered : child[a] # "none" /\ pc[a] # "idle"
         /\ \A a, b : Before(a, b) => a \in Delivered /\ b \in Delivered /\ Before(a, b)'
         /\ \A a, b \in Delivered : Before(a, b)' => Before(a, b)
         /\ \A t : t \in Delivered => t \in Delivered'
         /\ \A t : t \in Delivered' => t \in Delivered \/ Deliver(t)
         /\ \A t \in Ticks : Deliver(t) =>
               /\ t \notin Delivered /\ t \in Delivered'
               /\ \A a \in Delivered : Before(a, t)'
               /\ \A a : Before(a, t)' => a \in Delivered
               /\ \A a : ~Before(t, a)'
  <1>0. /\ sent \in Seq(Ticks)
        /\ \A i \in DOMAIN sent : child[sent[i]] \in {"delivered", "exit0", "exit1"}
        /\ \A t \in Ticks : pc[t] = "idle" => child[t] = "none"
    BY DEF IInv, TypeOK, ChildBooks
  <1>1. /\ Delivered \subseteq Ticks /\ \A a \in Delivered : child[a] # "none" /\ pc[a] # "idle"
        /\ \A a, b : Before(a, b) => a \in Delivered /\ b \in Delivered
    BY <1>0 DEF Delivered, Before
  <1>2. ASSUME NEW t \in Ticks, Deliver(t)
        PROVE  /\ sent' = Append(sent, t)
               /\ t \notin Delivered /\ Delivered' = Delivered \cup {t}
               /\ \A a, b \in Delivered : Before(a, b)' <=> Before(a, b)
               /\ \A a \in Delivered : Before(a, t)'
               /\ \A a : Before(a, t)' => a \in Delivered
               /\ \A a : ~Before(t, a)'
    <2>1. sent' = Append(sent, t) /\ \A i \in DOMAIN sent : sent[i] # t
      BY <1>0, <1>2 DEF Deliver
    <2>2. /\ Len(sent) \in Nat /\ DOMAIN sent = 1..Len(sent) /\ DOMAIN sent' = 1..(Len(sent) + 1)
          /\ \A i \in DOMAIN sent : sent'[i] = sent[i]
          /\ sent'[Len(sent) + 1] = t
      BY <1>0, <2>1
    <2>3. t \notin Delivered /\ Delivered' = Delivered \cup {t}
      BY <2>1, <2>2 DEF Delivered
    <2>4. ASSUME NEW a \in Delivered, NEW b \in Delivered PROVE Before(a, b)' <=> Before(a, b)
      <3>1. \A i \in DOMAIN sent' : sent'[i] \in {a, b} => i \in DOMAIN sent /\ sent'[i] = sent[i]
        BY <2>2, <2>3, <2>4
      <3> QED BY <2>2, <3>1 DEF Before
    <2>5. ASSUME NEW a \in Delivered PROVE Before(a, t)'
      <3>1. PICK i \in DOMAIN sent : sent[i] = a
        BY DEF Delivered
      <3>2. i < Len(sent) + 1 /\ i \in DOMAIN sent' /\ sent'[i] = a
        BY <2>2, <3>1
      <3> QED BY <2>2, <3>2 DEF Before
    <2>6. ASSUME NEW a PROVE ~Before(t, a)' /\ (Before(a, t)' => a \in Delivered)
      BY <2>1, <2>2 DEF Before, Delivered
    <2> QED BY <2>1, <2>3, <2>4, <2>5, <2>6
  <1>3. ASSUME sent' = sent
        PROVE  Delivered' = Delivered /\ \A a, b : Before(a, b)' <=> Before(a, b)
    BY <1>3 DEF Delivered, Before
  <1>4. (\E t \in Ticks : Deliver(t)) \/ sent' = sent
    BY DEF Next, vars, StartTick, LoadState, Decide, ChildExits, DispatchEnds, OpenState,
       WriteState, Finish, Crash, Restart, TimePasses
  <1>5. CASE \E t \in Ticks : Deliver(t)
    <2>1. PICK t \in Ticks : Deliver(t)
      BY <1>5
    <2>2. \A u \in Ticks : Deliver(u) => u = t
      <3>1. ASSUME NEW u \in Ticks, Deliver(u) PROVE u = t
        <4>1. u \in Delivered' /\ u \notin Delivered
          BY <1>2, <3>1
        <4> QED BY <1>2, <2>1, <4>1
      <3> QED BY <3>1
    <2> QED BY <1>1, <1>2, <2>1, <2>2
  <1>6. CASE sent' = sent
    <2>1. \A t \in Ticks : ~Deliver(t)
      BY <1>2, <1>3, <1>6
    <2> QED BY <1>1, <1>3, <1>6, <2>1
  <1> QED BY <1>4, <1>5, <1>6
-----------------------------------------------------------------------------
(* What a step adds to the history.                                         *)
LEMMA MetGrows ==
  ASSUME HistoryTypeOK, [HNext]_hvars
  PROVE  /\ [Next]_vars /\ HistoryTypeOK'
         /\ \A t \in Ticks : met[t] \subseteq met'[t]
         /\ \A t \in Ticks : \A u : u \in met'[t] => u \in met[t] \/ (t \in Active' /\ u \in Active' /\ u # t)
         /\ UNCHANGED hvars \/ \A t, u \in Active' : t # u => u \in met'[t]
  <1> USE DEF HistoryTypeOK
  <1>1. CASE UNCHANGED hvars
    BY <1>1 DEF hvars, vars
  <1>2. CASE Next /\ Records
    <2>1. \A t \in Ticks : met'[t] = IF t \in Active' THEN met[t] \cup (Active' \ {t}) ELSE met[t]
      BY <1>2 DEF Records
    <2>2. Active' \subseteq Ticks
      BY DEF Active
    <2>3. met' \in [Ticks -> SUBSET Ticks] /\ clashed' \in BOOLEAN
      BY <1>2, <2>2 DEF Records
    <2> QED BY <1>2, <2>1, <2>2, <2>3
  <1> QED BY <1>1, <1>2 DEF HNext

LEMMA MetStep ==
  ASSUME IInv, HistoryTypeOK, MetBooks, [HNext]_hvars
  PROVE  MetBooks'
  <1>0. TypeOK /\ ChildBooks /\ [Next]_vars
    BY MetGrows DEF IInv
  <1>1. \A u \in Ticks : /\ pc[u] # "idle" => pc'[u] # "idle"
                         /\ pc[u] = "idle" /\ pc'[u] # "idle" => now'[u] = clock /\ u \in Active'
                         /\ u \in Active' => u \in Active \/ pc[u] = "idle"
    <2> SUFFICES ASSUME NEW u \in Ticks
                 PROVE  /\ pc[u] # "idle" => pc'[u] # "idle"
                        /\ pc[u] = "idle" /\ pc'[u] # "idle" => now'[u] = clock /\ u \in Active'
                        /\ u \in Active' => u \in Active \/ pc[u] = "idle"
      OBVIOUS
    <2>1. Moves(u)
      BY <1>0, Advance
    <2>2. CASE Rests(u) \/ Starts(u) \/ Deliver(u) \/ Exits(u) \/ Finishes(u) \/ Dies(u)
      BY <2>2 DEF Rests, Starts, Deliver, Exits, ChildExits, Finishes, Dies, Active, UnderWay
    <2>3. CASE LoadState(u) \/ DispatchEnds(u) \/ OpenState(u) \/ WriteState(u)
      BY <1>0, <2>3 DEF LoadState, DispatchEnds, OpenState, WriteState, Goes, TypeOK,
         Active, UnderWay
    <2>4. CASE Decides(u)
      BY <1>0, <2>4 DEF Decides, Decide, Goes, TypeOK, Active, UnderWay
    <2> QED BY <2>1, <2>2, <2>3, <2>4 DEF Moves
  <1>2. /\ clock \in Nat /\ clock >= 1 /\ clock' \in Nat /\ clock <= clock'
        /\ \A u \in Ticks : pc[u] # "idle" => now'[u] = now[u] /\ now[u] \in Nat
    BY <1>0, Fixed, Bounds DEF TypeOK, Times
  <1>3. \A t \in Ticks : pc'[t] # "idle" => now'[t] >= 1 /\ now'[t] <= clock'
    BY <1>1, <1>2 DEF MetBooks
  <1>4. ASSUME NEW t \in Ticks, NEW u \in met'[t]
        PROVE  u \in Ticks /\ t \in met'[u] /\ pc'[u] # "idle"
    <2>1. CASE u \in met[t]
      BY <1>1, <2>1, MetGrows DEF MetBooks
    <2>2. CASE u \notin met[t]
      <3>1. t \in Active' /\ u \in Active' /\ u # t /\ ~UNCHANGED hvars
        BY <1>4, <2>2, MetGrows DEF hvars
      <3>2. t \in met'[u]
        BY <3>1, MetGrows
      <3> QED BY <3>1, <3>2 DEF Active, UnderWay
    <2> QED BY <2>1, <2>2
  <1>5. \A t, u \in Active' : t # u => u \in met'[t]
    <2>1. UNCHANGED hvars => Active' = Active /\ met' = met
      BY DEF hvars, vars, Active
    <2> QED BY <2>1, MetGrows DEF MetBooks
  <1>6. ASSUME NEW t \in Active', NEW u \in Ticks, pc'[u] # "idle", now'[u] > now'[t]
        PROVE  u \in met'[t]
    <2>0. t \in Ticks /\ Active \subseteq Ticks
      BY DEF Active
    <2>1. CASE pc[t] = "idle"
      <3>1. now'[t] = clock
        BY <1>1, <2>0, <2>1, <1>6 DEF Active, UnderWay
      <3>2. CASE pc[u] = "idle"
        BY <1>1, <1>2, <1>6, <3>1, <3>2
      <3>3. CASE pc[u] # "idle"
        BY <1>2, <1>6, <3>1, <3>3 DEF MetBooks
      <3> QED BY <3>2, <3>3
    <2>2. CASE t \in Active
      <3>1. pc[t] # "idle" /\ now'[t] = now[t]
        BY <1>2, <2>2 DEF Active, UnderWay
      <3>2. CASE pc[u] = "idle"
        <4>1. u \in Active' /\ u # t
          BY <1>1, <1>6, <3>1, <3>2
        <4> QED BY <1>5, <4>1
      <3>3. CASE pc[u] # "idle"
        <4>1. u \in met[t]
          BY <1>2, <1>6, <2>2, <3>1, <3>3 DEF MetBooks
        <4> QED BY <2>0, <4>1, MetGrows
      <3> QED BY <3>2, <3>3
    <2> QED BY <1>1, <2>0, <2>1, <2>2
  <1> QED BY <1>3, <1>4, <1>5, <1>6 DEF MetBooks

(* A tick that ran alone is the only one under way while it lasts, and all  *)
(* that are under way after it started later.                               *)
LEMMA AloneFirst ==
  ASSUME IInv, HistoryTypeOK, MetBooks, NEW a \in Ticks, Alone(a), pc[a] # "idle",
         NEW t \in Active, t # a
  PROVE  /\ a \notin Active /\ now[a] <= now[t] /\ now[a] \in Nat /\ now[t] \in Nat
         /\ t \in Ticks /\ DateKey(now[a]) <= DateKey(now[t])
  <1>1. t \in Ticks /\ now[a] \in Nat /\ now[t] \in Nat
    BY Bounds DEF Active, IInv, TypeOK, Times
  <1>2. a \notin Active
    BY DEF MetBooks, Alone
  <1>3. ~(now[a] > now[t])
    <2>1. now[a] > now[t] => a \in met[t]
      BY DEF MetBooks
    <2>2. a \in met[t] => t \in met[a]
      BY <1>1 DEF MetBooks
    <2> QED BY <2>1, <2>2 DEF Alone
  <1>4. now[a] <= now[t]
    BY <1>1, <1>3
  <1> QED BY <1>1, <1>2, <1>4, DatesInOrder

(* For a tick under way that met none of a later date, its date is the      *)
(* newest.                                                                  *)
LEMMA NewestDate ==
  ASSUME IInv, HistoryTypeOK, MetBooks, NEW t \in Active, NoneLater(t)
  PROVE  Newest(DateKey(now[t]))
  <1> SUFFICES ASSUME NEW u \in Ticks, pc[u] # "idle"
               PROVE  DateKey(now[u]) <= DateKey(now[t])
    BY DEF Newest
  <1>1. t \in Ticks /\ now[u] \in Nat /\ now[t] \in Nat
    BY Bounds DEF Active, IInv, TypeOK, Times
  <1>2. CASE now[u] > now[t]
    BY <1>2 DEF MetBooks, NoneLater
  <1>3. CASE now[u] <= now[t]
    BY <1>1, <1>3, DatesInOrder
  <1> QED BY <1>1, <1>2, <1>3
-----------------------------------------------------------------------------
(* What becomes of the messages: only a delivery adds to those told, only a *)
(* write to those settled, by a tick that is the only one under way.        *)
LEMMA MessagesStep ==
  ASSUME Base, [HNext]_hvars
  PROVE  /\ \A a \in Charged' : a \in Charged \/ (Deliver(a) /\ pc[a] = "dispatching")
         /\ \A a \in Told' : a \in Told \/ (Deliver(a) /\ pc[a] = "dispatching" /\ Alone(a))
         /\ \A a \in Settled' : a \in Settled \/ (WriteState(a) /\ a \in Told)
         /\ Saved \subseteq Saved'
         /\ \A t \in Ticks : NoneLater(t)' => NoneLater(t)
         /\ \A d : Newest(d)' => Newest(d)
         /\ Charged \subseteq Delivered /\ Told \subseteq Charged /\ Delivered \subseteq Ticks
         /\ Charged' \subseteq Ticks /\ Told' \subseteq Ticks
  <1>0. TypeOK /\ ChildBooks /\ [Next]_vars /\ IInv /\ HistoryTypeOK /\ MetBooks
    BY MetGrows DEF Base, IInv
  <1>1. \A t \in Ticks : Alone(t)' => Alone(t)
    BY <1>0, MetGrows DEF Alone
  <1>2. Delivered' \subseteq Ticks /\ Delivered \subseteq Ticks
    <2>1. TypeOK'
      BY <1>0, Typed
    <2>2. ASSUME TypeOK PROVE Delivered \subseteq Ticks
      BY <2>2 DEF TypeOK, Delivered
    <2>3. ASSUME TypeOK' PROVE Delivered' \subseteq Ticks
      BY <2>3 DEF TypeOK, Delivered
    <2> QED BY <1>0, <2>1, <2>2, <2>3
  <1>3. ASSUME NEW a \in Ticks, pc[a] # "idle" PROVE pc'[a] # "idle" /\ (Lost(a) => Lost(a)')
    <2>1. Moves(a) /\ (Lost(a) <=> child[a] = "exit1" \/ pc[a] = "dead")
          /\ (Lost(a)' <=> child'[a] = "exit1" \/ pc'[a] = "dead")
      BY <1>0, Advance DEF Lost
    <2>2. CASE Rests(a) \/ Starts(a) \/ Finishes(a) \/ Dies(a)
      BY <1>3, <2>1, <2>2 DEF Rests, Starts, Finishes, Dies, UnderWay
    <2>3. CASE LoadState(a) \/ DispatchEnds(a) \/ OpenState(a) \/ WriteState(a)
      BY <1>0, <1>3, <2>1, <2>3 DEF LoadState, DispatchEnds, OpenState, WriteState, Goes, TypeOK
    <2>4. CASE Decides(a)
      BY <1>0, <1>3, <2>1, <2>4 DEF Decides, Decide, Goes, TypeOK, ChildBooks
    <2>5. CASE Deliver(a) \/ Exits(a)
      BY <1>0, <1>3, <2>1, <2>5 DEF Deliver, Exits, ChildExits, TypeOK
    <2> QED BY <2>1, <2>2, <2>3, <2>4, <2>5 DEF Moves
  <1>4. ASSUME NEW a \in Charged' PROVE a \in Charged \/ (Deliver(a) /\ pc[a] = "dispatching")
    <2>1. a \in Delivered' /\ ~Lost(a)' /\ a \in Ticks
      BY <1>2, <1>4 DEF Charged
    <2>2. CASE a \in Delivered
      <3>1. pc[a] # "idle"
        BY <1>0, <2>2, SentGrows
      <3> QED BY <1>3, <2>1, <2>2, <3>1 DEF Charged
    <2>3. CASE Deliver(a)
      <3>1. pc[a] \in {"dispatching", "dead"} /\ pc' = pc
        BY <1>0, <2>1, <2>3 DEF Deliver, ChildBooks
      <3> QED BY <2>1, <2>3, <3>1 DEF Lost
    <2> QED BY <1>0, <2>1, <2>2, <2>3, SentGrows
  <1>5. ASSUME NEW a \in Told'
        PROVE  a \in Told \/ (Deliver(a) /\ pc[a] = "dispatching" /\ Alone(a))
    <2>1. a \in Charged' /\ Alone(a)' /\ a \in Ticks
      BY <1>2, <1>5 DEF Told, Charged
    <2> QED BY <1>1, <1>4, <2>1 DEF Told
  <1>6. ASSUME NEW a \in Settled' PROVE a \in Settled \/ (WriteState(a) /\ a \in Told)
    <2>1. a \in Told' /\ a \notin Unsaved' /\ a \in Ticks /\ ~Lost(a)'
      BY <1>2, <1>6 DEF Settled, Told, Charged
    <2>2. pc'[a] \notin {"dispatching", "saving", "writing"} /\ pc'[a] # "dead"
      BY <2>1 DEF Unsaved, Lost
    <2>3. a \in Told
      <3>1. Deliver(a) => pc'[a] = pc[a]
        BY DEF Deliver
      <3> QED BY <1>5, <2>1, <2>2, <3>1
    <2>4. CASE a \in Unsaved
      <3>1. pc[a] \in {"dispatching", "saving", "writing"} /\ Moves(a)
        BY <1>0, <2>1, <2>4, Advance DEF Unsaved
      <3>2. CASE Rests(a) \/ Starts(a) \/ Deliver(a) \/ Exits(a) \/ Finishes(a) \/ Dies(a)
        BY <2>2, <3>1, <3>2 DEF Rests, Starts, Deliver, Exits, ChildExits, Finishes, Dies
      <3>3. CASE LoadState(a) \/ DispatchEnds(a) \/ OpenState(a)
        BY <1>0, <2>1, <2>2, <3>1, <3>3 DEF LoadState, DispatchEnds, OpenState, Goes, TypeOK
      <3>4. CASE Decides(a)
        BY <3>1, <3>4 DEF Decides, Decide
      <3> QED BY <2>3, <3>1, <3>2, <3>3, <3>4 DEF Moves
    <2> QED BY <2>3, <2>4 DEF Settled
  <1>7. ASSUME NEW t \in Saved PROVE t \in Saved'
    <2>1. t \in Ticks /\ child[t] = "exit0" /\ pc[t] \in {"written", "done"} /\ Moves(t)
      BY <1>0, <1>7, Advance DEF Saved
    <2>2. CASE Rests(t) \/ Starts(t) \/ Deliver(t) \/ Exits(t) \/ Finishes(t) \/ Dies(t)
      BY <2>1, <2>2 DEF Rests, Starts, Deliver, Exits, ChildExits, Finishes, Dies, Saved, UnderWay
    <2>3. CASE LoadState(t) \/ DispatchEnds(t) \/ OpenState(t) \/ WriteState(t) \/ Decides(t)
      BY <2>1, <2>3 DEF LoadState, DispatchEnds, OpenState, WriteState, Decides, Decide
    <2> QED BY <2>1, <2>2, <2>3 DEF Moves
  <1>8. ASSUME NEW t \in Ticks, NoneLater(t)' PROVE NoneLater(t)
    <2>1. CASE met[t] = {}
      BY <2>1 DEF NoneLater
    <2>2. CASE met[t] # {}
      <3>1. pc[t] # "idle" /\ \A u \in met[t] : u \in Ticks /\ pc[u] # "idle"
        BY <1>0, <2>2 DEF MetBooks
      <3>2. now'[t] = now[t] /\ \A u \in met[t] : now'[u] = now[u] /\ u \in met'[t]
        BY <1>0, <3>1, Fixed, MetGrows
      <3>3. \A u \in met[t] : DateKey(now'[u]) <= DateKey(now'[t])
        BY <1>8, <3>2 DEF NoneLater, DateKey
      <3> QED BY <3>2, <3>3 DEF NoneLater
    <2> QED BY <2>1, <2>2
  <1>9. ASSUME NEW d, Newest(d)' PROVE Newest(d)
    <2>1. \A u \in Ticks : pc[u] # "idle" => DateKey(now'[u]) <= d
      BY <1>3, <1>9 DEF Newest, DateKey
    <2>2. \A u \in Ticks : pc[u] # "idle" => now'[u] = now[u]
      BY <1>0, Fixed
    <2> QED BY <2>1, <2>2 DEF Newest
  <1>10. /\ Charged \subseteq Delivered /\ Told \subseteq Charged
         /\ Charged' \subseteq Ticks /\ Told' \subseteq Ticks
    BY <1>2 DEF Charged, Told
  <1> QED BY <1>2, <1>4, <1>5, <1>6, <1>7, <1>8, <1>9, <1>10
-----------------------------------------------------------------------------
LEMMA OrderedStep ==
  ASSUME Base, [HNext]_hvars
  PROVE  Ordered'
  <1> SUFFICES ASSUME NEW t \in (Active \cap Delivered)', NEW a \in Told', a # t
               PROVE  Before(a, t)'
    BY DEF Ordered
  <1>0. TypeOK /\ ChildBooks /\ [Next]_vars /\ IInv /\ HistoryTypeOK /\ MetBooks
    BY MetGrows DEF Base, IInv
  <1>1. t \in Ticks /\ pc'[t] \in UnderWay /\ t \in Delivered'
    BY DEF Active
  <1>2. t \in Delivered => t \in Active
    <2> SUFFICES ASSUME t \in Delivered PROVE t \in Active
      OBVIOUS
    <2>1. child[t] # "none" /\ Moves(t)
      BY <1>0, <1>1, Advance, SentGrows
    <2>2. pc[t] \notin {"idle", "loading", "evaluating", "failed"}
      BY <1>0, <1>1, <2>1 DEF ChildBooks
    <2>3. pc[t] \notin {"done", "dead"}
      <3>1. CASE Rests(t) \/ Starts(t) \/ Deliver(t) \/ Exits(t) \/ Finishes(t) \/ Dies(t)
        BY <1>1, <3>1 DEF Rests, Starts, Deliver, Exits, ChildExits, Finishes, Dies, UnderWay
      <3>2. CASE LoadState(t) \/ DispatchEnds(t) \/ OpenState(t) \/ WriteState(t) \/ Decides(t)
        BY <3>2 DEF LoadState, DispatchEnds, OpenState, WriteState, Decides, Decide
      <3> QED BY <2>1, <3>1, <3>2 DEF Moves
    <2> QED BY <1>0, <1>1, <2>2, <2>3 DEF Active, TypeOK, UnderWay
  <1>3. CASE t \in Delivered
    <2>1. a \in Told
      <3>1. ASSUME Deliver(a), pc[a] = "dispatching", Alone(a) PROVE FALSE
        <4>1. a \in Ticks /\ a \in Active /\ t \in Active
          <5>1. a \in Ticks
            BY MessagesStep
          <5> QED BY <1>2, <1>3, <3>1, <5>1 DEF Active, UnderWay
        <4> QED BY <1>0, <3>1, <4>1 DEF MetBooks, Alone
      <3> QED BY <3>1, MessagesStep
    <2> QED BY <1>0, <1>2, <1>3, <2>1, SentGrows DEF Base, Ordered
  <1>4. CASE t \notin Delivered
    <2>1. Deliver(t)
      BY <1>0, <1>1, <1>4, SentGrows
    <2>2. a \in Delivered' /\ (a \in Delivered \/ Deliver(a))
      BY <1>0, SentGrows DEF Told, Charged
    <2>3. a \in Delivered
      <3>1. Deliver(a) => sent' = Append(sent, a) /\ a \in Ticks
        <4> QED BY MessagesStep DEF Deliver
      <3>2. sent' = Append(sent, t) /\ sent \in Seq(Ticks)
        BY <1>0, <2>1 DEF Deliver, TypeOK
      <3>3. Deliver(a) => a = t
        BY <1>1, <3>1, <3>2
      <3> QED BY <2>2, <3>3
    <2> QED BY <1>0, <1>1, <2>1, <2>3, SentGrows
  <1> QED BY <1>3, <1>4

LEMMA ReportedStep ==
  ASSUME IInv, Reported, [Next]_vars
  PROVE  Reported'
  <1>1. ASSUME NEW t \in Ticks, NEW o \in Owners, NEW k \in Kinds, StartTick(t, o, k)
        PROVE  Reported'
    BY <1>1 DEF IInv, TypeOK, ChildBooks, StartTick, Reported, Delivered
  <1>2. ASSUME NEW t \in Ticks, NEW s \in Subjects \cup {"none"}, Decide(t, s)
        PROVE  Reported'
    BY <1>2 DEF IInv, TypeOK, ChildBooks, Decide, Reported, Delivered, input
  <1>3. ASSUME NEW t \in Ticks, NEW code \in {"exit0", "exit1"}, ChildExits(t, code)
        PROVE  Reported'
    BY <1>3 DEF IInv, TypeOK, ChildExits, Reported, Delivered, input
  <1>4. ASSUME NEW t \in Ticks, Deliver(t) PROVE Reported'
    <2>1. /\ child' = [child EXCEPT ![t] = "delivered"] /\ owner' = owner
          /\ t \in Delivered' /\ \A u : u \in Delivered => u \in Delivered'
      BY <1>4, SentGrows DEF Deliver, input
    <2> QED BY <2>1 DEF IInv, TypeOK, Reported
  <1>5. ASSUME UNCHANGED <<child, owner, sent>> PROVE Reported'
    BY <1>5 DEF Reported, Delivered
  <1> QED
    BY <1>1, <1>2, <1>3, <1>4, <1>5
       DEF Next, vars, input, LoadState, DispatchEnds, OpenState, WriteState, Finish, Crash,
           Restart, TimePasses

LEMMA UnownedStep == ASSUME IInv, Unowned, [Next]_vars PROVE Unowned'
  <1> SUFFICES ASSUME NEW t \in Ticks, pc'[t] = "idle" PROVE owner'[t] = "none"
    BY DEF Unowned
  <1>1. TypeOK /\ ChildBooks /\ Moves(t)
    BY Advance DEF IInv
  <1>2. CASE \/ Rests(t) \/ Starts(t) \/ Deliver(t) \/ Exits(t) \/ Finishes(t) \/ Dies(t)
    <2>1. pc'[t] = pc[t]
      BY <1>2 DEF Rests, Starts, Deliver, Exits, ChildExits, Finishes, Dies
    <2> QED BY <1>1, <2>1, Fixed DEF Unowned
  <1>3. CASE \/ LoadState(t) \/ DispatchEnds(t) \/ OpenState(t) \/ WriteState(t) \/ Decides(t)
    BY <1>1, <1>3 DEF LoadState, DispatchEnds, OpenState, WriteState, Decides, Decide, Goes, TypeOK
  <1> QED BY <1>1, <1>2, <1>3 DEF Moves

LEMMA BaseStep == Base /\ [HNext]_hvars => Base'
  <1> SUFFICES ASSUME Base, [HNext]_hvars PROVE Base'
    OBVIOUS
  <1>1. IInv /\ HistoryTypeOK /\ MetBooks /\ Reported /\ Unowned /\ [Next]_vars
    BY MetGrows DEF Base
  <1>2. IInv'
    BY <1>1, Typed, Children, BackedStep DEF IInv
  <1> QED BY <1>1, <1>2, MetGrows, MetStep, OrderedStep, ReportedStep, UnownedStep DEF Base
-----------------------------------------------------------------------------
(* What remembers a set of messages goes on to do so, while that does not   *)
(* grow and what was saved stays so.                                        *)
LEMMA FiniteOn ==
  ASSUME NEW R, R \subseteq Ticks, NEW d
  PROVE  IsFiniteSet(On(R, d)) /\ Cardinality(On(R, d)) \in Nat
  <1>1. On(R, d) \subseteq Ticks
    BY DEF On
  <1> QED BY <1>1, Bounds, FS_Subset, FS_CardinalityType

LEMMA SumsStay ==
  ASSUME Base, [HNext]_hvars, NEW s \in State, NEW R, NEW R2, NEW W, NEW W2,
         R \subseteq Delivered, R2 \subseteq R, W \subseteq W2,
         \A t \in W : t \in Ticks /\ pc[t] # "idle"
  PROVE  /\ TopicKept(s, R, W) => TopicKept(s, R2, W2)'
         /\ SumsUp(s, R, W) => SumsUp(s, R2, W2)'
  <1>0. TypeOK /\ ChildBooks /\ [Next]_vars /\ IInv
    BY MetGrows DEF Base, IInv
  <1>1. \A a \in R : /\ a \in Ticks /\ now'[a] = now[a] /\ kind'[a] = kind[a]
                     /\ subj'[a] = subj[a] /\ DateKey(now'[a]) = DateKey(now[a])
    BY <1>0, Fixed, SentGrows
  <1>2. ASSUME NEW a \in R, Replaced(a, W) PROVE Replaced(a, W2)'
    <2>1. PICK c \in W : Follows(a, c)
      BY <1>2 DEF Replaced
    <2>2. now'[c] = now[c] /\ kind'[c] = kind[c] /\ owner'[c] = owner[c]
      BY <1>0, Fixed
    <2>3. Before(a, c) => Before(a, c)'
      BY <1>0, SentGrows
    <2>4. Follows(a, c)'
      BY <1>1, <2>1, <2>2, <2>3 DEF Follows
    <2> QED BY <2>4 DEF Replaced
  <1>3. TopicKept(s, R, W) => TopicKept(s, R2, W2)'
    BY <1>1, <1>2 DEF TopicKept
  <1>4. ASSUME SumsUp(s, R, W) PROVE SumsUp(s, R2, W2)'
    <2>1. On(R2, s.date)' \subseteq On(R, s.date)
      BY <1>1 DEF On, DateKey
    <2>2. IsFiniteSet(On(R, s.date)) /\ Cardinality(On(R, s.date)) \in Nat /\ s.count \in Nat
      BY <1>1, FiniteOn DEF State
    <2>3. /\ Cardinality(On(R2, s.date)') <= Cardinality(On(R, s.date))
          /\ Cardinality(On(R2, s.date)') \in Nat
      BY <2>1, <2>2, FS_Subset, FS_CardinalityType
    <2>4. Cardinality(On(R2, s.date)') <= s.count
      BY <1>4, <2>2, <2>3 DEF SumsUp
    <2>5. \A a \in On(R2, s.date)' : a \in R /\ a \in On(R, s.date)
      BY <2>1 DEF On
    <2>6. \A a \in On(R2, s.date)' :
            /\ kind'[a] = "idle_check" => s.ping >= now'[a]
            /\ kind'[a] = "calendar_event" => s.calendar = subj'[a] \/ Replaced(a, W2)'
      BY <1>1, <1>2, <1>4, <2>5 DEF SumsUp
    <2> QED BY <2>4, <2>6 DEF SumsUp
  <1> QED BY <1>3, <1>4
-----------------------------------------------------------------------------
(* The copies of the ticks.                                                 *)
LEMMA TypedBooks ==
  ASSUME Base
  PROVE  /\ \A t \in Ticks : mem[t] \in State /\ now[t] \in Nat /\ DateKey(now[t]) \in Nat
         /\ file.state \in State
         /\ \A t \in Saved : t \in Ticks /\ pc[t] # "idle"
         /\ \A t \in Ticks : \A u \in Own(t) : u = t /\ child[t] = "exit0"
         /\ Settled \subseteq Told /\ Told \subseteq Delivered /\ Delivered \subseteq Ticks
         /\ \A a \in Told : a \in Ticks /\ Alone(a) /\ pc[a] # "idle" /\ child[a] # "none"
  <1>1. Delivered \subseteq Ticks /\ \A a \in Delivered : child[a] # "none" /\ pc[a] # "idle"
    BY DEF Base, IInv, TypeOK, ChildBooks, Delivered
  <1>2. \A t \in Ticks : mem[t] \in State /\ now[t] \in Nat /\ DateKey(now[t]) \in Nat
    <2>1. \A t \in Ticks : mem[t] \in State /\ now[t] \in Nat
      BY Bounds DEF Base, IInv, TypeOK, Times
    <2> QED BY <2>1, DateIsNatural
  <1>3. \A t \in Saved : t \in Ticks /\ pc[t] # "idle"
    BY DEF Saved
  <1> QED BY <1>1, <1>2, <1>3 DEF Base, IInv, TypeOK, Own, Settled, Told, Charged

(* While a tick is under way, a message told but not settled is its own,    *)
(* and all others came from ticks that were over when it started.           *)
LEMMA ToldBefore ==
  ASSUME Base, NEW t \in Active
  PROVE  /\ t \in Ticks /\ \A a \in Told : a = t \/ a \in Settled
         /\ t \notin Unsaved => Told = Settled
         /\ \A a \in Told : a # t => a \notin Active /\ now[a] <= now[t] /\ now[a] >= 1
         /\ \A a \in Settled : ~(DateKey(now[a]) > DateKey(now[t]))
  <1>0. IInv /\ HistoryTypeOK /\ MetBooks /\ t \in Ticks
    BY DEF Base, Active
  <1>1. \A a \in Told : a # t => /\ a \notin Active /\ now[a] <= now[t] /\ now[a] >= 1
                                 /\ DateKey(now[a]) <= DateKey(now[t])
    <2> SUFFICES ASSUME NEW a \in Told, a # t
                 PROVE  /\ a \notin Active /\ now[a] <= now[t] /\ now[a] >= 1
                        /\ DateKey(now[a]) <= DateKey(now[t])
      OBVIOUS
    <2>1. a \in Ticks /\ Alone(a) /\ pc[a] # "idle"
      BY TypedBooks
    <2> QED BY <1>0, <2>1, AloneFirst DEF MetBooks
  <1>2. \A a \in Told : a = t \/ a \in Settled
    BY <1>1 DEF Settled, Unsaved, Active, UnderWay
  <1>3. t \notin Unsaved => Told = Settled
    BY <1>2 DEF Settled
  <1>4. \A a \in Settled : ~(DateKey(now[a]) > DateKey(now[t]))
    <2> SUFFICES ASSUME NEW a \in Settled, DateKey(now[a]) > DateKey(now[t]) PROVE FALSE
      OBVIOUS
    <2>1. a \in Told /\ a \in Ticks /\ DateKey(now[a]) \in Nat /\ DateKey(now[t]) \in Nat
      BY <1>0, TypedBooks
    <2>2. a = t \/ DateKey(now[a]) <= DateKey(now[t])
      BY <1>1, <2>1
    <2> QED BY <2>1, <2>2
  <1> QED BY <1>0, <1>1, <1>2, <1>3, <1>4

(* A tick that a step leaves where it is, or brings to its end.             *)
LEMMA TickKept ==
  ASSUME SInv, [HNext]_hvars, NEW t \in Ticks, pc'[t] = pc[t],
         pc[t] \in {"saving", "writing"} => child'[t] = child[t]
  PROVE  BookOf(t)'
  <1>0. Base /\ BookOf(t) /\ [Next]_vars /\ TypeOK /\ ChildBooks /\ IInv
    BY MetGrows DEF SInv, TickBooks, Base, IInv
  <1>1. mem'[t] = mem[t] /\ pc'[t] = pc[t] /\ mem[t] \in State
    BY <1>0, Fixed, TypedBooks
  <1>2. CASE pc[t] \in {"evaluating", "dispatching", "saving", "writing"}
    <2>0. t \in Active /\ pc[t] # "idle" /\ mem[t].date = DateKey(now[t])
      BY <1>0, <1>2 DEF Active, UnderWay, IInv, CopiesBacked, CopyBacked
    <2>1. Settled' \subseteq Settled
      <3> SUFFICES ASSUME NEW a \in Settled', WriteState(a), a \in Told PROVE FALSE
        BY <1>0, MessagesStep
      <3>1. pc[a] = "writing" /\ pc'[a] = "written" /\ a \in Ticks /\ a \in Active
        BY <1>0, TypedBooks DEF WriteState, Goes, TypeOK, Active, UnderWay
      <3>2. a # t
        BY <1>1, <3>1
      <3> QED BY <1>0, <2>0, <3>1, <3>2, ToldBefore
    <2>2. pc[t] \in {"saving", "writing"} => Told' \subseteq Told
      <3> SUFFICES ASSUME pc[t] \in {"saving", "writing"}, NEW a \in Told', Deliver(a),
                          pc[a] = "dispatching", Alone(a)
                   PROVE  FALSE
        BY <1>0, MessagesStep
      <3>1. a \in Ticks
        BY <1>0, MessagesStep
      <3>2. a \in Active /\ a # t
        BY <3>1 DEF Active, UnderWay
      <3> QED BY <1>0, <2>0, <3>1, <3>2 DEF Base, MetBooks, Alone
    <2>3. /\ Saved \subseteq Saved'
          /\ pc[t] \in {"saving", "writing"} => (Saved \cup Own(t)) \subseteq (Saved \cup Own(t))'
      <3>1. pc[t] \in {"saving", "writing"} => Own(t)' = Own(t)
        BY <1>1 DEF Own
      <3> QED BY <1>0, <3>1, MessagesStep
    <2>4. /\ Settled \subseteq Delivered /\ Told \subseteq Delivered
          /\ \A u \in Saved \cup Own(t) : u \in Ticks /\ pc[u] # "idle"
      BY <1>0, <2>0, TypedBooks
    <2>5. Newest(mem[t].date)' => Newest(mem[t].date)
      BY <1>0, <1>1, MessagesStep DEF Newest, DateKey
    <2>6. pc[t] \in {"evaluating", "dispatching"} =>
            /\ TopicKept(mem[t], Settled, Saved)'
            /\ Newest(mem[t].date) => SumsUp(mem[t], Settled, Saved)'
      <3>1. /\ TopicKept(mem[t], Settled, Saved) => TopicKept(mem[t], Settled, Saved)'
            /\ SumsUp(mem[t], Settled, Saved) => SumsUp(mem[t], Settled, Saved)'
        BY <1>0, <1>1, <2>1, <2>3, <2>4, SumsStay
      <3> QED BY <1>0, <3>1 DEF BookOf
    <2>7. pc[t] \in {"saving", "writing"} =>
            /\ TopicKept(mem[t], Told, Saved \cup Own(t))'
            /\ Newest(mem[t].date) => SumsUp(mem[t], Told, Saved \cup Own(t))'
      <3>1. ASSUME pc[t] \in {"saving", "writing"}
            PROVE  /\ TopicKept(mem[t], Told, Saved \cup Own(t)) =>
                          TopicKept(mem[t], Told, Saved \cup Own(t))'
                   /\ SumsUp(mem[t], Told, Saved \cup Own(t)) =>
                          SumsUp(mem[t], Told, Saved \cup Own(t))'
        BY <1>0, <1>1, <2>2, <2>3, <2>4, <3>1, SumsStay
      <3> QED BY <1>0, <3>1 DEF BookOf
    <2>8. pc[t] = "dispatching" => Decided(t)'
      <3>1. kind'[t] = kind[t] /\ now'[t] = now[t]
        BY <1>0, <2>0, Fixed
      <3>2. pc[t] = "dispatching" => subj'[t] = subj[t]
        BY <1>0, Fixed
      <3> QED BY <1>0, <1>1, <3>1, <3>2 DEF BookOf, Decided, IdleReady, UserIdle
    <2> QED BY <1>1, <2>5, <2>6, <2>7, <2>8 DEF BookOf
  <1>3. CASE pc[t] \notin {"evaluating", "dispatching", "saving", "writing"}
    BY <1>1, <1>3 DEF BookOf
  <1> QED BY <1>2, <1>3
(* Loading: what the file remembers, for the date of the tick.              *)
LEMMA LoadBook ==
  ASSUME SInv, [HNext]_hvars, NEW t \in Ticks, LoadState(t)
  PROVE  BookOf(t)'
  <1>0. Base /\ [Next]_vars /\ TypeOK /\ ChildBooks /\ IInv
    BY MetGrows DEF SInv, Base, IInv
  <1> DEFINE d == DateKey(now[t])
  <1>1. d \in Nat /\ t \in Active /\ pc'[t] \in {"evaluating", "failed"} /\ now' = now
    BY <1>0, TypedBooks DEF LoadState, Goes, TypeOK, Active, UnderWay, input
  <1>2. CASE pc'[t] = "evaluating"
    <2>1. file.form \in {"missing", "ok"} /\ mem'[t] = Loaded(d)
      BY <1>0, <1>2 DEF LoadState, Goes, TypeOK
    <2>2. /\ Loaded(d) \in State /\ Loaded(d).date = d /\ Loaded(d).count \in Nat
          /\ file.form = "ok" => Loaded(d).topic = file.state.topic
          /\ file.form = "ok" /\ file.state.date = d => Loaded(d) = file.state
      BY <1>0, <1>1, <2>1, LoadedIsState DEF State
    <2> HIDE DEF d
    <2>3. TopicKept(Loaded(d), Settled, Saved)
      BY <1>0, <2>1, <2>2 DEF SInv, FileBooks, TopicKept
    <2>4. ASSUME Newest(d) PROVE SumsUp(Loaded(d), Settled, Saved)
      <3>1. CASE file.form = "ok" /\ file.state.date = d
        BY <1>1, <2>2, <2>4, <3>1 DEF SInv, FileBooks
      <3>2. CASE ~(file.form = "ok" /\ file.state.date = d)
        <4>1. On(Settled, d) = {}
          BY <1>1, <2>1, <2>4, <3>2 DEF SInv, FileBooks, On
        <4>2. On(Settled, Loaded(d).date) = {} /\ Cardinality({}) = 0
          BY <2>2, <4>1, FS_EmptySet
        <4> QED BY <2>2, <4>2 DEF SumsUp
      <3> QED BY <3>1, <3>2
    <2>5. Settled' \subseteq Settled /\ Saved \subseteq Saved'
      <3>1. \A a : a \in Settled' => a \in Settled \/ (WriteState(a) /\ a \in Told)
        BY <1>0, MessagesStep
      <3>2. \A a \in Told : ~WriteState(a)
        <4> SUFFICES ASSUME NEW a \in Told, WriteState(a) PROVE FALSE
          OBVIOUS
        <4>1. a \in Ticks /\ pc[a] = "writing" /\ pc[t] = "loading"
          BY <1>0, TypedBooks DEF WriteState, LoadState
        <4>2. a \in Active
          BY <4>1 DEF Active, UnderWay
        <4> QED BY <1>0, <1>1, <4>1, <4>2, ToldBefore
      <3> QED BY <1>0, <3>1, <3>2, MessagesStep
    <2>6. Settled \subseteq Delivered /\ \A u \in Saved : u \in Ticks /\ pc[u] # "idle"
      BY <1>0, TypedBooks
    <2>7. /\ TopicKept(Loaded(d), Settled, Saved) => TopicKept(mem[t], Settled, Saved)'
          /\ SumsUp(Loaded(d), Settled, Saved) => SumsUp(mem[t], Settled, Saved)'
      BY <1>0, <2>1, <2>2, <2>5, <2>6, SumsStay
    <2>8. Newest(mem[t].date)' => Newest(d)
      BY <1>0, <2>1, <2>2, MessagesStep DEF Newest, DateKey
    <2> QED BY <1>2, <2>3, <2>4, <2>7, <2>8 DEF BookOf
  <1>3. CASE pc'[t] = "failed"
    BY <1>3 DEF BookOf
  <1> QED BY <1>1, <1>2, <1>3

(* A step of a tick under way that delivers and writes nothing: what its    *)
(* copy will be remembers now, it remembers then.                           *)
LEMMA CopyStays ==
  ASSUME Base, [HNext]_hvars, NEW t \in Active, NEW s \in State, mem'[t] = s,
         ~WriteState(t), ~Deliver(t), NEW W, W \subseteq (Saved \cup Own(t))'
         , \A u \in W : u \in Ticks /\ pc[u] # "idle"
  PROVE  /\ TopicKept(s, Told, W) => TopicKept(mem[t], Told, Saved \cup Own(t))'
         /\ SumsUp(s, Told, W) => SumsUp(mem[t], Told, Saved \cup Own(t))'
         /\ TopicKept(s, Settled, Saved) => TopicKept(mem[t], Settled, Saved)'
         /\ SumsUp(s, Settled, Saved) => SumsUp(mem[t], Settled, Saved)'
         /\ Newest(mem[t].date)' => Newest(s.date)
  <1>0. t \in Ticks /\ Settled \subseteq Delivered /\ Told \subseteq Delivered
        /\ \A u \in Saved : u \in Ticks /\ pc[u] # "idle"
    BY TypedBooks DEF Active
  <1>1. Told' \subseteq Told
    <2> SUFFICES ASSUME NEW a \in Told', Deliver(a), pc[a] = "dispatching", Alone(a) PROVE FALSE
      BY MessagesStep
    <2>1. a \in Ticks /\ a \in Active /\ a # t
      BY MessagesStep DEF Active, UnderWay
    <2> QED BY <1>0, <2>1 DEF Base, MetBooks, Alone
  <1>2. Settled' \subseteq Settled
    <2> SUFFICES ASSUME NEW a \in Settled', WriteState(a), a \in Told PROVE FALSE
      BY MessagesStep
    <2>1. a \in Ticks /\ pc[a] = "writing" /\ a # t
      BY TypedBooks DEF WriteState
    <2>2. a \in Active
      BY <2>1 DEF Active, UnderWay
    <2> QED BY <2>1, <2>2, ToldBefore
  <1>3. /\ TopicKept(s, Told, W) => TopicKept(mem[t], Told, Saved \cup Own(t))'
        /\ SumsUp(s, Told, W) => SumsUp(mem[t], Told, Saved \cup Own(t))'
    BY <1>0, <1>1, SumsStay
  <1>4. /\ TopicKept(s, Settled, Saved) => TopicKept(mem[t], Settled, Saved)'
        /\ SumsUp(s, Settled, Saved) => SumsUp(mem[t], Settled, Saved)'
    BY <1>0, <1>2, MessagesStep, SumsStay
  <1>5. Newest(mem[t].date)' => Newest(s.date)
    BY MessagesStep DEF Newest, DateKey
  <1> QED BY <1>3, <1>4, <1>5

LEMMA DecideBook ==
  ASSUME SInv, [HNext]_hvars, NEW t \in Ticks, NEW s \in Subjects \cup {"none"}, Decide(t, s)
  PROVE  BookOf(t)'
  <1>0. Base /\ [Next]_vars /\ TypeOK /\ ChildBooks /\ IInv /\ BookOf(t)
    BY MetGrows DEF SInv, TickBooks, Base, IInv
  <1>1. /\ pc[t] = "evaluating" /\ pc'[t] \in {"dispatching", "saving"} /\ t \in Active
        /\ mem' = mem /\ kind' = kind /\ now' = now /\ subj'[t] = s /\ child[t] = "none"
        /\ mem[t] \in State /\ ~WriteState(t) /\ ~Deliver(t)
    BY <1>0 DEF Decide, Goes, TypeOK, Active, UnderWay, input, ChildBooks, WriteState, Deliver
  <1>2. /\ TopicKept(mem[t], Settled, Saved)
        /\ Newest(mem[t].date) => SumsUp(mem[t], Settled, Saved)
        /\ Told = Settled
    BY <1>0, <1>1, ToldBefore DEF BookOf, Unsaved
  <1>3. /\ Saved \subseteq (Saved \cup Own(t))'
        /\ \A u \in Saved : u \in Ticks /\ pc[u] # "idle"
    BY <1>0, MessagesStep, TypedBooks
  <1>4. /\ TopicKept(mem[t], Told, Saved) => TopicKept(mem[t], Told, Saved \cup Own(t))'
        /\ SumsUp(mem[t], Told, Saved) => SumsUp(mem[t], Told, Saved \cup Own(t))'
        /\ TopicKept(mem[t], Settled, Saved) => TopicKept(mem[t], Settled, Saved)'
        /\ SumsUp(mem[t], Settled, Saved) => SumsUp(mem[t], Settled, Saved)'
        /\ Newest(mem[t].date)' => Newest(mem[t].date)
    BY <1>0, <1>1, <1>3, CopyStays
  <1>5. pc'[t] = "dispatching" => Decided(t)'
    <2> SUFFICES ASSUME pc'[t] = "dispatching" PROVE Decided(t)'
      OBVIOUS
    <2>1. Due(t, s) /\ WithinQuota(t)
      BY <1>0 DEF Decide, Goes, TypeOK
    <2>2. mem[t].count < MaxDaily
      BY <2>1 DEF WithinQuota
    <2>3. kind[t] = "idle_check" => IdleReady(t)
      BY <2>1 DEF Due
    <2>4. kind[t] = "calendar_event" => s # mem[t].calendar
      BY <2>1 DEF Due
    <2>5. kind[t] = "topic_followup" => s # mem[t].topic
      BY <2>1 DEF Due
    <2>6. IdleReady(t) => IdleReady(t)'
      BY <1>1 DEF IdleReady, UserIdle
    <2> QED BY <1>1, <2>2, <2>3, <2>4, <2>5, <2>6 DEF Decided
  <1>6. CASE pc'[t] = "dispatching"
    BY <1>2, <1>4, <1>5, <1>6 DEF BookOf
  <1>7. CASE pc'[t] = "saving"
    BY <1>2, <1>4, <1>7 DEF BookOf
  <1> QED BY <1>1, <1>6, <1>7

(* The dispatcher reports: the state with its message charged remembers     *)
(* that message too, and what it did not deliver is nothing to remember.    *)
LEMMA ReportSums ==
  ASSUME SInv, NEW t \in Ticks, DispatchEnds(t)
  PROVE  /\ TopicKept(Charge(t), Told, Saved \cup Own(t))
         /\ Newest(mem[t].date) => SumsUp(Charge(t), Told, Saved \cup Own(t))
  <1>0. Base /\ TypeOK /\ ChildBooks /\ IInv /\ BookOf(t)
    BY DEF SInv, TickBooks, Base, IInv
  <1> DEFINE d == mem[t].date
  <1>1. /\ pc[t] = "dispatching" /\ child[t] \in {"exit0", "exit1"} /\ t \in Active
        /\ d = DateKey(now[t]) /\ d \in Nat /\ mem[t] \in State /\ now[t] \in Nat
        /\ TopicKept(mem[t], Settled, Saved) /\ Decided(t)
        /\ Newest(d) => SumsUp(mem[t], Settled, Saved)
    <2>1. pc[t] = "dispatching" /\ child[t] \in {"exit0", "exit1"} /\ t \in Active
      BY DEF DispatchEnds, Active, UnderWay
    <2>2. d = DateKey(now[t]) /\ d \in Nat /\ mem[t] \in State /\ now[t] \in Nat
      BY <1>0, <2>1, TypedBooks DEF IInv, CopiesBacked, CopyBacked
    <2> QED BY <1>0, <2>1, <2>2 DEF BookOf
  <1>2. /\ \A a \in Told : a = t \/ a \in Settled
        /\ \A a \in Told : a # t => now[a] <= now[t] /\ now[a] >= 1
        /\ Settled \subseteq Told /\ Told \subseteq Ticks /\ \A a \in Told : now[a] \in Nat
    BY <1>0, <1>1, ToldBefore, TypedBooks
  <1>3. CASE child[t] = "exit1"
    <2>1. t \notin Told /\ Charge(t) = mem[t]
      BY <1>3 DEF Told, Charged, Lost, Charge
    <2>2. Told = Settled /\ Own(t) = {}
      BY <1>2, <1>3, <2>1 DEF Own
    <2> QED BY <1>1, <2>1, <2>2
  <1>4. CASE child[t] = "exit0"
    <2>1. /\ Charge(t) \in State /\ Charge(t).date = d /\ Own(t) = {t}
          /\ mem[t].count \in Nat /\ Charge(t).count = mem[t].count + 1
      BY <1>0, <1>1, <1>4, ChargeIsState DEF State, Own
    <2>2. /\ Charge(t).ping = IF kind[t] = "idle_check" THEN now[t] ELSE mem[t].ping
          /\ Charge(t).calendar = IF kind[t] = "calendar_event" THEN subj[t] ELSE mem[t].calendar
          /\ Charge(t).topic = IF kind[t] = "topic_followup" THEN subj[t] ELSE mem[t].topic
      <3>1. Charge(t) = Remember(t)
        BY <1>4 DEF Charge
      <3> QED BY <1>1, <3>1 DEF Remember, State
    <2> HIDE DEF d
    <2>3. \A a : Replaced(a, Saved) => Replaced(a, Saved \cup Own(t))
      BY DEF Replaced
    <2>4. ASSUME NEW a \in Told, a # t, kind[a] = kind[t] PROVE Replaced(a, Saved \cup Own(t))
      <3>1. t \in Delivered => Before(a, t)
        BY <1>0, <1>1, <2>4 DEF Base, Ordered
      <3>2. t \notin Delivered => owner[t] = "dry-run" /\ now[t] >= now[a]
        BY <1>0, <1>1, <1>2, <1>4, <2>4 DEF Base, Reported
      <3>3. Follows(a, t) /\ t \in Saved \cup Own(t)
        BY <2>1, <2>4, <3>1, <3>2 DEF Follows
      <3> QED BY <3>3 DEF Replaced
    <2>5. TopicKept(Charge(t), Told, Saved \cup Own(t))
      <3> SUFFICES ASSUME NEW a \in Told, kind[a] = "topic_followup"
                   PROVE  Charge(t).topic = subj[a] \/ Replaced(a, Saved \cup Own(t))
        BY DEF TopicKept
      <3>1. CASE a = t
        BY <2>2, <3>1
      <3>2. CASE a # t /\ kind[t] = "topic_followup"
        BY <2>4, <3>2
      <3>3. CASE a # t /\ kind[t] # "topic_followup"
        <4>1. a \in Settled /\ Charge(t).topic = mem[t].topic
          BY <1>2, <2>2, <3>3
        <4> QED BY <1>1, <2>3, <4>1 DEF TopicKept
      <3> QED BY <3>1, <3>2, <3>3
    <2>6. ASSUME Newest(d) PROVE SumsUp(Charge(t), Told, Saved \cup Own(t))
      <3>0. SumsUp(mem[t], Settled, Saved) /\ d = mem[t].date
        BY <1>1, <2>6 DEF d
      <3>1. Cardinality(On(Told, d)) <= Charge(t).count
        <4>1. Settled \subseteq Ticks /\ On(Told, d) \subseteq On(Settled, d) \cup {t}
          BY <1>2 DEF On
        <4>2. IsFiniteSet(On(Settled, d)) /\ Cardinality(On(Settled, d)) \in Nat
          BY <4>1, FiniteOn
        <4>3. /\ IsFiniteSet(On(Settled, d) \cup {t})
              /\ Cardinality(On(Settled, d) \cup {t}) <= Cardinality(On(Settled, d)) + 1
          <5> DEFINE S == On(Settled, d)
          <5>1. IsFiniteSet(S) /\ Cardinality(S) \in Nat
            BY <4>2
          <5> HIDE DEF S
          <5>2. /\ IsFiniteSet(S \cup {t})
                /\ Cardinality(S \cup {t}) = IF t \in S THEN Cardinality(S) ELSE Cardinality(S) + 1
            BY <5>1, FS_AddElement
          <5> QED BY <5>1, <5>2 DEF S
        <4>4. Cardinality(On(Told, d)) <= Cardinality(On(Settled, d) \cup {t})
          BY <4>1, <4>3, FS_Subset
        <4>5. Cardinality(On(Told, d)) \in Nat /\ Cardinality(On(Settled, d) \cup {t}) \in Nat
          BY <1>2, <4>3, FiniteOn, FS_CardinalityType
        <4>6. Cardinality(On(Settled, d)) <= mem[t].count
          BY <3>0 DEF SumsUp
        <4> QED BY <2>1, <4>2, <4>3, <4>4, <4>5, <4>6
      <3>2. ASSUME NEW a \in On(Told, d), kind[a] = "idle_check" PROVE Charge(t).ping >= now[a]
        <4>0. a \in Told /\ (a # t => a \in On(Settled, d))
          BY <1>2, <3>2 DEF On
        <4>1. CASE kind[t] = "idle_check"
          <5>1. Charge(t).ping = now[t]
            BY <2>2, <4>1
          <5>2. now[a] <= now[t] /\ now[a] \in Nat
            BY <1>1, <1>2, <4>0
          <5> QED BY <1>1, <5>1, <5>2
        <4>2. CASE kind[t] # "idle_check"
          <5>1. a \in On(Settled, d) /\ Charge(t).ping = mem[t].ping
            BY <2>2, <3>2, <4>0, <4>2
          <5> QED BY <3>0, <3>2, <5>1 DEF SumsUp
        <4> QED BY <4>1, <4>2
      <3>3. ASSUME NEW a \in On(Told, d), kind[a] = "calendar_event"
            PROVE  Charge(t).calendar = subj[a] \/ Replaced(a, Saved \cup Own(t))
        <4>0. a \in Told /\ (a # t => a \in On(Settled, d))
          BY <1>2, <3>3 DEF On
        <4>1. CASE a = t
          BY <2>2, <3>3, <4>1
        <4>2. CASE a # t /\ kind[t] = "calendar_event"
          BY <2>4, <3>3, <4>0, <4>2
        <4>3. CASE a # t /\ kind[t] # "calendar_event"
          <5>1. Charge(t).calendar = mem[t].calendar
            BY <2>2, <4>3
          <5> QED BY <2>3, <3>0, <3>3, <4>0, <4>3, <5>1 DEF SumsUp
        <4> QED BY <4>1, <4>2, <4>3
      <3> QED BY <2>1, <3>1, <3>2, <3>3 DEF SumsUp
    <2> QED BY <2>5, <2>6 DEF d
  <1> QED BY <1>1, <1>3, <1>4

LEMMA DispatchBook ==
  ASSUME SInv, [HNext]_hvars, NEW t \in Ticks, DispatchEnds(t)
  PROVE  BookOf(t)'
  <1>0. Base /\ TypeOK /\ ChildBooks /\ IInv
    BY DEF SInv, Base, IInv
  <1>1. /\ pc[t] = "dispatching" /\ pc'[t] = "saving" /\ t \in Active /\ mem'[t] = Charge(t)
        /\ child' = child /\ ~WriteState(t) /\ ~Deliver(t)
    BY <1>0 DEF DispatchEnds, Goes, TypeOK, Active, UnderWay, WriteState, Deliver
  <1>2. Charge(t) \in State /\ Charge(t).date = mem[t].date
    BY <1>0, ChargeIsState
  <1>3. /\ Saved \cup Own(t) \subseteq (Saved \cup Own(t))'
        /\ \A u \in Saved \cup Own(t) : u \in Ticks /\ pc[u] # "idle"
    <2>1. Own(t)' = Own(t)
      BY <1>1 DEF Own
    <2> QED BY <1>0, <1>1, <2>1, MessagesStep, TypedBooks
  <1>4. /\ TopicKept(Charge(t), Told, Saved \cup Own(t)) => TopicKept(mem[t], Told, Saved \cup Own(t))'
        /\ SumsUp(Charge(t), Told, Saved \cup Own(t)) => SumsUp(mem[t], Told, Saved \cup Own(t))'
        /\ Newest(mem[t].date)' => Newest(mem[t].date)
    BY <1>0, <1>1, <1>2, <1>3, CopyStays
  <1> QED BY <1>1, <1>4, ReportSums DEF BookOf

LEMMA OpenBook ==
  ASSUME SInv, [HNext]_hvars, NEW t \in Ticks, OpenState(t)
  PROVE  BookOf(t)'
  <1>0. Base /\ TypeOK /\ ChildBooks /\ IInv /\ BookOf(t)
    BY DEF SInv, TickBooks, Base, IInv
  <1>1. /\ pc[t] = "saving" /\ pc'[t] = "writing" /\ t \in Active /\ mem' = mem
        /\ mem[t] \in State /\ child' = child /\ ~WriteState(t) /\ ~Deliver(t)
    BY <1>0 DEF OpenState, Goes, TypeOK, Active, UnderWay, WriteState, Deliver, ChildBooks
  <1>2. /\ Saved \cup Own(t) \subseteq (Saved \cup Own(t))'
        /\ \A u \in Saved \cup Own(t) : u \in Ticks /\ pc[u] # "idle"
    <2>1. Own(t)' = Own(t)
      BY <1>1 DEF Own
    <2> QED BY <1>0, <1>1, <2>1, MessagesStep, TypedBooks
  <1>3. /\ TopicKept(mem[t], Told, Saved \cup Own(t)) => TopicKept(mem[t], Told, Saved \cup Own(t))'
        /\ SumsUp(mem[t], Told, Saved \cup Own(t)) => SumsUp(mem[t], Told, Saved \cup Own(t))'
        /\ Newest(mem[t].date)' => Newest(mem[t].date)
    BY <1>0, <1>1, <1>2, CopyStays
  <1> QED BY <1>0, <1>1, <1>3 DEF BookOf

LEMMA TickStep ==
  ASSUME SInv, [HNext]_hvars
  PROVE  TickBooks'
  <1> SUFFICES ASSUME NEW u \in Ticks PROVE BookOf(u)'
    BY DEF TickBooks
  <1>0. TypeOK /\ ChildBooks /\ [Next]_vars /\ IInv /\ HistoryTypeOK
    BY MetGrows DEF SInv, Base, IInv
  <1>1. Moves(u)
    BY <1>0, Advance
  <1>2. CASE Rests(u) \/ Deliver(u) \/ Exits(u)
    <2>1. pc'[u] = pc[u] /\ (pc[u] \in {"saving", "writing"} => child'[u] = child[u])
      BY <1>0, <1>2 DEF Rests, Deliver, Exits, ChildExits, ChildBooks
    <2> QED BY <2>1, TickKept
  <1>3. CASE Starts(u) \/ Finishes(u) \/ Dies(u)
    BY <1>3 DEF Starts, Finishes, Dies, BookOf
  <1>4. CASE WriteState(u)
    <2>1. pc'[u] = "written"
      BY <1>0, <1>4 DEF WriteState, Goes, TypeOK
    <2> QED BY <2>1 DEF BookOf
  <1>5. CASE Decides(u)
    BY <1>5, DecideBook DEF Decides
  <1> QED BY <1>1, <1>2, <1>3, <1>4, <1>5, LoadBook, DispatchBook, OpenBook DEF Moves
-----------------------------------------------------------------------------
(* The file after a step.                                                   *)
LEMMA WriteBooks ==
  ASSUME SInv, [HNext]_hvars, NEW t \in Ticks, WriteState(t)
  PROVE  FileBooks'
  <1>0. Base /\ [Next]_vars /\ TypeOK /\ ChildBooks /\ IInv /\ HistoryTypeOK /\ MetBooks /\ BookOf(t)
    BY MetGrows DEF SInv, TickBooks, Base, IInv
  <1>1. /\ pc[t] = "writing" /\ pc'[t] = "written" /\ t \in Active /\ child' = child /\ now' = now
        /\ mem[t] \in State /\ mem[t].date = DateKey(now[t]) /\ mem[t].date \in Nat
        /\ file' \in {Holds(mem[t]), TornFile}
    <2>1. /\ pc[t] = "writing" /\ pc'[t] = "written" /\ child' = child /\ now' = now
          /\ file' \in {Holds(mem[t]), TornFile}
      BY <1>0 DEF WriteState, Goes, TypeOK, input
    <2> QED BY <1>0, <2>1, TypedBooks DEF Active, UnderWay, IInv, CopiesBacked, CopyBacked, State
  <1>2. CASE file' = TornFile
    BY <1>2 DEF FileBooks, TornFile
  <1>3. CASE file' = Holds(mem[t])
    <2>1. file'.form = "ok" /\ file'.state = mem[t]
      BY <1>3 DEF Holds
    <2>2. Settled' \subseteq Told /\ Told \subseteq Delivered
      BY <1>0, MessagesStep, TypedBooks
    <2>3. /\ Saved \cup Own(t) \subseteq Saved'
          /\ \A u \in Saved \cup Own(t) : u \in Ticks /\ pc[u] # "idle"
      <3>1. Own(t) \subseteq Saved'
        BY <1>1 DEF Own, Saved
      <3> QED BY <1>0, <1>1, <3>1, MessagesStep, TypedBooks
    <2>4. /\ TopicKept(mem[t], Told, Saved \cup Own(t)) => TopicKept(file.state, Settled, Saved)'
          /\ SumsUp(mem[t], Told, Saved \cup Own(t)) => SumsUp(file.state, Settled, Saved)'
      BY <1>0, <1>1, <2>1, <2>2, <2>3, SumsStay
    <2>5. ASSUME NEW d \in Nat, Newest(d)'
          PROVE  /\ mem[t].date = d => SumsUp(file.state, Settled, Saved)'
                 /\ mem[t].date # d => On(Settled, d)' = {}
      <3>1. Newest(d)
        BY <1>0, <2>5, MessagesStep
      <3>2. mem[t].date = d => SumsUp(mem[t], Told, Saved \cup Own(t))
        BY <1>0, <1>1, <3>1 DEF BookOf
      <3>3. ASSUME mem[t].date # d PROVE On(Settled, d)' = {}
        <4>1. mem[t].date <= d
          BY <1>1, <3>1 DEF Newest
        <4> SUFFICES ASSUME NEW a \in On(Settled, d)' PROVE FALSE
          OBVIOUS
        <4>2. a \in Told /\ DateKey(now[a]) = d
          BY <1>1, <2>2 DEF On, DateKey
        <4>3. a # t
          BY <1>1, <3>3, <4>2
        <4>4. a \in Settled
          BY <1>0, <1>1, <4>2, <4>3, ToldBefore
        <4>5. ~(DateKey(now[a]) > DateKey(now[t]))
          BY <1>0, <1>1, <4>4, ToldBefore
        <4> QED BY <1>1, <3>3, <4>1, <4>2, <4>5
      <3> QED BY <2>4, <3>2, <3>3
    <2>6. TopicKept(mem[t], Told, Saved \cup Own(t))
      BY <1>0, <1>1 DEF BookOf
    <2> QED BY <2>1, <2>4, <2>5, <2>6 DEF FileBooks
  <1> QED BY <1>1, <1>2, <1>3

LEMMA FileStep ==
  ASSUME SInv, [HNext]_hvars
  PROVE  FileBooks'
  <1>0. Base /\ [Next]_vars /\ FileBooks
    BY MetGrows DEF SInv, Base
  <1>1. CASE \E t \in Ticks : WriteState(t)
    BY <1>1, WriteBooks
  <1>2. CASE \E t \in Ticks : OpenState(t)
    BY <1>2 DEF OpenState, EmptyFile, FileBooks
  <1>3. CASE file' = file /\ \A t \in Ticks : ~WriteState(t)
    <2>1. Settled' \subseteq Settled /\ Saved \subseteq Saved' /\ file.state \in State
      BY <1>0, <1>3, MessagesStep, TypedBooks
    <2>2. Settled \subseteq Delivered /\ \A u \in Saved : u \in Ticks /\ pc[u] # "idle"
      BY <1>0, TypedBooks
    <2>3. /\ TopicKept(file.state, Settled, Saved) => TopicKept(file.state, Settled, Saved)'
          /\ SumsUp(file.state, Settled, Saved) => SumsUp(file.state, Settled, Saved)'
      BY <1>0, <1>3, <2>1, <2>2, SumsStay
    <2>4. ASSUME NEW d \in Nat, Newest(d)', On(Settled, d) = {} PROVE On(Settled, d)' = {}
      <3> SUFFICES ASSUME NEW a \in On(Settled, d)' PROVE FALSE
        OBVIOUS
      <3>1. a \in Settled /\ a \in Told /\ DateKey(now'[a]) = d
        BY <1>0, <2>1, TypedBooks DEF On, DateKey
      <3>2. now'[a] = now[a]
        BY <1>0, <3>1, Fixed, TypedBooks DEF Base, IInv
      <3> QED BY <2>4, <3>1, <3>2 DEF On
    <2>5. ASSUME NEW d \in Nat, Newest(d)', file.form = "ok"
          PROVE  /\ file.state.date = d => SumsUp(file.state, Settled, Saved)'
                 /\ file.state.date # d => On(Settled, d)' = {}
      <3>1. Newest(d)
        BY <1>0, <2>5, MessagesStep
      <3> QED BY <1>0, <2>3, <2>4, <2>5, <3>1 DEF FileBooks
    <2>6. file.form = "ok" => TopicKept(file.state, Settled, Saved)'
      BY <1>0, <2>3 DEF FileBooks
    <2>7. file.form = "missing" => Settled' = {}
      BY <1>0, <2>1 DEF FileBooks
    <2> QED BY <1>3, <2>5, <2>6, <2>7 DEF FileBooks
  <1>4. \/ \E t \in Ticks : WriteState(t) \/ OpenState(t)
        \/ file' = file
    BY <1>0 DEF Next, vars, StartTick, LoadState, Decide, Deliver, ChildExits, DispatchEnds,
       Finish, Crash, Restart, TimePasses
  <1> QED BY <1>1, <1>2, <1>3, <1>4
-----------------------------------------------------------------------------
(* What has been said: nothing a step does to others changes what holds of  *)
(* it, and a new message is decided on by what remembers those before it.   *)
LEMMA PastFixed ==
  ASSUME Base, [HNext]_hvars, NEW a \in Delivered
  PROVE  /\ a \in Ticks /\ now'[a] = now[a] /\ kind'[a] = kind[a] /\ subj'[a] = subj[a]
         /\ DateKey(now'[a]) = DateKey(now[a]) /\ (Alone(a)' => Alone(a))
         /\ NoneLater(a)' => NoneLater(a)
         /\ a \in Charged' => a \in Charged
  <1>0. TypeOK /\ ChildBooks /\ [Next]_vars /\ IInv /\ HistoryTypeOK
    BY MetGrows DEF Base, IInv
  <1>1. a \in Ticks /\ child[a] # "none" /\ pc[a] # "idle" /\ ~Deliver(a)
    BY <1>0, SentGrows
  <1>2. now'[a] = now[a] /\ kind'[a] = kind[a] /\ subj'[a] = subj[a]
    BY <1>0, <1>1, Fixed
  <1>3. (Alone(a)' => Alone(a)) /\ (NoneLater(a)' => NoneLater(a)) /\ (a \in Charged' => a \in Charged)
    BY <1>0, <1>1, MetGrows, MessagesStep DEF Alone
  <1> QED BY <1>1, <1>2, <1>3

(* The ticks of b's date that ran alone and spoke before it.                *)
Earlier(b) == {a \in Charged : Alone(a) /\ Before(a, b) /\ DateKey(now[a]) = DateKey(now[b])}

LEMMA EarlierFinite ==
  ASSUME Base, NEW b
  PROVE  IsFiniteSet(Earlier(b)) /\ Cardinality(Earlier(b)) \in Nat
  <1>1. Earlier(b) \subseteq Ticks
    BY TypedBooks DEF Earlier, Charged
  <1> QED BY <1>1, Bounds, FS_Subset, FS_CardinalityType

LEMMA EarlierKept ==
  ASSUME Base, [HNext]_hvars, NEW b \in Delivered, Cardinality(Earlier(b)) < MaxDaily
  PROVE  Cardinality(Earlier(b)') < MaxDaily
  <1>1. Earlier(b)' \subseteq Earlier(b)
    <2> SUFFICES ASSUME NEW a \in Earlier(b)' PROVE a \in Earlier(b)
      OBVIOUS
    <2>1. a \in Charged' /\ Alone(a)' /\ Before(a, b)' /\ DateKey(now'[a]) = DateKey(now'[b])
      BY DEF Earlier, DateKey
    <2>2. a \in Delivered
      <3>1. a \in Ticks /\ (a \in Delivered \/ Deliver(a))
        BY <2>1, MessagesStep DEF Charged
      <3> QED BY <2>1, <3>1, MetGrows, SentGrows DEF Base
    <2>3. Before(a, b)
      BY <2>1, <2>2, MetGrows, SentGrows DEF Base
    <2> QED BY <2>1, <2>2, <2>3, PastFixed DEF Earlier
  <1>2. IsFiniteSet(Earlier(b)) /\ Cardinality(Earlier(b)) \in Nat
    BY EarlierFinite
  <1>3. Cardinality(Earlier(b)') <= Cardinality(Earlier(b)) /\ Cardinality(Earlier(b)') \in Nat
    BY <1>1, <1>2, FS_Subset, FS_CardinalityType
  <1> QED BY <1>2, <1>3, Bounds

(* The message of a tick that is under way.                                 *)
LEMMA NewMessage ==
  ASSUME SInv, [HNext]_hvars, NEW t \in Ticks, Deliver(t), pc[t] = "dispatching"
  PROVE  /\ t \in Active /\ t \in Delivered' /\ UNCHANGED <<pc, now, kind, subj, mem, owner>>
         /\ mem[t] \in State /\ mem[t].date = DateKey(now[t]) /\ Decided(t)
         /\ TopicKept(mem[t], Settled, Saved)
         /\ NoneLater(t)' => SumsUp(mem[t], Settled, Saved)
         /\ \A a : Before(a, t)' => a \in Delivered /\ a # t
         /\ \A a \in Charged' : Before(a, t)' /\ Alone(a)' => a \in Settled
  <1>0. Base /\ TypeOK /\ ChildBooks /\ [Next]_vars /\ IInv /\ HistoryTypeOK /\ MetBooks /\ BookOf(t)
    BY MetGrows DEF SInv, TickBooks, Base, IInv
  <1>1. /\ t \in Active /\ UNCHANGED <<pc, now, kind, subj, mem, owner>>
        /\ mem[t].date = DateKey(now[t])
    BY <1>0 DEF Deliver, input, Active, UnderWay, IInv, CopiesBacked, CopyBacked
  <1>2. /\ t \in Delivered' /\ t \notin Delivered
        /\ \A a : Before(a, t)' => a \in Delivered
    BY <1>0, SentGrows
  <1>3. NoneLater(t)' => SumsUp(mem[t], Settled, Saved)
    BY <1>0, <1>1, MessagesStep, NewestDate DEF BookOf
  <1>4. ASSUME NEW a \in Charged', Before(a, t)', Alone(a)' PROVE a \in Settled
    <2>1. a \in Delivered /\ a # t
      BY <1>2, <1>4
    <2>2. a \in Told
      BY <1>0, <1>4, <2>1, PastFixed DEF Told
    <2> QED BY <1>0, <1>1, <2>1, <2>2, ToldBefore
  <1> QED BY <1>0, <1>1, <1>2, <1>3, <1>4, TypedBooks DEF BookOf

(* A message is in the list, or is the new one.                             *)
LEMMA OldOrNew ==
  ASSUME Base, [HNext]_hvars, NEW b \in Charged'
  PROVE  /\ b \in Ticks
         /\ \/ b \in Charged /\ b \in Delivered
            \/ b \notin Delivered /\ Deliver(b) /\ pc[b] = "dispatching"
         /\ \A a : b \in Delivered /\ Before(a, b)' /\ a \in Delivered' => a \in Delivered /\ Before(a, b)
  <1>0. [Next]_vars /\ IInv
    BY MetGrows DEF Base
  <1>1. b \in Ticks /\ (b \in Charged \/ (Deliver(b) /\ pc[b] = "dispatching")) /\ Charged \subseteq Delivered
    BY MessagesStep
  <1>2. Deliver(b) => b \notin Delivered
    BY <1>0, <1>1, SentGrows
  <1>3. ASSUME NEW a, b \in Delivered, Before(a, b)', a \in Delivered'
        PROVE  a \in Delivered /\ Before(a, b)
    <2>1. a \in Ticks
      <3>1. TypeOK'
        BY <1>0, Typed DEF IInv
      <3> QED BY <1>3, <3>1 DEF TypeOK, Delivered
    <2>2. a \in Delivered
      BY <1>0, <1>3, <2>1, SentGrows
    <2> QED BY <1>0, <1>3, <2>2, SentGrows
  <1> QED BY <1>1, <1>2, <1>3

LEMMA LimitStep ==
  ASSUME SInv, [HNext]_hvars
  PROVE  LimitHeld'
  <1>0. Base /\ LimitHeld
    BY DEF SInv, Spoken
  <1> SUFFICES ASSUME NEW b \in Charged', NoneLater(b)' PROVE Cardinality(Earlier(b)') < MaxDaily
    BY DEF LimitHeld, Earlier
  <1>1. CASE b \in Charged /\ b \in Delivered
    <2>1. Cardinality(Earlier(b)) < MaxDaily
      BY <1>0, <1>1, PastFixed DEF LimitHeld, Earlier
    <2> QED BY <1>0, <1>1, <2>1, EarlierKept
  <1>2. CASE Deliver(b) /\ pc[b] = "dispatching"
    <2>1. b \in Ticks
      BY <1>0, OldOrNew
    <2>2. /\ mem[b].date = DateKey(now[b]) /\ SumsUp(mem[b], Settled, Saved) /\ Decided(b)
          /\ now' = now /\ mem[b] \in State
          /\ \A a \in Charged' : Before(a, b)' /\ Alone(a)' => a \in Settled
      BY <1>2, <2>1, NewMessage
    <2> DEFINE d == mem[b].date
    <2>3. Earlier(b)' \subseteq On(Settled, d)
      BY <2>2 DEF Earlier, On, DateKey
    <2>4. IsFiniteSet(On(Settled, d)) /\ Cardinality(On(Settled, d)) \in Nat
      <3>1. Settled \subseteq Ticks
        BY <1>0, TypedBooks
      <3> QED BY <3>1, FiniteOn
    <2>5. Cardinality(Earlier(b)') <= Cardinality(On(Settled, d)) /\ Cardinality(Earlier(b)') \in Nat
      BY <2>3, <2>4, FS_Subset, FS_CardinalityType
    <2>6. Cardinality(On(Settled, d)) <= mem[b].count /\ mem[b].count < MaxDaily
      BY <2>2 DEF SumsUp, Decided
    <2>7. mem[b].count \in Nat
      BY <2>2 DEF State
    <2> QED BY <2>4, <2>5, <2>6, <2>7, Bounds
  <1> QED BY <1>0, <1>1, <1>2, OldOrNew

LEMMA SpacedStep ==
  ASSUME SInv, [HNext]_hvars
  PROVE  IdleSpaced'
  <1>0. Base /\ IdleSpaced
    BY DEF SInv, Spoken
  <1> SUFFICES ASSUME NEW a \in Charged', NEW b \in Charged', Before(a, b)',
                      kind'[a] = "idle_check", kind'[b] = "idle_check",
                      Alone(a)', NoneLater(b)', DateKey(now'[a]) = DateKey(now'[b])
               PROVE  now'[b] - now'[a] >= IdleThreshold
    BY DEF IdleSpaced, DateKey
  <1>a. a \in Delivered'
    BY DEF Charged
  <1>1. CASE b \in Charged /\ b \in Delivered
    <2>1. a \in Delivered /\ Before(a, b)
      BY <1>0, <1>a, <1>1, OldOrNew
    <2> QED BY <1>0, <1>1, <2>1, PastFixed DEF IdleSpaced
  <1>2. CASE Deliver(b) /\ pc[b] = "dispatching"
    <2>1. b \in Ticks
      BY <1>0, OldOrNew
    <2>2. /\ mem[b].date = DateKey(now[b]) /\ SumsUp(mem[b], Settled, Saved) /\ Decided(b)
          /\ now' = now /\ kind' = kind /\ mem[b] \in State /\ a \in Settled /\ b \in Active /\ a # b
      BY <1>2, <2>1, NewMessage
    <2>3. a \in On(Settled, mem[b].date) /\ now[a] \in Nat /\ now[b] \in Nat /\ now[a] >= 1
      <3>1. a \in Told /\ a \in Ticks
        BY <1>0, <2>2, TypedBooks
      <3> QED BY <1>0, <2>1, <2>2, <3>1, ToldBefore, TypedBooks DEF On
    <2>4. mem[b].ping >= now[a] /\ IdleReady(b) /\ mem[b].ping \in Nat
      BY <2>2, <2>3, Bounds DEF SumsUp, Decided, State, Times
    <2>5. now[b] - mem[b].ping >= IdleThreshold
      BY <2>3, <2>4 DEF IdleReady, Never
    <2> QED BY <2>2, <2>3, <2>4, <2>5, Bounds
  <1> QED BY <1>0, <1>1, <1>2, OldOrNew

LEMMA VariedStep ==
  ASSUME SInv, [HNext]_hvars
  PROVE  Varied'
  <1>0. Base /\ Varied /\ TypeOK /\ ChildBooks /\ [Next]_vars /\ IInv /\ HistoryTypeOK /\ MetBooks
    BY MetGrows DEF SInv, Spoken, Base, IInv
  <1> SUFFICES ASSUME NEW a \in Charged', NEW b \in Charged', Before(a, b)', kind'[a] = kind'[b],
                      kind'[a] \in {"calendar_event", "topic_followup"},
                      \A c \in Saved' : Before(a, c)' /\ Before(c, b)' => kind'[c] # kind'[a],
                      kind'[a] = "calendar_event" =>
                         DateKey(now'[a]) = DateKey(now'[b]) /\ NoneLater(b)',
                      Alone(a)', ~RehearsedSince(a, b)'
               PROVE  subj'[a] # subj'[b]
    BY DEF Varied, DateKey
  <1>a. a \in Delivered'
    BY DEF Charged
  <1>b. \A c \in Saved : /\ c \in Saved' /\ c \in Ticks /\ pc[c] # "idle"
                         /\ kind'[c] = kind[c] /\ owner'[c] = owner[c] /\ now'[c] = now[c]
                         /\ pc[c] \notin {"dispatching", "dead"}
    <2>1. \A c \in Saved : c \in Saved' /\ c \in Ticks /\ pc[c] # "idle" /\ pc[c] \notin {"dispatching", "dead"}
      BY <1>0, MessagesStep DEF Saved
    <2> QED BY <1>0, <2>1, Fixed
  <1>1. CASE b \in Charged /\ b \in Delivered
    <2>1. a \in Delivered /\ Before(a, b)
      BY <1>0, <1>a, <1>1, OldOrNew
    <2>2. /\ now'[a] = now[a] /\ kind'[a] = kind[a] /\ subj'[a] = subj[a] /\ Alone(a) /\ a \in Charged
          /\ now'[b] = now[b] /\ kind'[b] = kind[b] /\ subj'[b] = subj[b]
          /\ NoneLater(b)' => NoneLater(b)
      BY <1>0, <1>1, <2>1, PastFixed
    <2>3. \A c \in Saved : Before(a, c) /\ Before(c, b) => kind[c] # kind[a]
      BY <1>0, <1>b, <2>2, SentGrows
    <2>4. ~RehearsedSince(a, b)
      <3> SUFFICES ASSUME NEW c \in Ticks, owner[c] = "dry-run", kind[c] = kind[a],
                          now[c] >= now[a], now[c] <= now[b] \/ c \in met[b]
                   PROVE  FALSE
        BY DEF RehearsedSince
      <3>1. CASE pc[c] # "idle"
        <4>1. kind'[c] = kind[c] /\ owner'[c] = owner[c] /\ now'[c] = now[c]
          BY <1>0, <3>1, Fixed
        <4>2. met[b] \subseteq met'[b]
          BY <1>0, <1>1, PastFixed, MetGrows
        <4> QED BY <2>2, <4>1, <4>2 DEF RehearsedSince
      <3>2. CASE pc[c] = "idle"
        BY <1>0, <3>2 DEF Base, Unowned
      <3> QED BY <3>1, <3>2
    <2>5. kind[a] = "calendar_event" => DateKey(now[a]) = DateKey(now[b]) /\ NoneLater(b)
      BY <2>2
    <2> QED BY <1>0, <1>1, <2>1, <2>2, <2>3, <2>4, <2>5 DEF Varied
  <1>2. CASE Deliver(b) /\ pc[b] = "dispatching"
    <2>1. b \in Ticks
      BY <1>0, OldOrNew
    <2>2. /\ mem[b].date = DateKey(now[b]) /\ Decided(b) /\ TopicKept(mem[b], Settled, Saved)
          /\ NoneLater(b)' => SumsUp(mem[b], Settled, Saved)
          /\ now' = now /\ kind' = kind /\ subj' = subj /\ owner' = owner
          /\ a \in Settled /\ b \in Active
      BY <1>2, <2>1, NewMessage
    <2>3. ~Replaced(a, Saved)
      <3> SUFFICES ASSUME NEW c \in Saved, Follows(a, c) PROVE FALSE
        BY DEF Replaced
      <3>1. CASE Before(a, c)
        <4>1. c \in Delivered /\ Before(a, c)'
          BY <1>0, <3>1, SentGrows
        <4>2. Before(c, b)'
          BY <1>0, <1>2, <2>1, <4>1, SentGrows
        <4> QED BY <1>b, <2>2, <4>1, <4>2 DEF Follows
      <3>2. CASE owner[c] = "dry-run" /\ now[c] >= now[a] /\ kind[c] = kind[a]
        <4>1. now[c] <= now[b] \/ c \in met[b]
          <5>1. now[c] \in Nat /\ now[b] \in Nat /\ c \in Ticks /\ pc[c] # "idle"
            BY <1>0, <1>b, <2>1, TypedBooks
          <5>2. now[c] > now[b] => c \in met[b]
            BY <1>0, <2>2, <5>1 DEF MetBooks
          <5> QED BY <5>1, <5>2
        <4>2. now[c] <= now[b] \/ c \in met'[b]
          BY <1>0, <2>1, <4>1, MetGrows
        <4> QED BY <1>b, <2>2, <3>2, <4>2 DEF RehearsedSince
      <3> QED BY <3>1, <3>2 DEF Follows
    <2>4. CASE kind[a] = "topic_followup"
      BY <2>2, <2>3, <2>4 DEF TopicKept, Decided
    <2>5. CASE kind[a] = "calendar_event"
      <3>1. a \in On(Settled, mem[b].date) /\ SumsUp(mem[b], Settled, Saved)
        BY <2>2, <2>5 DEF On
      <3> QED BY <2>2, <2>3, <2>5, <3>1 DEF SumsUp, Decided
    <2> QED BY <2>2, <2>4, <2>5
  <1> QED BY <1>0, <1>1, <1>2, OldOrNew
-----------------------------------------------------------------------------
LEMMA InitSInv == HInit => SInv
  <1> SUFFICES ASSUME HInit PROVE SInv
    OBVIOUS
  <1>1. Init /\ IInv
    BY InitTyped, InitChildren, InitBacked DEF HInit, IInv
  <1>2. Delivered = {} /\ Active = {} /\ \A t \in Ticks : pc[t] = "idle" /\ child[t] = "none"
    BY <1>1 DEF Init, Delivered, Active, UnderWay
  <1>3. Charged = {} /\ Told = {} /\ Settled = {}
    BY <1>2 DEF Charged, Told, Settled
  <1>4. Base
    <2>1. HistoryTypeOK /\ \A t \in Ticks : met[t] = {}
      BY DEF HInit, HistoryTypeOK
    <2>2. MetBooks
      BY <1>2, <2>1 DEF MetBooks
    <2>3. Ordered /\ Reported /\ Unowned
      BY <1>1, <1>2 DEF Ordered, Reported, Unowned, Init
    <2> QED BY <1>1, <2>1, <2>2, <2>3 DEF Base
  <1>5. FileBooks
    <2>1. \A d : On(Settled, d) = {}
      BY <1>3 DEF On
    <2>2. file.state.count \in Nat
      BY <1>1 DEF IInv, TypeOK, State
    <2>3. \A W : TopicKept(file.state, Settled, W) /\ SumsUp(file.state, Settled, W)
      BY <1>3, <2>1, <2>2, FS_EmptySet DEF TopicKept, SumsUp
    <2> QED BY <1>3, <2>1, <2>3 DEF FileBooks
  <1>6. TickBooks
    BY <1>2 DEF TickBooks, BookOf
  <1>7. Spoken
    BY <1>3 DEF Spoken, LimitHeld, IdleSpaced, Varied
  <1> QED BY <1>4, <1>5, <1>6, <1>7 DEF SInv

LEMMA SInvStep == SInv /\ [HNext]_hvars => SInv'
  <1> SUFFICES ASSUME SInv, [HNext]_hvars PROVE SInv'
    OBVIOUS
  <1>1. Base'
    BY BaseStep DEF SInv
  <1>2. Spoken'
    BY LimitStep, SpacedStep, VariedStep DEF Spoken
  <1> QED BY <1>1, <1>2, FileStep, TickStep DEF SInv

LEMMA SpokenInvariance == HSpec => []SInv
  BY InitSInv, SInvStep, PTL DEF HSpec

(* Whatever overlaps, crashes or restarts: when a tick that ran beside none *)
(* of a later date delivers a message that is not lost, fewer than MaxDaily *)
(* messages of its date came before from ticks that ran alone.  This is as  *)
(* far as the rate limit goes without a lock between the processes.         *)
THEOREM LimitKept == HSpec => []LimitHeld
  <1>1. SInv => LimitHeld
    BY DEF SInv, Spoken
  <1> QED BY <1>1, SpokenInvariance, PTL

(* A tick that ran alone and pinged the idle user is heard of by every tick *)
(* of that date that does not overlap a later date's: none pings again      *)
(* within the threshold.                                                    *)
THEOREM PingsSpaced == HSpec => []IdleSpaced
  <1>1. SInv => IdleSpaced
    BY DEF SInv, Spoken
  <1> QED BY <1>1, SpokenInvariance, PTL

(* What a tick that ran alone followed up is not followed up again right    *)
(* after, whatever overlaps after it.                                       *)
THEOREM SubjectsVaried == HSpec => []FollowUpsNew
  <1>1. SInv => FollowUpsNew
    <2> SUFFICES ASSUME SInv, NEW a \in Charged, NEW b \in Charged, Before(a, b),
                        kind[a] = kind[b], kind[a] \in {"calendar_event", "topic_followup"},
                        \A c \in Charged : Before(a, c) /\ Before(c, b) => kind[c] # kind[a],
                        kind[a] = "calendar_event" =>
                           DateKey(now[a]) = DateKey(now[b]) /\ NoneLater(b),
                        Alone(a), ~RehearsedSince(a, b)
                 PROVE  subj[a] # subj[b]
      BY DEF FollowUpsNew
    <2>1. \A c \in Saved : Before(a, c) => c \in Charged
      <3>1. \A c : Before(a, c) => c \in Delivered
        BY DEF Before, Delivered
      <3> QED BY <3>1 DEF Saved, Charged, Lost
    <2>2. \A c \in Saved : Before(a, c) /\ Before(c, b) => kind[c] # kind[a]
      BY <2>1
    <2>3. Varied
      BY DEF SInv, Spoken
    <2> QED BY <2>2, <2>3 DEF Varied
  <1> QED BY <1>1, SpokenInvariance, PTL
-----------------------------------------------------------------------------
(* While no two ticks have had the file open, and none died with it open,   *)
(* a tick that has it open finds it as it left it.                          *)
Whole ==
    ~clashed => /\ \A t, u \in Writing : t = u
                /\ Writing # {} => file.form = "empty"
                /\ Writing = {} => file.form \in {"missing", "ok"}

LEMMA WholeStep == ASSUME TypeOK, Whole, [HNext]_hvars PROVE Whole'
  <1> USE DEF TypeOK
  <1> SUFFICES ASSUME ~clashed'
               PROVE  /\ \A t, u \in Writing' : t = u
                      /\ Writing' # {} => file'.form = "empty"
                      /\ Writing' = {} => file'.form \in {"missing", "ok"}
    BY DEF Whole
  <1>1. CASE UNCHANGED hvars
    BY <1>1 DEF hvars, vars, Whole, Writing
  <1>2. CASE HNext
    <2>0. /\ ~clashed /\ Next
          /\ \A t, u \in Writing' : t = u
          /\ \A t \in Writing : pc'[t] # "dead"
      BY <1>2 DEF HNext, Records
    <2>1. /\ \A t, u \in Writing : t = u
          /\ Writing # {} => file.form = "empty"
          /\ Writing = {} => file.form \in {"missing", "ok"}
      BY <2>0 DEF Whole
    <2>2. CASE \E t \in Ticks : OpenState(t)
      <3>1. PICK t \in Ticks : OpenState(t)
        BY <2>2
      <3>2. file'.form = "empty" /\ t \in Writing'
        BY <3>1 DEF OpenState, EmptyFile, Goes, Writing
      <3> QED BY <2>0, <3>2
    <2>3. CASE \E t \in Ticks : WriteState(t)
      <3>1. PICK t \in Ticks : WriteState(t)
        BY <2>3
      <3>2. t \in Writing /\ pc' = [pc EXCEPT ![t] = "written"]
        BY <3>1 DEF WriteState, Goes, Writing
      <3>3. Writing' = {}
        BY <2>1, <3>2 DEF Writing
      <3>4. file'.form = "ok"
        BY <2>1, <3>1, <3>2 DEF WriteState, Holds
      <3> QED BY <3>3, <3>4
    <2>4. ASSUME file' = file, \A t \in Ticks : pc'[t] = "writing" <=> pc[t] = "writing"
          PROVE  /\ Writing' # {} => file'.form = "empty"
                 /\ Writing' = {} => file'.form \in {"missing", "ok"}
      <3>1. Writing' = Writing
        BY <2>4 DEF Writing
      <3> QED BY <2>1, <2>4, <3>1
    <2>5. ASSUME \/ \E t \in Ticks, o \in Owners, k \in Kinds : StartTick(t, o, k)
                 \/ \E t \in Ticks, s \in Subjects \cup {"none"} : Decide(t, s)
                 \/ \E t \in Ticks : LoadState(t) \/ DispatchEnds(t)
          PROVE  file' = file /\ \A t \in Ticks : pc'[t] = "writing" <=> pc[t] = "writing"
      BY <2>5 DEF StartTick, Decide, LoadState, DispatchEnds, Goes
    <2>6. ASSUME \/ \E t \in Ticks, code \in {"exit0", "exit1"} : ChildExits(t, code)
                 \/ \E t \in Ticks : Deliver(t)
                 \/ Restart \/ TimePasses
          PROVE  file' = file /\ \A t \in Ticks : pc'[t] = "writing" <=> pc[t] = "writing"
      BY <2>6 DEF ChildExits, Deliver, Restart, TimePasses
    <2>7. ASSUME Die \/ \E t \in Ticks : pc[t] = "written" /\ Goes(t, "done")
          PROVE  \A t \in Ticks : pc'[t] = "writing" <=> pc[t] = "writing"
      <3>1. CASE Die
        BY <2>0, <3>1, DieTyped DEF Writing
      <3>2. CASE \E t \in Ticks : pc[t] = "written" /\ Goes(t, "done")
        BY <3>2 DEF Goes
      <3> QED BY <2>7, <3>1, <3>2
    <2>8. ASSUME Crash \/ \E t \in Ticks : Finish(t)
          PROVE  file' = file /\ \A t \in Ticks : pc'[t] = "writing" <=> pc[t] = "writing"
      BY <2>7, <2>8 DEF Crash, Finish, Reports
    <2> QED BY <2>0, <2>2, <2>3, <2>4, <2>5, <2>6, <2>8 DEF Next
  <1> QED BY <1>1, <1>2 DEF HNext

(* Any number of ticks may overlap, be killed between any two steps and     *)
(* exit for a failed dispatch: until two of them have the state file open   *)
(* at once, or one is cut off with it open, a file that nobody is writing   *)
(* parses, and the engine can go on.                                        *)
THEOREM WholeAtRest == HSpec => []WholeUnlessClashed
  <1>1. HInit => Whole
    BY DEF HInit, Init, Whole, Writing, NoFile, Holds
  <1>2. SInv /\ Whole /\ [HNext]_hvars => Whole'
    BY WholeStep DEF SInv, Base, IInv
  <1>3. Whole => WholeUnlessClashed
    BY DEF Whole, WholeUnlessClashed
  <1> QED BY <1>1, <1>2, <1>3, SpokenInvariance, PTL DEF HSpec
=============================================================================
