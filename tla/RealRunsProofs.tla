---------------------------- MODULE RealRunsProofs ----------------------------
(***************************************************************************)
(* Theorems about RealRuns for every set of runs and calls.                *)
(***************************************************************************)
EXTENDS RealRuns, TLAPS

(* A run has a record exactly when the gateway has accepted it.             *)
Recorded == \A r \in Runs : phase[r] = "none" <=> record[r] = Nothing

(* What the gateway knows of a run it has noted, and it knows the result of *)
(* a settled command only.                                                  *)
GatewayBooks == \A r \in Runs :
    /\ phase[r] = "none" => dedupe[r] = "none" /\ cache[r] = "none"
    /\ dedupe[r] # "none" => dedupe[r] \in verdicts[r] /\ phase[r] = "settled"
    /\ cache[r] \in {"ok", "error", "timeout"} => cache[r] \in verdicts[r]

(* A call between its start and its answer: it is about an accepted run,    *)
(* only the calls that wait get as far as the wait, and only a status call  *)
(* has found a record, still running, at first.  No answer is given before  *)
(* the last step.                                                           *)
Pending == {"sending", "asking", "waiting", "heard", "reading"}
CallBooks == \A c \in Calls :
    /\ pc[c] = "idle" => op[c] = "none" /\ run[c] = "none" /\ known[c] = Nothing
    /\ pc[c] \in Pending \cup {"idle"} => answer[c] = Nothing
    /\ pc[c] \in Pending => /\ run[c] \in Runs
                            /\ phase[run[c]] # "none"
                            /\ known[c] = IF op[c] = "status" THEN Entry("running", "null")
                                          ELSE Nothing
    /\ pc[c] = "sending" => op[c] \in {"spawn", "spawnAndWait"}
    /\ pc[c] \in Pending \ {"sending"} => op[c] \in {"spawnAndWait", "status"}

(* What a call has heard of an end was an outcome the gateway had.          *)
HeardBooks == \A c \in Calls :
    /\ pc[c] \in {"heard", "reading"} =>
          /\ heard[c] # "none"
          /\ heard[c] \in {"ok", "error"} => heard[c] \in verdicts[run[c]]
    /\ pc[c] = "reading" => heard[c] = "ok"

(* While the gateway is certain, no call waits, and none is told that the   *)
(* wait has expired.                                                        *)
HeldBooks == \A c \in Calls :
    /\ held[c] => run[c] \in Runs /\ Certain(run[c])
    /\ held[c] => pc[c] # "waiting"
    /\ held[c] /\ pc[c] = "heard" => heard[c] # "timeout"

IInv == /\ TypeOK
        /\ Recorded
        /\ GatewayBooks
        /\ CallBooks
        /\ HeardBooks
        /\ HeldBooks
        /\ ResultsTruthful
        /\ EndedRunReported
-----------------------------------------------------------------------------
(* The entries the tools store are records.                                 *)
LEMMA Entries ==
  /\ Entry("running", "null") \in Record
  /\ \A s \in Terminal, out \in {"null", "text"} : Entry(s, out) \in Record
  BY DEF Entry, Record, Terminal

(* No run and no call: the invariant holds.                                 *)
LEMMA InitIInv == Init => IInv
  BY DEF Init, GatewayInit, IInv, TypeOK, GatewayTypeOK, Recorded, GatewayBooks, CallBooks,
         HeardBooks, HeldBooks, ResultsTruthful, EndedRunReported, Truthful, Pending, Record,
         Terminal, Nothing, NotFound, Failure, Entry

(* A step of a call that leaves the gateway alone leaves what is said of it *)
(* alone.                                                                   *)
LEMMA GatewayStays ==
  ASSUME IInv, UNCHANGED gateway
  PROVE  /\ GatewayTypeOK' /\ GatewayBooks'
         /\ \A r \in Runs : Certain(r)' = Certain(r) /\ Verdict(r)' = Verdict(r)
  BY DEF IInv, TypeOK, gateway, GatewayTypeOK, GatewayBooks, Certain, Verdict

(* A new run gets its record with its acceptance.                           *)
LEMMA SpawnStep ==
  ASSUME IInv, NEW c \in Calls, NEW r \in Runs, NEW o \in {"spawn", "spawnAndWait"},
         NEW useSessionsSend \in BOOLEAN, Spawn(c, r, o, useSessionsSend)
  PROVE  IInv'
  <1>0. /\ TypeOK /\ Recorded /\ GatewayBooks /\ CallBooks /\ HeardBooks /\ HeldBooks
        /\ ResultsTruthful /\ EndedRunReported
    BY DEF IInv
  <1>1. /\ phase[r] = "none" /\ phase' = [phase EXCEPT ![r] = "running"]
        /\ UNCHANGED <<overdue, cache, dedupe, verdicts>>
    BY DEF Spawn, Accepts
  <1>2. TypeOK'
    BY <1>0, <1>1, Entries DEF Spawn, GoesOn, Goes, Returns, TypeOK, GatewayTypeOK
  <1>3. Recorded' /\ GatewayBooks'
    BY <1>0, <1>1 DEF Spawn, Recorded, GatewayBooks, TypeOK, GatewayTypeOK, Entry, Nothing
  <1>4. CallBooks'
    BY <1>0, <1>1, RunAssumption DEF Spawn, GoesOn, Goes, Returns, CallBooks, TypeOK,
       GatewayTypeOK, Pending, Entry, Nothing
  <1>5. HeardBooks'
    BY <1>0, <1>1, RunAssumption DEF Spawn, GoesOn, Goes, Returns, HeardBooks, CallBooks,
       Pending, TypeOK
  <1>6. ~held[c]
    BY <1>0, RunAssumption DEF Spawn, CallBooks, HeldBooks
  <1>7. HeldBooks' /\ EndedRunReported'
    BY <1>0, <1>1, <1>6 DEF Spawn, GoesOn, Goes, Returns, HeldBooks, Certain, Verdict, TypeOK,
       EndedRunReported
  <1>8. ResultsTruthful'
    BY <1>0, <1>1 DEF Spawn, GoesOn, Goes, Returns, ResultsTruthful, Truthful, CallBooks,
       TypeOK, Entry, Recorded, Nothing
  <1>9. QED
    BY <1>2, <1>3, <1>4, <1>5, <1>7, <1>8 DEF IInv

(* A refused call changes nothing but its answer.                           *)
LEMMA SpawnRefusedStep ==
  ASSUME IInv, NEW c \in Calls, NEW o \in {"spawn", "spawnAndWait"}, SpawnRefused(c, o)
  PROVE  IInv'
  <1>0. /\ TypeOK /\ Recorded /\ CallBooks /\ HeardBooks /\ HeldBooks
        /\ ResultsTruthful /\ EndedRunReported
    BY DEF IInv
  <1>1. UNCHANGED gateway
    BY DEF SpawnRefused
  <1>2. GatewayTypeOK' /\ GatewayBooks'
    BY <1>1, GatewayStays
  <1>3. TypeOK'
    BY <1>0, <1>2 DEF SpawnRefused, Returns, TypeOK, Failure, Entry
  <1>4. Recorded' /\ CallBooks' /\ HeardBooks'
    BY <1>0, <1>1 DEF SpawnRefused, Returns, Recorded, CallBooks, HeardBooks, TypeOK, Pending,
       gateway
  <1>5. HeldBooks'
    BY <1>0, <1>1 DEF SpawnRefused, Returns, HeldBooks, TypeOK, gateway, Certain, Verdict
  <1>6. ResultsTruthful' /\ EndedRunReported'
    BY <1>0, <1>1 DEF SpawnRefused, Returns, ResultsTruthful, EndedRunReported, Truthful, TypeOK,
       Failure, Entry, gateway
  <1>7. QED
    BY <1>2, <1>3, <1>4, <1>5, <1>6 DEF IInv

(* After the handoff the call waits, or answers without an outcome.         *)
LEMMA HandoffStep ==
  ASSUME IInv, NEW c \in Calls, Handoff(c)
  PROVE  IInv'
  <1>0. /\ TypeOK /\ Recorded /\ CallBooks /\ HeardBooks /\ HeldBooks
        /\ ResultsTruthful /\ EndedRunReported
    BY DEF IInv
  <1>1. UNCHANGED <<gateway, record, op, run, known, late, heard, held>>
    BY DEF Handoff, asked
  <1>a. pc[c] = "sending" /\ op[c] \in {"spawn", "spawnAndWait"}
    BY <1>0 DEF Handoff, CallBooks
  <1>2. GatewayTypeOK' /\ GatewayBooks'
    BY <1>1, GatewayStays
  <1>3. CASE op[c] = "spawnAndWait" /\ Goes(c, "asking")
    <2>1. TypeOK'
      BY <1>0, <1>1, <1>2, <1>3 DEF Goes, TypeOK
    <2>2. Recorded' /\ CallBooks' /\ HeardBooks'
      BY <1>0, <1>1, <1>a, <1>3 DEF Goes, Recorded, CallBooks, HeardBooks, TypeOK, Pending, gateway
    <2>3. HeldBooks'
      BY <1>0, <1>1, <1>3 DEF Goes, HeldBooks, TypeOK, gateway, Certain, Verdict
    <2>4. ResultsTruthful' /\ EndedRunReported'
      BY <1>0, <1>1, <1>3 DEF Goes, ResultsTruthful, EndedRunReported, Truthful, TypeOK, gateway
    <2> QED BY <1>2, <2>1, <2>2, <2>3, <2>4 DEF IInv
  <1>4. ASSUME NEW a \in {Entry("running", "null"), Failure}, Returns(c, a)
        PROVE  IInv'
    <2>1. TypeOK'
      BY <1>0, <1>1, <1>2, <1>4, Entries DEF Returns, TypeOK
    <2>2. Recorded' /\ CallBooks' /\ HeardBooks'
      BY <1>0, <1>1, <1>a, <1>4 DEF Returns, Recorded, CallBooks, HeardBooks, TypeOK, Pending,
         gateway
    <2>3. HeldBooks'
      BY <1>0, <1>1, <1>4 DEF Returns, HeldBooks, TypeOK, gateway, Certain, Verdict
    <2>4. ResultsTruthful' /\ EndedRunReported'
      BY <1>0, <1>1, <1>a, <1>4 DEF Returns, ResultsTruthful, EndedRunReported, Truthful, TypeOK,
         Failure, Entry, gateway
    <2> QED BY <1>2, <2>1, <2>2, <2>3, <2>4 DEF IInv
  <1> QED BY <1>3, <1>4 DEF Handoff, GoesOn

(* A status call that answers at once repeats a truthful record.            *)
LEMMA StatusStep ==
  ASSUME IInv, NEW c \in Calls, NEW r \in Runs, Status(c, r)
  PROVE  IInv'
  <1>0. /\ TypeOK /\ Recorded /\ GatewayBooks /\ CallBooks /\ HeardBooks /\ HeldBooks
        /\ ResultsTruthful /\ EndedRunReported
    BY DEF IInv
  <1>1. UNCHANGED gateway
    BY DEF Status
  <1>2. GatewayTypeOK' /\ GatewayBooks'
    BY <1>1, GatewayStays
  <1>3. Certain(r) \in BOOLEAN /\ (Certain(r) => record[r] # Nothing)
    BY <1>0 DEF Certain, Verdict, GatewayBooks, Recorded
  <1>4. TypeOK'
    BY <1>0, <1>2, <1>3 DEF Status, Goes, Returns, TypeOK, GatewayTypeOK
  <1>5. Recorded'
    BY <1>0, <1>1 DEF Status, Recorded, gateway
  <1>6. record[r].status = "running" => record[r] = Entry("running", "null")
    BY <1>0 DEF ResultsTruthful, Truthful, TypeOK, Record, Entry
  <1>7. CallBooks'
    BY <1>0, <1>1, <1>6, RunAssumption DEF Status, Goes, Returns, CallBooks, Recorded, TypeOK,
       Pending, Nothing, Entry, gateway
  <1>8. HeardBooks'
    BY <1>0, <1>1, RunAssumption DEF Status, Goes, Returns, HeardBooks, CallBooks, TypeOK, gateway
  <1>9. HeldBooks'
    <2>1. /\ pc'[c] \in {"asking", "done"} /\ run'[c] = r /\ held'[c] = Certain(r)
          /\ \A d \in Calls \ {c} : /\ pc'[d] = pc[d] /\ run'[d] = run[d]
                                   /\ held'[d] = held[d] /\ heard'[d] = heard[d]
      BY <1>0 DEF Status, Goes, Returns, TypeOK
    <2>2. \A q \in Runs : Certain(q)' = Certain(q)
      BY <1>1, GatewayStays
    <2> QED BY <1>0, <2>1, <2>2 DEF HeldBooks
  <1>10. ResultsTruthful'
    BY <1>0, <1>1 DEF Status, Goes, Returns, ResultsTruthful, Truthful, CallBooks, TypeOK,
       NotFound, Entry, Nothing, gateway
  <1>11. EndedRunReported'
    BY <1>0, <1>3 DEF Status, Goes, Returns, EndedRunReported, TypeOK, Nothing, Entry
  <1>12. QED
    BY <1>2, <1>4, <1>5, <1>7, <1>8, <1>9, <1>10, <1>11 DEF IInv

(* What a step of a run leaves behind in the gateway, whoever is told.      *)
LEMMA RunMoves ==
  ASSUME IInv, NEW r \in Runs, RunGoesOn(r)
  PROVE  /\ GatewayTypeOK' /\ GatewayBooks'
         /\ \A q \in Runs : /\ verdicts[q] \subseteq verdicts'[q]
                            /\ phase[q] = "none" <=> phase'[q] = "none"
                            /\ phase[q] = "settled" => phase'[q] = "settled"
         /\ \A q \in Runs \ {r} : dedupe'[q] = dedupe[q] /\ cache'[q] = cache[q]
         /\ \/ UNCHANGED <<pc, heard>>
            \/ \E v \in {"ok", "error", "timeout"} : Tells(r, v) /\ v \in verdicts'[r]
  <1>0. GatewayTypeOK /\ GatewayBooks
    BY DEF IInv, TypeOK
  <1>1. ASSUME TimesOut(r) \/ Errs(r) \/ Retries(r) \/ DropsResult(r) \/ PrunesRun(r)
        PROVE  /\ GatewayTypeOK' /\ GatewayBooks' /\ UNCHANGED verdicts
               /\ \A q \in Runs : /\ phase[q] = "none" <=> phase'[q] = "none"
                                  /\ phase[q] = "settled" => phase'[q] = "settled"
               /\ \A q \in Runs \ {r} : dedupe'[q] = dedupe[q] /\ cache'[q] = cache[q]
    <2>1. CASE TimesOut(r)
      BY <1>0, <2>1 DEF TimesOut, GatewayTypeOK, GatewayBooks
    <2>2. CASE Errs(r)
      BY <1>0, <2>2 DEF Errs, GatewayTypeOK, GatewayBooks
    <2>3. CASE Retries(r)
      BY <1>0, <2>3 DEF Retries, GatewayTypeOK, GatewayBooks
    <2>4. CASE DropsResult(r)
      BY <1>0, <2>4 DEF DropsResult, GatewayTypeOK, GatewayBooks
    <2>5. CASE PrunesRun(r)
      BY <1>0, <2>5 DEF PrunesRun, GatewayTypeOK, GatewayBooks
    <2> QED BY <1>1, <2>1, <2>2, <2>3, <2>4, <2>5
  <1>2. ASSUME NEW v \in {"ok", "error", "timeout"},
               \/ v \in {"ok", "timeout"} /\ Ends(r, v)
               \/ v = "error" /\ GraceEnds(r)
               \/ v \in {"ok", "error"} /\ Settles(r, v)
        PROVE  /\ GatewayTypeOK' /\ GatewayBooks' /\ v \in verdicts'[r]
               /\ \A q \in Runs : /\ verdicts[q] \subseteq verdicts'[q]
                                  /\ phase[q] = "none" <=> phase'[q] = "none"
                                  /\ phase[q] = "settled" => phase'[q] = "settled"
               /\ \A q \in Runs \ {r} : dedupe'[q] = dedupe[q] /\ cache'[q] = cache[q]
    <2>1. verdicts' = [verdicts EXCEPT ![r] = verdicts[r] \cup {v}]
      BY <1>2 DEF Ends, GraceEnds, Settles, Notes
    <2>2. CASE v \in {"ok", "timeout"} /\ Ends(r, v)
      BY <1>0, <2>1, <2>2 DEF Ends, GatewayTypeOK, GatewayBooks
    <2>3. CASE v = "error" /\ GraceEnds(r)
      BY <1>0, <2>1, <2>3 DEF GraceEnds, GatewayTypeOK, GatewayBooks
    <2>4. CASE v \in {"ok", "error"} /\ Settles(r, v)
      BY <1>0, <2>1, <2>4 DEF Settles, GatewayTypeOK, GatewayBooks
    <2> QED BY <1>2, <2>2, <2>3, <2>4
  <1>3. CASE UNCHANGED <<pc, heard>> /\ (TimesOut(r) \/ Errs(r) \/ Retries(r) \/ DropsResult(r)
                                         \/ PrunesRun(r))
    BY <1>1, <1>3
  <1>4. ASSUME NEW v \in {"ok", "error", "timeout"}, Tells(r, v),
               \/ v \in {"ok", "timeout"} /\ Ends(r, v)
               \/ v = "error" /\ GraceEnds(r)
               \/ v \in {"ok", "error"} /\ Settles(r, v)
        PROVE  /\ GatewayTypeOK' /\ GatewayBooks'
               /\ \A q \in Runs : /\ verdicts[q] \subseteq verdicts'[q]
                                  /\ phase[q] = "none" <=> phase'[q] = "none"
                                  /\ phase[q] = "settled" => phase'[q] = "settled"
               /\ \A q \in Runs \ {r} : dedupe'[q] = dedupe[q] /\ cache'[q] = cache[q]
               /\ \E w \in {"ok", "error", "timeout"} : Tells(r, w) /\ w \in verdicts'[r]
    BY <1>2, <1>4
  <1> QED BY <1>3, <1>4 DEF RunGoesOn

(* Those who wait are told what the gateway has noted; a call that was told *)
(* so, or is told nothing, had no outcome held for it.                      *)
LEMMA RunGoesOnStep ==
  ASSUME IInv, NEW r \in Runs, RunGoesOn(r)
  PROVE  IInv'
  <1>0. /\ TypeOK /\ Recorded /\ CallBooks /\ HeardBooks /\ HeldBooks
        /\ ResultsTruthful /\ EndedRunReported
    BY DEF IInv
  <1>1. /\ held' = [c \in Calls |-> held[c] /\ (run[c] = r => Certain(r)')]
        /\ UNCHANGED <<record, op, run, known, late, answer>>
    BY DEF RunGoesOn, asked
  <1>2. \A c \in Calls : held'[c] \in BOOLEAN /\ (held'[c] => held[c])
    BY <1>0, <1>1 DEF TypeOK
  <1>3. \A c \in Calls :
           \/ pc'[c] = pc[c] /\ heard'[c] = heard[c]
           \/ /\ pc[c] = "waiting" /\ pc'[c] = "heard" /\ run[c] = r
              /\ heard'[c] \in {"ok", "error", "timeout"} /\ heard'[c] \in verdicts'[r]
    BY RunMoves DEF Tells
  <1>4. /\ pc' \in [Calls -> {"idle", "sending", "asking", "waiting", "heard", "reading", "done"}]
        /\ heard' \in [Calls -> {"none", "ok", "error", "timeout", "lost"}]
    BY <1>0, RunMoves DEF Tells, TypeOK
  <1>5. TypeOK'
    BY <1>0, <1>1, <1>2, <1>4, RunMoves DEF TypeOK
  <1>6. Recorded' /\ CallBooks'
    BY <1>0, <1>1, <1>3, RunMoves DEF Recorded, CallBooks, Pending
  <1>7. HeardBooks'
    BY <1>0, <1>1, <1>3, RunMoves DEF HeardBooks, CallBooks, Pending
  <1>8. HeldBooks'
    <2> SUFFICES ASSUME NEW c \in Calls, held'[c]
                 PROVE  /\ run[c] \in Runs /\ Certain(run[c])'
                        /\ pc'[c] # "waiting" /\ (pc'[c] = "heard" => heard'[c] # "timeout")
      BY <1>1 DEF HeldBooks, Certain, Verdict
    <2>1. held[c] /\ run[c] \in Runs /\ Certain(run[c]) /\ pc[c] # "waiting"
      BY <1>0, <1>2 DEF HeldBooks
    <2>2. Certain(run[c])'
      <3>1. CASE run[c] = r
        BY <1>1, <3>1 DEF Certain, Verdict
      <3>2. CASE run[c] # r
        BY <2>1, <3>2, RunMoves, <1>1 DEF Certain, Verdict
      <3> QED BY <3>1, <3>2
    <2> QED BY <1>0, <1>3, <2>1, <2>2 DEF HeldBooks
  <1>9. ResultsTruthful'
    <2>1. ASSUME NEW q \in Runs, NEW e, Truthful(e, q) PROVE Truthful(e, q)'
      BY <2>1, RunMoves DEF Truthful
    <2>2. \A c \in Calls : run[c] # "none" => run[c] \in Runs
      BY <1>0 DEF TypeOK
    <2> QED BY <1>0, <1>1, <2>1, <2>2 DEF ResultsTruthful
  <1>10. EndedRunReported'
    BY <1>0, <1>1, <1>2, <1>3 DEF EndedRunReported
  <1>11. QED
    BY <1>5, <1>6, <1>7, <1>8, <1>9, <1>10, RunMoves DEF IInv

(* A call that hears something: the gateway's outcome, or none.             *)
LEMMA HearsStep ==
  ASSUME IInv, NEW c \in Calls, NEW what \in {"ok", "error", "timeout", "lost"},
         pc[c] \in {"asking", "waiting"}, Hears(c, what),
         what \in {"ok", "error"} => what \in verdicts[run[c]],
         held[c] => what # "timeout",
         UNCHANGED <<gateway, record, asked, held>>
  PROVE  IInv'
  <1>0. /\ TypeOK /\ Recorded /\ CallBooks /\ HeardBooks /\ HeldBooks
        /\ ResultsTruthful /\ EndedRunReported
    BY DEF IInv
  <1>1. GatewayTypeOK' /\ GatewayBooks'
    BY GatewayStays
  <1>2. TypeOK'
    BY <1>0, <1>1 DEF Hears, Goes, asked, TypeOK
  <1>3. Recorded' /\ CallBooks'
    BY <1>0 DEF Hears, Goes, asked, gateway, Recorded, CallBooks, TypeOK, Pending
  <1>4. HeardBooks'
    BY <1>0 DEF Hears, Goes, asked, gateway, HeardBooks, TypeOK
  <1>5. HeldBooks'
    BY <1>0 DEF Hears, Goes, asked, gateway, HeldBooks, TypeOK, Certain, Verdict
  <1>6. ResultsTruthful' /\ EndedRunReported'
    BY <1>0 DEF Hears, Goes, asked, gateway, ResultsTruthful, EndedRunReported, Truthful, TypeOK
  <1>7. QED
    BY <1>1, <1>2, <1>3, <1>4, <1>5, <1>6 DEF IInv

(* agent.wait answers with what the gateway knows, or waits.                *)
LEMMA AgentWaitStep ==
  ASSUME IInv, NEW c \in Calls, AgentWait(c)
  PROVE  IInv'
  <1>0. /\ TypeOK /\ Recorded /\ GatewayBooks /\ CallBooks /\ HeardBooks /\ HeldBooks
        /\ ResultsTruthful /\ EndedRunReported
    BY DEF IInv
  <1>1. /\ pc[c] = "asking" /\ run[c] \in Runs
        /\ UNCHANGED <<gateway, record, asked, held>>
    BY <1>0 DEF AgentWait, CallBooks, Pending
  <1>2. CASE Verdict(run[c]) \in {"ok", "error", "timeout"} /\ Hears(c, Verdict(run[c]))
    <2>1. Verdict(run[c]) \in verdicts[run[c]]
      BY <1>0, <1>1, <1>2 DEF Verdict, GatewayBooks
    <2>2. held[c] => Verdict(run[c]) # "timeout"
      BY <1>0 DEF HeldBooks, Certain
    <2> QED BY <1>1, <1>2, <2>1, <2>2, HearsStep
  <1>3. CASE Verdict(run[c]) \in {"none", "erring"} /\ Goes(c, "waiting") /\ UNCHANGED heard
    <2>1. ~held[c]
      BY <1>0, <1>3 DEF HeldBooks, Certain
    <2>2. GatewayTypeOK' /\ GatewayBooks'
      BY <1>1, GatewayStays
    <2>3. TypeOK'
      BY <1>0, <1>1, <1>3, <2>2 DEF Goes, asked, TypeOK
    <2>4. Recorded' /\ CallBooks' /\ HeardBooks'
      BY <1>0, <1>1, <1>3 DEF Goes, asked, gateway, Recorded, CallBooks, HeardBooks, TypeOK,
         Pending
    <2>5. HeldBooks'
      BY <1>0, <1>1, <1>3, <2>1 DEF Goes, asked, gateway, HeldBooks, TypeOK, Certain, Verdict
    <2>6. ResultsTruthful' /\ EndedRunReported'
      BY <1>0, <1>1, <1>3 DEF Goes, asked, gateway, ResultsTruthful, EndedRunReported, Truthful,
         TypeOK
    <2> QED BY <2>2, <2>3, <2>4, <2>5, <2>6 DEF IInv
  <1> QED BY <1>2, <1>3 DEF AgentWait

(* A wait expires only if nothing was certain, and a loss tells nothing.    *)
LEMMA UnansweredStep ==
  ASSUME IInv, NEW c \in Calls, WaitExpires(c) \/ RequestLost(c)
  PROVE  IInv'
  <1>1. HeldBooks
    BY DEF IInv
  <1>2. CASE WaitExpires(c)
    <2>1. pc[c] = "waiting" /\ Hears(c, "timeout") /\ ~held[c]
      BY <1>1, <1>2 DEF WaitExpires, HeldBooks
    <2> QED BY <1>2, <2>1, HearsStep DEF WaitExpires
  <1>3. CASE RequestLost(c)
    BY <1>3, HearsStep DEF RequestLost
  <1> QED BY <1>2, <1>3

(* What a call heard turns into an answer, a read of the reply, or a patch. *)
LEMMA ResumeWaitStep ==
  ASSUME IInv, NEW c \in Calls, ResumeWait(c)
  PROVE  IInv'
  <1>0. /\ TypeOK /\ Recorded /\ CallBooks /\ HeardBooks /\ HeldBooks
        /\ ResultsTruthful /\ EndedRunReported
    BY DEF IInv
  <1>a. /\ pc[c] = "heard" /\ run[c] \in Runs /\ phase[run[c]] # "none"
        /\ heard[c] \in {"ok", "error", "timeout", "lost"}
        /\ op[c] \in {"spawnAndWait", "status"}
        /\ UNCHANGED <<gateway, op, run, known, late, heard, held>>
    BY <1>0 DEF ResumeWait, CallBooks, HeardBooks, Pending, TypeOK, asked
  <1>b. GatewayTypeOK' /\ GatewayBooks' /\ \A r \in Runs : Certain(r)' = Certain(r)
    BY <1>a, GatewayStays
  <1>1. CASE heard[c] = "lost" /\ Rejects(c) /\ UNCHANGED record
    <2>1. TypeOK'
      BY <1>0, <1>a, <1>b, <1>1 DEF Rejects, Returns, TypeOK
    <2>2. Recorded' /\ CallBooks' /\ HeardBooks'
      BY <1>0, <1>a, <1>1 DEF Rejects, Returns, gateway, Recorded, CallBooks, HeardBooks, TypeOK,
         Pending
    <2>3. HeldBooks'
      BY <1>0, <1>a, <1>b, <1>1 DEF Rejects, Returns, HeldBooks, TypeOK
    <2>4. ResultsTruthful' /\ EndedRunReported'
      BY <1>0, <1>a, <1>1 DEF Rejects, Returns, gateway, ResultsTruthful, EndedRunReported,
         Truthful, TypeOK, Failure, Entry
    <2> QED BY <1>b, <2>1, <2>2, <2>3, <2>4 DEF IInv
  <1>2. CASE heard[c] # "lost" /\ MapWaitStatus(c) = "running"
             /\ Returns(c, known[c]) /\ UNCHANGED record
    <2>0. op[c] = "status" /\ heard[c] = "timeout" /\ known[c] = Entry("running", "null")
          /\ ~held[c]
      BY <1>0, <1>a, <1>2 DEF MapWaitStatus, CallBooks, HeldBooks, Pending
    <2>1. TypeOK'
      BY <1>0, <1>a, <1>b, <1>2 DEF Returns, TypeOK
    <2>2. Recorded' /\ CallBooks' /\ HeardBooks'
      BY <1>0, <1>a, <1>2 DEF Returns, gateway, Recorded, CallBooks, HeardBooks, TypeOK, Pending
    <2>3. HeldBooks'
      BY <1>0, <1>a, <1>b, <1>2 DEF Returns, HeldBooks, TypeOK
    <2>4. ResultsTruthful' /\ EndedRunReported'
      BY <1>0, <1>a, <1>2, <2>0 DEF Returns, gateway, ResultsTruthful, EndedRunReported,
         Truthful, TypeOK, Entry
    <2> QED BY <1>b, <2>1, <2>2, <2>3, <2>4 DEF IInv
  <1>3. CASE heard[c] # "lost" /\ MapWaitStatus(c) = "completed"
             /\ Goes(c, "reading") /\ UNCHANGED record
    <2>0. heard[c] = "ok"
      BY <1>a, <1>3 DEF MapWaitStatus
    <2>1. TypeOK'
      BY <1>0, <1>a, <1>b, <1>3 DEF Goes, TypeOK
    <2>2. Recorded' /\ CallBooks' /\ HeardBooks'
      BY <1>0, <1>a, <1>3, <2>0 DEF Goes, gateway, Recorded, CallBooks, HeardBooks, TypeOK, Pending
    <2>3. HeldBooks'
      BY <1>0, <1>a, <1>b, <1>3 DEF Goes, HeldBooks, TypeOK
    <2>4. ResultsTruthful' /\ EndedRunReported'
      BY <1>0, <1>a, <1>3 DEF Goes, gateway, ResultsTruthful, EndedRunReported, Truthful, TypeOK
    <2> QED BY <1>b, <2>1, <2>2, <2>3, <2>4 DEF IInv
  <1>4. CASE heard[c] # "lost" /\ MapWaitStatus(c) \in {"failed", "timeout"}
             /\ Patches(c, Entry(MapWaitStatus(c), "null"))
    <2> DEFINE s == MapWaitStatus(c)
    <2>0. /\ s \in {"failed", "timeout"}
          /\ s = "failed" => "error" \in verdicts[run[c]]
          /\ record' = [record EXCEPT ![run[c]] = Entry(s, "null")]
          /\ pc' = [pc EXCEPT ![c] = "done"]
          /\ answer' = [answer EXCEPT ![c] = Entry(s, "null")]
      BY <1>0, <1>a, <1>4 DEF MapWaitStatus, HeardBooks, Patches, Returns
    <2> HIDE DEF s
    <2>1. TypeOK'
      BY <1>0, <1>a, <1>b, <2>0, Entries DEF TypeOK, Terminal
    <2>2. Recorded' /\ CallBooks' /\ HeardBooks'
      BY <1>0, <1>a, <2>0 DEF gateway, Recorded, CallBooks, HeardBooks, TypeOK, Pending, Entry,
         Nothing
    <2>3. HeldBooks'
      BY <1>0, <1>a, <1>b, <2>0 DEF HeldBooks, TypeOK
    <2>4. ResultsTruthful'
      BY <1>0, <1>a, <2>0 DEF gateway, ResultsTruthful, Truthful, TypeOK, Entry
    <2>5. EndedRunReported'
      BY <1>0, <1>a, <2>0 DEF EndedRunReported, TypeOK, Entry, Terminal
    <2> QED BY <1>b, <2>1, <2>2, <2>3, <2>4, <2>5 DEF IInv
  <1> QED BY <1>1, <1>2, <1>3, <1>4 DEF ResumeWait

(* The reply is stored for a run the gateway said was completed.            *)
LEMMA ReadReplyStep ==
  ASSUME IInv, NEW c \in Calls, NEW text \in {"null", "text"}, ReadReply(c, text)
  PROVE  IInv'
  <1>0. /\ TypeOK /\ Recorded /\ CallBooks /\ HeardBooks /\ HeldBooks
        /\ ResultsTruthful /\ EndedRunReported
    BY DEF IInv
  <1> DEFINE out == IF text = "null" THEN KnownOutput(c) ELSE text
  <1>a. /\ pc[c] = "reading" /\ run[c] \in Runs /\ phase[run[c]] # "none"
        /\ "ok" \in verdicts[run[c]]
        /\ out \in {"null", "text"}
        /\ record' = [record EXCEPT ![run[c]] = Entry("completed", out)]
        /\ pc' = [pc EXCEPT ![c] = "done"]
        /\ answer' = [answer EXCEPT ![c] = Entry("completed", out)]
        /\ UNCHANGED <<gateway, op, run, known, late, heard, held>>
    BY <1>0 DEF ReadReply, Patches, Returns, asked, KnownOutput, CallBooks, HeardBooks, Pending,
       TypeOK, Record
  <1> HIDE DEF out
  <1>b. GatewayTypeOK' /\ GatewayBooks' /\ \A r \in Runs : Certain(r)' = Certain(r)
    BY <1>a, GatewayStays
  <1>1. TypeOK'
    BY <1>0, <1>a, <1>b, Entries DEF TypeOK, Terminal
  <1>2. Recorded' /\ CallBooks' /\ HeardBooks'
    BY <1>0, <1>a DEF gateway, Recorded, CallBooks, HeardBooks, TypeOK, Pending, Entry, Nothing
  <1>3. HeldBooks'
    BY <1>0, <1>a, <1>b DEF HeldBooks, TypeOK
  <1>4. ResultsTruthful'
    BY <1>0, <1>a DEF gateway, ResultsTruthful, Truthful, TypeOK, Entry
  <1>5. EndedRunReported'
    BY <1>0, <1>a DEF EndedRunReported, TypeOK, Entry, Terminal
  <1> QED BY <1>b, <1>1, <1>2, <1>3, <1>4, <1>5 DEF IInv

(* Every step, and stuttering, preserves the invariant.                     *)
LEMMA NextStep == IInv /\ [Next]_vars => IInv'
  <1> SUFFICES ASSUME IInv, [Next]_vars PROVE IInv'
    OBVIOUS
  <1>1. CASE Next
    BY <1>1, SpawnStep, SpawnRefusedStep, HandoffStep, StatusStep, RunGoesOnStep,
       AgentWaitStep, UnansweredStep, ResumeWaitStep, ReadReplyStep DEF Next
  <1>2. CASE UNCHANGED vars
    BY <1>2 DEF vars, gateway, IInv, TypeOK, GatewayTypeOK, Recorded, GatewayBooks, CallBooks,
       HeardBooks, HeldBooks, Certain, Verdict, ResultsTruthful, EndedRunReported, Truthful
  <1> QED BY <1>1, <1>2
-----------------------------------------------------------------------------
(* The invariant holds throughout.                                          *)
THEOREM Invariance == Spec => []IInv
  BY InitIInv, NextStep, PTL DEF Spec

(* Every variable keeps its type.                                           *)
THEOREM TypeCorrect == Spec => []TypeOK
  <1>1. IInv => TypeOK
    BY DEF IInv
  <1>2. QED
    BY <1>1, Invariance, PTL

(* What the store or a caller holds as the outcome of a run is an outcome   *)
(* the gateway has had for it.                                              *)
THEOREM OutcomesAreTruthful == Spec => []ResultsTruthful
  <1>1. IInv => ResultsTruthful
    BY DEF IInv
  <1>2. QED
    BY <1>1, Invariance, PTL

(* A status call reports an outcome, or an error, if the gateway had one    *)
(* for as long as the call took.                                            *)
THEOREM EndsAreReported == Spec => []EndedRunReported
  <1>1. IInv => EndedRunReported
    BY DEF IInv
  <1>2. QED
    BY <1>1, Invariance, PTL

(* A completed or failed run is revised only if the gateway has had both    *)
(* outcomes for it, or by the spawning call that gives up its wait.         *)
THEOREM OutcomesRevisedForCause == Spec => RevisedForCause
  <1>1. ASSUME IInv, [Next]_vars, NEW r \in Runs,
               record[r].status \in {"completed", "failed"},
               record'[r].status # record[r].status
        PROVE  \/ {"ok", "error"} \subseteq verdicts[r]
               \/ \E c \in Calls : op[c] = "spawnAndWait" /\ run[c] = r
                                   /\ pc[c] = "heard" /\ pc'[c] = "done"
    <2>0. TypeOK /\ Recorded /\ CallBooks /\ HeardBooks /\ ResultsTruthful
      BY <1>1 DEF IInv
    <2>a. /\ record[r].status = "completed" => "ok" \in verdicts[r]
          /\ record[r].status = "failed" => "error" \in verdicts[r]
      BY <2>0 DEF ResultsTruthful, Truthful
    <2>1. CASE \E c \in Calls, q \in Runs, o \in {"spawn", "spawnAndWait"},
                  useSessionsSend \in BOOLEAN : Spawn(c, q, o, useSessionsSend)
      BY <2>0, <2>1, <1>1 DEF Spawn, Accepts, Recorded, TypeOK, Nothing, Entry
    <2>2. CASE \E c \in Calls : ResumeWait(c)
      <3>1. PICK c \in Calls : ResumeWait(c)
        BY <2>2
      <3>2. /\ Patches(c, Entry(MapWaitStatus(c), "null")) /\ run[c] = r
            /\ pc[c] = "heard" /\ heard[c] # "lost"
            /\ MapWaitStatus(c) \in {"failed", "timeout"}
        BY <1>1, <2>0, <3>1 DEF ResumeWait, Patches, TypeOK
      <3>3. pc'[c] = "done" /\ record'[r].status = MapWaitStatus(c)
        BY <2>0, <3>2 DEF Patches, Returns, TypeOK, Entry
      <3>4. CASE heard[c] = "error"
        <4>1. "error" \in verdicts[r] /\ MapWaitStatus(c) = "failed"
          BY <2>0, <3>2, <3>4 DEF HeardBooks, MapWaitStatus
        <4> QED BY <1>1, <2>a, <3>3, <4>1
      <3>5. CASE heard[c] # "error"
        <4>1. op[c] = "spawnAndWait"
          BY <2>0, <3>2, <3>5 DEF MapWaitStatus, CallBooks, Pending
        <4> QED BY <3>2, <3>3, <4>1
      <3> QED BY <3>4, <3>5
    <2>3. CASE \E c \in Calls, text \in {"null", "text"} : ReadReply(c, text)
      <3>1. PICK c \in Calls, text \in {"null", "text"} : ReadReply(c, text)
        BY <2>3
      <3>2. run[c] = r /\ "ok" \in verdicts[r] /\ record'[r].status = "completed"
        BY <1>1, <2>0, <3>1 DEF ReadReply, Patches, TypeOK, CallBooks, HeardBooks, Pending, Entry
      <3> QED BY <1>1, <2>a, <3>2
    <2>4. CASE UNCHANGED record
      BY <1>1, <2>4
    <2> QED
      BY <1>1, <2>1, <2>2, <2>3, <2>4 DEF Next, SpawnRefused, Status, RunGoesOn, AgentWait,
         WaitExpires, RequestLost, Handoff, vars
  <1>2. IInv /\ [Next]_vars =>
          [\A r \in Runs :
             record[r].status \in {"completed", "failed"}
             /\ record'[r].status # record[r].status =>
                 \/ {"ok", "error"} \subseteq verdicts[r]
                 \/ \E c \in Calls : op[c] = "spawnAndWait" /\ run[c] = r
                                     /\ pc[c] = "heard" /\ pc'[c] = "done"]_vars
    BY <1>1
  <1>3. QED
    BY <1>2, Invariance, PTL DEF Spec, RevisedForCause
-----------------------------------------------------------------------------
(* A run the plugin has missed the end of: its command is settled, the      *)
(* gateway keeps no outcome of it any more, or only that it was aborted,    *)
(* its record says running, and no call is left that waits for it to end or *)
(* has heard that it did.                                                   *)
Missed(r) ==
    /\ phase[r] = "settled" /\ dedupe[r] = "none" /\ cache[r] \in {"none", "timeout"}
    /\ record[r] = Entry("running", "null")
    /\ \A c \in Calls : run[c] = r =>
          /\ op[c] = "spawnAndWait" => pc[c] \in {"idle", "done"}
          /\ pc[c] = "heard" => heard[c] \notin {"ok", "error"}
          /\ pc[c] # "reading"
StaysRunning == [][\A r \in Runs : Missed(r) => Missed(r)']_vars

(* The gateway learns nothing more of a settled run.                        *)
LEMMA NothingNew ==
  ASSUME IInv, NEW q \in Runs, RunGoesOn(q), NEW r \in Runs, Missed(r)
  PROVE  Missed(r)'
  <1>0. TypeOK /\ GatewayTypeOK /\ record' = record /\ op' = op /\ run' = run
    BY DEF IInv, TypeOK, RunGoesOn, asked
  <1>1. CASE q = r
    <2>1. PrunesRun(r) /\ UNCHANGED <<pc, heard>>
      BY <1>0, <1>1 DEF Missed, RunGoesOn, TimesOut, Errs, Retries, DropsResult, Ends, GraceEnds,
         Settles
    <2> QED BY <1>0, <2>1 DEF Missed, PrunesRun, GatewayTypeOK
  <1>2. CASE q # r
    <2>1. phase'[r] = phase[r] /\ dedupe'[r] = dedupe[r] /\ cache'[r] = cache[r]
      BY <1>0, <1>2 DEF RunGoesOn, TimesOut, Errs, Retries, DropsResult, PrunesRun, Ends,
         GraceEnds, Settles, GatewayTypeOK
    <2>2. \A c \in Calls : run[c] = r => pc'[c] = pc[c] /\ heard'[c] = heard[c]
      BY <1>0, <1>2 DEF RunGoesOn, Tells
    <2> QED BY <1>0, <2>1, <2>2 DEF Missed
  <1> QED BY <1>1, <1>2

(* No call about such a run hears of an end, or patches its record.         *)
LEMMA NobodyTold ==
  ASSUME IInv, NEW d \in Calls, AgentWait(d) \/ WaitExpires(d) \/ RequestLost(d),
         NEW r \in Runs, Missed(r)
  PROVE  Missed(r)'
  <1>0. TypeOK /\ pc[d] \in {"asking", "waiting"}
        /\ UNCHANGED <<phase, dedupe, cache, record, op, run>>
    BY DEF IInv, AgentWait, WaitExpires, RequestLost, gateway, asked
  <1>1. run[d] = r => Verdict(run[d]) \in {"none", "timeout"}
    BY DEF Missed, Verdict
  <1>2. \A c \in Calls :
           \/ pc'[c] = pc[c] /\ heard'[c] = heard[c]
           \/ c = d /\ (\/ pc'[c] = "waiting"
                        \/ pc'[c] = "heard" /\ (run[c] = r => heard'[c] \in {"timeout", "lost"}))
    BY <1>0, <1>1 DEF AgentWait, WaitExpires, RequestLost, Hears, Goes, TypeOK
  <1>3. run[d] = r => op[d] # "spawnAndWait"
    BY <1>0 DEF Missed
  <1> QED BY <1>0, <1>2, <1>3 DEF Missed

(* A call that resumes about such a run answers that it is running, or      *)
(* fails; one about another run leaves it alone.                            *)
LEMMA NobodyPatches ==
  ASSUME IInv, NEW d \in Calls,
         ResumeWait(d) \/ \E text \in {"null", "text"} : ReadReply(d, text),
         NEW r \in Runs, Missed(r)
  PROVE  Missed(r)'
  <1>0. /\ TypeOK /\ CallBooks /\ HeardBooks
        /\ UNCHANGED <<phase, dedupe, cache, op, run, heard>>
        /\ pc[d] \in {"heard", "reading"} /\ run[d] \in Runs
        /\ op[d] \in {"spawnAndWait", "status"}
    BY DEF IInv, ResumeWait, ReadReply, gateway, asked, CallBooks, Pending
  <1>1. CASE run[d] # r
    <2>1. record'[r] = record[r]
      BY <1>0, <1>1 DEF ResumeWait, ReadReply, Patches, TypeOK
    <2>2. \A c \in Calls : run[c] = r => pc'[c] = pc[c]
      BY <1>0, <1>1 DEF ResumeWait, ReadReply, Patches, Rejects, Returns, Goes, TypeOK
    <2> QED BY <1>0, <2>1, <2>2 DEF Missed
  <1>2. CASE run[d] = r
    <2>1. op[d] = "status" /\ pc[d] = "heard" /\ heard[d] \notin {"ok", "error"}
      BY <1>0, <1>2 DEF Missed
    <2>2. MapWaitStatus(d) = "running"
      BY <2>1 DEF MapWaitStatus
    <2>3. record' = record /\ pc' = [pc EXCEPT ![d] = "done"]
      BY <2>1, <2>2 DEF ResumeWait, ReadReply, Rejects, Returns
    <2> QED BY <1>0, <2>3 DEF Missed, TypeOK
  <1> QED BY <1>1, <1>2

(* A call that begins, or goes on after the handoff, does not wait for such *)
(* a run: the run is not new.                                               *)
LEMMA NobodyWaits ==
  ASSUME IInv, NEW d \in Calls, NEW r \in Runs, Missed(r),
         \/ \E q \in Runs, o \in {"spawn", "spawnAndWait"}, useSessionsSend \in BOOLEAN :
               Spawn(d, q, o, useSessionsSend)
         \/ \E o \in {"spawn", "spawnAndWait"} : SpawnRefused(d, o)
         \/ Handoff(d)
         \/ \E q \in Runs : Status(d, q)
  PROVE  Missed(r)'
  <1>0. TypeOK /\ CallBooks /\ GatewayTypeOK
    BY DEF IInv, TypeOK
  <1>1. phase'[r] = phase[r] /\ dedupe'[r] = dedupe[r] /\ cache'[r] = cache[r]
        /\ record'[r] = record[r]
    BY <1>0 DEF Missed, Spawn, Accepts, SpawnRefused, Handoff, Status, GatewayTypeOK, TypeOK, gateway
  <1>2. \A c \in Calls \ {d} : pc'[c] = pc[c] /\ op'[c] = op[c] /\ run'[c] = run[c]
    BY <1>0 DEF Spawn, SpawnRefused, Handoff, Status, GoesOn, Goes, Returns, TypeOK, asked
  <1>3. heard' = heard
    BY DEF Spawn, SpawnRefused, Handoff, Status
  <1>4. run'[d] = r => /\ op'[d] = "spawnAndWait" => pc'[d] = "done"
                       /\ pc'[d] \in {"asking", "done"}
    <2>1. CASE \E q \in Runs, o \in {"spawn", "spawnAndWait"}, useSessionsSend \in BOOLEAN :
                 Spawn(d, q, o, useSessionsSend)
      BY <1>0, <2>1 DEF Missed, Spawn, Accepts, TypeOK
    <2>2. CASE \E o \in {"spawn", "spawnAndWait"} : SpawnRefused(d, o)
      BY <1>0, <2>2 DEF SpawnRefused, Returns, TypeOK
    <2>3. CASE Handoff(d)
      BY <1>0, <2>3 DEF Missed, Handoff, GoesOn, Goes, Returns, TypeOK, asked
    <2>4. CASE \E q \in Runs : Status(d, q)
      BY <1>0, <2>4 DEF Status, Goes, Returns, TypeOK
    <2> QED BY <2>1, <2>2, <2>3, <2>4
  <1> QED BY <1>1, <1>2, <1>3, <1>4 DEF Missed

(* A run whose end the plugin has missed, because nobody asked while the    *)
(* gateway kept an outcome or the run was aborted, is recorded as running   *)
(* for ever, whatever is asked about it.                                    *)
THEOREM MissedIsNeverLearned == Spec => StaysRunning
  <1>1. ASSUME IInv, [Next]_vars, NEW r \in Runs, Missed(r)
        PROVE  Missed(r)'
    <2>1. CASE UNCHANGED vars
      BY <1>1, <2>1 DEF Missed, vars, gateway
    <2>2. CASE Next
      BY <1>1, <2>2, NothingNew, NobodyTold, NobodyPatches, NobodyWaits DEF Next
    <2> QED BY <1>1, <2>1, <2>2
  <1>2. IInv /\ [Next]_vars => [\A r \in Runs : Missed(r) => Missed(r)']_vars
    BY <1>1
  <1>3. QED
    BY <1>2, Invariance, PTL DEF Spec, StaysRunning
=============================================================================
