--------------------------- MODULE LifecycleProofs ---------------------------
(***************************************************************************)
(* Theorems about Lifecycle for every set of runs, wait calls and          *)
(* durations.  The safety properties follow from one inductive invariant.  *)
(***************************************************************************)
EXTENDS Lifecycle, TLAPS

(* A run that is not decided carries neither output nor error, and one that *)
(* was stopped carries the reason.                                          *)
Undecided == \A r \in Runs :
    /\ status[r] \in {"none", "running"} => output[r] = "null" /\ error[r] = "none"
    /\ status[r] \in {"timeout", "cancelled"} => error[r] # "none"

(* The executor of a run starts with it, and only its continuation          *)
(* completes or fails the run.                                              *)
Executors == \A r \in Runs :
    /\ status[r] = "none" <=> executor[r] = "idle"
    /\ executor[r] = "done" => status[r] \in Terminal
    /\ status[r] \in {"completed", "failed"} => executor[r] = "done"

(* Calls wait on known runs; timers and answers belong to calls that wait;  *)
(* a resolved promise has answered everyone that waits on it.               *)
WaitBooks == \A w \in Waits, r \in Runs :
    /\ r \in waitOn[w] => status[r] # "none"
    /\ <<w, r>> \in waitTimers => waitMs[w] # 0 /\ r \in waitOn[w]
    /\ Answered(w, r) => r \in waitOn[w]
    /\ r \in waitOn[w] /\ executor[r] = "done" => Answered(w, r)

IInv == /\ TypeOK
        /\ Undecided
        /\ Executors
        /\ WaitBooks
        /\ RunningIsTimed
        /\ CancelHonoured
        /\ AnswersAgree
        /\ EqualTimeoutsDecide
-----------------------------------------------------------------------------
(* The empty map of runs satisfies the invariant.                           *)
LEMMA InitIInv == Init => IInv
  BY DurationAssumption
     DEF Init, IInv, TypeOK, Undecided, Executors, WaitBooks, RunningIsTimed, CancelHonoured,
         AnswersAgree, EqualTimeoutsDecide, Answered, NoAnswer, SnapshotOf, Status, Terminal,
         Output, Error, Snapshot

(* spawnAgent arms the run it starts and disturbs no other.                 *)
LEMMA SpawnStep ==
  ASSUME IInv,
         NEW r \in Runs, NEW explicit \in Durations \cup {0},
         NEW limit \in Limits \cup {0}, Spawn(r, explicit, limit)
  PROVE  IInv'
  <1>0. TypeOK /\ Undecided /\ Executors /\ WaitBooks
        /\ RunningIsTimed /\ CancelHonoured /\ AnswersAgree /\ EqualTimeoutsDecide
    BY DEF IInv
  <1>1. TypeOK'
    BY <1>0, DurationAssumption DEF Spawn, waitVars, EffectiveTimeout, TypeOK,
       Status, Terminal, Output, Error
  <1>2. Undecided'
    BY <1>0 DEF Spawn, waitVars, Undecided, TypeOK
  <1>3. Executors'
    BY <1>0 DEF Spawn, waitVars, Executors, TypeOK, Terminal
  <1>4. WaitBooks'
    BY <1>0 DEF Spawn, waitVars, WaitBooks, Answered, Executors, TypeOK
  <1>5. RunningIsTimed'
    BY <1>0 DEF Spawn, waitVars, RunningIsTimed, TypeOK
  <1>6. CancelHonoured'
    BY <1>0 DEF Spawn, waitVars, CancelHonoured, SnapshotOf, TypeOK
  <1>7. AnswersAgree'
    <2>. SUFFICES ASSUME NEW v \in Waits, NEW q \in Runs, got[v][q].status \in Terminal
                  PROVE  got[v][q] = SnapshotOf(q)'
      BY DEF AnswersAgree, Spawn, waitVars
    <2>1. got[v][q] = SnapshotOf(q)
      BY <1>0 DEF AnswersAgree
    <2>2. q # r
      BY <2>1 DEF SnapshotOf, Terminal, Spawn
    <2>3. QED
      BY <1>0, <2>1, <2>2 DEF SnapshotOf, TypeOK, Spawn
  <1>8. EqualTimeoutsDecide'
    BY <1>0 DEF Spawn, waitVars, EqualTimeoutsDecide, WaitBooks, Answered,
       TypeOK
  <1>9. QED
    BY <1>1, <1>2, <1>3, <1>4, <1>5, <1>6, <1>7, <1>8 DEF IInv

(* A settled executor queues a continuation, nothing more.                  *)
LEMMA ExecutorSettlesStep ==
  ASSUME IInv,
         NEW r \in Runs, NEW how \in {"fulfilled", "rejected"},
         ExecutorSettles(r, how)
  PROVE  IInv'
  <1>0. TypeOK /\ Undecided /\ Executors /\ WaitBooks
        /\ RunningIsTimed /\ CancelHonoured /\ AnswersAgree /\ EqualTimeoutsDecide
    BY DEF IInv
  <1>1. TypeOK'
    BY <1>0 DEF ExecutorSettles, waitVars, TypeOK
  <1>2. Undecided'
    BY <1>0 DEF ExecutorSettles, waitVars, Undecided
  <1>3. Executors'
    BY <1>0 DEF ExecutorSettles, waitVars, Executors, TypeOK, Terminal
  <1>4. WaitBooks'
    BY <1>0 DEF ExecutorSettles, waitVars, WaitBooks, Answered, TypeOK
  <1>5. RunningIsTimed'
    BY <1>0 DEF ExecutorSettles, waitVars, RunningIsTimed
  <1>6. CancelHonoured'
    BY <1>0 DEF ExecutorSettles, waitVars, CancelHonoured, SnapshotOf
  <1>7. AnswersAgree'
    BY <1>0 DEF ExecutorSettles, waitVars, AnswersAgree, SnapshotOf
  <1>8. EqualTimeoutsDecide'
    BY <1>0 DEF ExecutorSettles, waitVars, EqualTimeoutsDecide
  <1>9. QED
    BY <1>1, <1>2, <1>3, <1>4, <1>5, <1>6, <1>7, <1>8 DEF IInv

(* The continuation decides at most its own, undecided run.                 *)
LEMMA ContinueStep ==
  ASSUME IInv,
         NEW r \in Runs, Continue(r)
  PROVE  IInv'
  <1>0. TypeOK /\ Undecided /\ Executors /\ WaitBooks
        /\ RunningIsTimed /\ CancelHonoured /\ AnswersAgree /\ EqualTimeoutsDecide
    BY DEF IInv
  <1>1. TypeOK'
    BY <1>0 DEF Continue, ContinuationWins, SnapshotOf, ClearTimer,
       AnswerWaiters, Snapshot, TypeOK, Status, Terminal, Output, Error
  <1>2. Undecided'
    BY <1>0 DEF Continue, ContinuationWins, SnapshotOf, Undecided, TypeOK
  <1>3. Executors'
    BY <1>0 DEF Continue, ContinuationWins, SnapshotOf, Executors, TypeOK,
       Status, Terminal, Output, Error
  <1>4. WaitBooks'
    <2>. SUFFICES ASSUME NEW v \in Waits, NEW q \in Runs
                  PROVE  /\ q \in waitOn[v] => status'[q] # "none"
                         /\ <<v, q>> \in waitTimers => waitMs[v] # 0 /\ q \in waitOn[v]
                         /\ Answered(v, q)' => q \in waitOn[v]
                         /\ q \in waitOn[v] /\ executor'[q] = "done" => Answered(v, q)'
      BY DEF WaitBooks, Continue
    <2>1. status'[q] # "none" <=> status[q] # "none"
      BY <1>0 DEF Continue, ContinuationWins, SnapshotOf, Executors, TypeOK
    <2>2. CASE r \in waitOn[v] /\ ~Answered(v, r)
      <3>1. got'[v][r].status \in Terminal
        BY <1>0, <2>2 DEF Continue, ContinuationWins, SnapshotOf, AnswerWaiters, Executors,
                          TypeOK, Terminal, Status
      <3>2. q # r => got'[v][q] = got[v][q] /\ executor'[q] = executor[q]
        BY <1>0, <2>2 DEF Continue, AnswerWaiters, TypeOK
      <3>3. QED
        BY <1>0, <2>1, <2>2, <3>1, <3>2 DEF WaitBooks, Answered, Terminal
    <2>3. CASE ~(r \in waitOn[v] /\ ~Answered(v, r))
      <3>1. got'[v] = got[v]
        BY <2>3 DEF Continue, AnswerWaiters
      <3>2. q # r => executor'[q] = executor[q]
        BY <1>0 DEF Continue, TypeOK
      <3>3. QED
        BY <1>0, <2>1, <2>3, <3>1, <3>2 DEF WaitBooks, Answered
    <2>4. QED
      BY <2>2, <2>3
  <1>5. RunningIsTimed'
    BY <1>0 DEF Continue, ContinuationWins, SnapshotOf, ClearTimer,
       RunningIsTimed, Executors, TypeOK, Status, Terminal, Output, Error
  <1>6. CancelHonoured'
    BY <1>0 DEF Continue, ContinuationWins, SnapshotOf, CancelHonoured, TypeOK
  <1>7. AnswersAgree'
    BY <1>0 DEF Continue, ContinuationWins, SnapshotOf, AnswerWaiters,
       AnswersAgree, Answered, TypeOK, Status, Terminal, Output, Error, Snapshot
  <1>8. EqualTimeoutsDecide'
    BY <1>0 DEF Continue, ContinuationWins, SnapshotOf, AnswerWaiters,
       EqualTimeoutsDecide, Answered, Executors, TypeOK, Status, Terminal,
       Output, Error, Snapshot
  <1>9. QED
    BY <1>1, <1>2, <1>3, <1>4, <1>5, <1>6, <1>7, <1>8 DEF IInv

(* A timeout ends a running run and disarms itself.                         *)
LEMMA RunTimerFiresStep ==
  ASSUME IInv,
         NEW r \in Runs, RunTimerFires(r)
  PROVE  IInv'
  <1>0. TypeOK /\ Undecided /\ Executors /\ WaitBooks
        /\ RunningIsTimed /\ CancelHonoured /\ AnswersAgree /\ EqualTimeoutsDecide
    BY DEF IInv
  <1>1. TypeOK'
    BY <1>0 DEF RunTimerFires, Expire, waitVars, TypeOK, Status, Terminal,
       Output, Error
  <1>2. Undecided'
    BY <1>0 DEF RunTimerFires, Expire, waitVars, Undecided, TypeOK
  <1>3. Executors'
    BY <1>0 DEF RunTimerFires, Expire, waitVars, Executors, TypeOK, Terminal
  <1>4. WaitBooks'
    BY <1>0 DEF RunTimerFires, Expire, waitVars, WaitBooks, Answered, TypeOK
  <1>5. RunningIsTimed'
    BY <1>0 DEF RunTimerFires, Expire, waitVars, RunningIsTimed, TypeOK
  <1>6. CancelHonoured'
    BY <1>0 DEF RunTimerFires, Expire, waitVars, CancelHonoured, SnapshotOf,
       TypeOK
  <1>7. AnswersAgree'
    <2>. SUFFICES ASSUME NEW v \in Waits, NEW q \in Runs, got[v][q].status \in Terminal
                  PROVE  got[v][q] = SnapshotOf(q)'
      BY DEF AnswersAgree, RunTimerFires, waitVars
    <2>1. got[v][q] = SnapshotOf(q) /\ status[q] # "running"
      BY <1>0 DEF AnswersAgree, SnapshotOf, Terminal
    <2>2. QED
      BY <1>0, <2>1 DEF SnapshotOf, TypeOK, RunTimerFires, Expire
  <1>8. EqualTimeoutsDecide'
    BY <1>0 DEF RunTimerFires, Expire, waitVars, EqualTimeoutsDecide
  <1>9. QED
    BY <1>1, <1>2, <1>3, <1>4, <1>5, <1>6, <1>7, <1>8 DEF IInv

(* cancelAgent ends a running run and disarms it.                           *)
LEMMA CancelStep ==
  ASSUME IInv,
         NEW r \in Runs, Cancel(r)
  PROVE  IInv'
  <1>0. TypeOK /\ Undecided /\ Executors /\ WaitBooks
        /\ RunningIsTimed /\ CancelHonoured /\ AnswersAgree /\ EqualTimeoutsDecide
    BY DEF IInv
  <1>1. TypeOK'
    BY <1>0 DEF Cancel, Cancellable, waitVars, ClearTimer, TypeOK, Status,
       Terminal, Output, Error
  <1>2. Undecided'
    BY <1>0 DEF Cancel, Cancellable, waitVars, Undecided, TypeOK
  <1>3. Executors'
    BY <1>0 DEF Cancel, Cancellable, waitVars, Executors, TypeOK, Terminal
  <1>4. WaitBooks'
    BY <1>0 DEF Cancel, Cancellable, waitVars, WaitBooks, Answered, TypeOK
  <1>5. RunningIsTimed'
    BY <1>0 DEF Cancel, Cancellable, waitVars, ClearTimer, RunningIsTimed,
       TypeOK
  <1>6. CancelHonoured'
    BY <1>0 DEF Cancel, Cancellable, waitVars, CancelHonoured, Undecided,
       SnapshotOf, TypeOK
  <1>7. AnswersAgree'
    <2>. SUFFICES ASSUME NEW v \in Waits, NEW q \in Runs, got[v][q].status \in Terminal
                  PROVE  got[v][q] = SnapshotOf(q)'
      BY DEF AnswersAgree, Cancel, waitVars
    <2>1. got[v][q] = SnapshotOf(q)
      BY <1>0 DEF AnswersAgree
    <2>2. q # r
      BY <2>1 DEF SnapshotOf, Terminal, Cancel, Cancellable
    <2>3. QED
      BY <1>0, <2>1, <2>2 DEF SnapshotOf, TypeOK, Cancel
  <1>8. EqualTimeoutsDecide'
    BY <1>0 DEF Cancel, Cancellable, waitVars, EqualTimeoutsDecide
  <1>9. QED
    BY <1>1, <1>2, <1>3, <1>4, <1>5, <1>6, <1>7, <1>8 DEF IInv

(* A wait call adds its own timers and answers, all truthful.               *)
LEMMA WaitStep ==
  ASSUME IInv,
         NEW w \in Waits, NEW S \in SUBSET Runs, NEW ms \in Durations \cup {0},
         Wait(w, S, ms)
  PROVE  IInv'
  <1>0. TypeOK /\ Undecided /\ Executors /\ WaitBooks
        /\ RunningIsTimed /\ CancelHonoured /\ AnswersAgree /\ EqualTimeoutsDecide
    BY DEF IInv
  <1>1. TypeOK'
    BY <1>0 DEF Wait, runVars, TimersFor, Known, SnapshotOf, Snapshot, TypeOK,
       Status, Terminal, Output, Error
  <1>2. Undecided'
    BY <1>0 DEF Wait, runVars, Undecided
  <1>3. Executors'
    BY <1>0 DEF Wait, runVars, Executors
  <1>4. WaitBooks'
    <2>. SUFFICES ASSUME NEW v \in Waits, NEW q \in Runs
                  PROVE  /\ q \in waitOn'[v] => status[q] # "none"
                         /\ <<v, q>> \in waitTimers' => waitMs'[v] # 0 /\ q \in waitOn'[v]
                         /\ Answered(v, q)' => q \in waitOn'[v]
                         /\ q \in waitOn'[v] /\ executor[q] = "done" => Answered(v, q)'
      BY DEF WaitBooks, Wait, runVars
    <2>1. CASE v # w
      <3>1. /\ waitOn'[v] = waitOn[v] /\ waitMs'[v] = waitMs[v] /\ got'[v] = got[v]
            /\ <<v, q>> \in waitTimers' => <<v, q>> \in waitTimers
        BY <1>0, <2>1 DEF Wait, TimersFor, TypeOK
      <3>2. QED
        BY <1>0, <3>1 DEF WaitBooks, Answered
    <2>2. CASE v = w
      <3>1. /\ waitOn'[v] = S \cap Known /\ waitMs'[v] = ms
            /\ got'[v][q] = IF q \in S /\ Settled(q) THEN SnapshotOf(q) ELSE got[v][q]
            /\ ~Answered(v, q) /\ <<v, q>> \notin waitTimers
        BY <1>0, <2>2 DEF Wait, TypeOK, WaitBooks
      <3>2. Settled(q) => status[q] # "none"
        BY <1>0 DEF Settled, Executors, Terminal
      <3>3. <<v, q>> \in waitTimers' => ms # 0 /\ q \in S \cap Known
        BY <3>1 DEF Wait, TimersFor
      <3>4. QED
        BY <1>0, <3>1, <3>2, <3>3 DEF Known, Answered, Settled, SnapshotOf
    <2>3. QED
      BY <2>1, <2>2
  <1>5. RunningIsTimed'
    BY <1>0 DEF Wait, runVars, RunningIsTimed
  <1>6. CancelHonoured'
    BY <1>0 DEF Wait, runVars, CancelHonoured, SnapshotOf
  <1>7. AnswersAgree'
    BY <1>0 DEF Wait, runVars, AnswersAgree, SnapshotOf, TypeOK, Snapshot
  <1>8. EqualTimeoutsDecide'
    <2>. SUFFICES ASSUME NEW v \in Waits, NEW q \in Runs, got'[v][q].status = "running"
                  PROVE  waitMs'[v] \notin {0, timeoutMs[q]}
      BY DEF EqualTimeoutsDecide, Wait, runVars
    <2>1. v # w
      <3>. SUFFICES ASSUME v = w PROVE FALSE
        OBVIOUS
      <3>1. got'[v][q] = IF q \in S /\ Settled(q) THEN SnapshotOf(q) ELSE got[v][q]
        BY <1>0 DEF Wait, TypeOK
      <3>2. ~Answered(v, q)
        BY <1>0 DEF Wait, WaitBooks
      <3>3. QED
        BY <1>0, <3>1, <3>2 DEF Answered, Settled, SnapshotOf, Executors, Terminal
    <2>2. got'[v] = got[v] /\ waitMs'[v] = waitMs[v]
      BY <1>0, <2>1 DEF Wait, TypeOK
    <2>3. QED
      BY <1>0, <2>2 DEF EqualTimeoutsDecide
  <1>9. QED
    BY <1>1, <1>2, <1>3, <1>4, <1>5, <1>6, <1>7, <1>8 DEF IInv

(* A wait timer answers with the run as it is.                              *)
LEMMA WaitTimerFiresStep ==
  ASSUME IInv,
         NEW w \in Waits, NEW r \in Runs, WaitTimerFires(w, r)
  PROVE  IInv'
  <1>0. TypeOK /\ Undecided /\ Executors /\ WaitBooks
        /\ RunningIsTimed /\ CancelHonoured /\ AnswersAgree /\ EqualTimeoutsDecide
    BY DEF IInv
  <1>1. TypeOK'
    BY <1>0 DEF WaitTimerFires, runVars, WaitTimeoutSnapshot, SnapshotOf,
       Snapshot, TypeOK, Status, Terminal, Output, Error
  <1>2. Undecided'
    BY <1>0 DEF WaitTimerFires, runVars, Undecided
  <1>3. Executors'
    BY <1>0 DEF WaitTimerFires, runVars, Executors
  <1>4. WaitBooks'
    BY <1>0 DEF WaitTimerFires, runVars, WaitTimeoutSnapshot, SnapshotOf,
       WaitBooks, Answered, Snapshot, TypeOK, Status, Terminal, Output, Error
  <1>5. RunningIsTimed'
    BY <1>0 DEF WaitTimerFires, runVars, RunningIsTimed
  <1>6. CancelHonoured'
    BY <1>0 DEF WaitTimerFires, runVars, CancelHonoured, SnapshotOf
  <1>7. AnswersAgree'
    BY <1>0 DEF WaitTimerFires, runVars, WaitTimeoutSnapshot, SnapshotOf,
       AnswersAgree, WaitBooks, Executors, Undecided, Snapshot, TypeOK, Status,
       Terminal, Output, Error
  <1>8. EqualTimeoutsDecide'
    BY <1>0 DEF WaitTimerFires, runVars, WaitTimeoutSnapshot, SnapshotOf,
       EqualTimeoutsDecide, RunningIsTimed, WaitBooks, Snapshot, TypeOK, Status,
       Terminal, Output, Error
  <1>9. QED
    BY <1>1, <1>2, <1>3, <1>4, <1>5, <1>6, <1>7, <1>8 DEF IInv

(* Every step, and stuttering, preserves the invariant.                     *)
LEMMA NextStep == IInv /\ [Next]_vars => IInv'
  <1> SUFFICES ASSUME IInv, [Next]_vars PROVE IInv'
    OBVIOUS
  <1>1. CASE Next
    BY <1>1, SpawnStep, ExecutorSettlesStep, ContinueStep, RunTimerFiresStep, CancelStep,
       WaitStep, WaitTimerFiresStep DEF Next
  <1>2. CASE UNCHANGED vars
    BY <1>2 DEF IInv, vars, TypeOK, Undecided, Executors, WaitBooks, RunningIsTimed,
                CancelHonoured, AnswersAgree, EqualTimeoutsDecide, Answered, SnapshotOf
  <1>3. QED
    BY <1>1, <1>2

(* The invariant holds throughout.                                          *)
THEOREM Invariance == Spec => []IInv
  BY InitIInv, NextStep, PTL DEF Spec

(* Every variable keeps its type.                                           *)
THEOREM TypeCorrect == Spec => []TypeOK
  <1>1. IInv => TypeOK
    BY DEF IInv
  <1>2. QED
    BY <1>1, Invariance, PTL

(* An acknowledged cancellation stays the outcome of its run.               *)
THEOREM CancellationHonoured == Spec => []CancelHonoured
  <1>1. IInv => CancelHonoured
    BY DEF IInv
  <1>2. QED
    BY <1>1, Invariance, PTL

(* All callers are told the same outcome, the one the record holds.         *)
THEOREM CallersAgree == Spec => []AnswersAgree
  <1>1. IInv => AnswersAgree
    BY DEF IInv
  <1>2. QED
    BY <1>1, Invariance, PTL

(* Exactly the running runs have an armed timeout.                          *)
THEOREM RunningRunsAreTimed == Spec => []RunningIsTimed
  <1>1. IInv => RunningIsTimed
    BY DEF IInv
  <1>2. QED
    BY <1>1, Invariance, PTL

(* A wait with its run's own timeout is never answered "running".           *)
THEOREM EqualTimeoutsAreDecisive == Spec => []EqualTimeoutsDecide
  <1>1. IInv => EqualTimeoutsDecide
    BY DEF IInv
  <1>2. QED
    BY <1>1, Invariance, PTL
-----------------------------------------------------------------------------
(* A wait that has no answer has one to come: the promise of its run is not *)
(* resolved yet, and a wait with a timeout has its own timer armed.         *)
AnswerToCome(w, r) ==
    /\ ~Settled(r)
    /\ waitMs[w] # 0 => <<w, r>> \in waitTimers
WaitersAreTimed == \A w \in Waits : \A r \in waitOn[w] : ~Answered(w, r) => AnswerToCome(w, r)

LEMMA WaitersStep == IInv /\ WaitersAreTimed /\ [Next]_vars => WaitersAreTimed'
  <1> SUFFICES ASSUME IInv, WaitersAreTimed, [Next]_vars,
                      NEW w \in Waits, NEW r \in waitOn'[w], ~Answered(w, r)'
               PROVE  AnswerToCome(w, r)'
    BY DEF WaitersAreTimed
  <1>0. TypeOK /\ WaitBooks /\ Executors /\ RunningIsTimed
    BY DEF IInv
  <1>1. IInv'
    BY NextStep
  <1>2. r \in Runs
    BY <1>1 DEF IInv, TypeOK
  <1>3. ~Settled(r)'
    BY <1>1, <1>2 DEF IInv, WaitBooks, Settled
  <1>4. ASSUME waitMs'[w] # 0 PROVE <<w, r>> \in waitTimers'
    <2>1. ASSUME NEW v \in Waits, NEW S \in SUBSET Runs, NEW ms \in Durations \cup {0}, Wait(v, S, ms)
          PROVE  <<w, r>> \in waitTimers'
      <3>1. CASE v = w
        BY <1>0, <1>4, <2>1, <3>1 DEF Wait, TimersFor, TypeOK
      <3>2. CASE v # w
        BY <1>0, <1>2, <1>4, <2>1, <3>2 DEF Wait, TypeOK, Answered, WaitersAreTimed, AnswerToCome
      <3> QED BY <3>1, <3>2
    <2>2. ASSUME NEW v \in Waits, NEW q \in Runs, WaitTimerFires(v, q)
          PROVE  <<w, r>> \in waitTimers'
      <3>1. <<v, q>> # <<w, r>>
        <4>1. SUFFICES ASSUME v = w, q = r PROVE FALSE
          OBVIOUS
        <4>2. status[r] # "none"
          BY <1>0, <1>2, <2>2, <4>1 DEF WaitTimerFires, WaitBooks
        <4>3. ~Answered(w, r) => got'[w][r].status = status[r]
          BY <1>0, <1>2, <2>2, <4>1 DEF WaitTimerFires, TypeOK, WaitTimeoutSnapshot, SnapshotOf
        <4> QED BY <1>0, <1>2, <2>2, <4>1, <4>2, <4>3 DEF WaitTimerFires, Answered
      <3>2. got'[w][r] = got[w][r]
        BY <1>0, <1>2, <2>2, <3>1 DEF WaitTimerFires, TypeOK
      <3> QED BY <1>2, <1>4, <2>2, <3>1, <3>2
              DEF WaitTimerFires, Answered, WaitersAreTimed, AnswerToCome
    <2>3. CASE UNCHANGED <<waitOn, waitMs, waitTimers>> /\ (Answered(w, r) => Answered(w, r)')
      BY <1>4, <2>3 DEF WaitersAreTimed, AnswerToCome
    <2>4. ASSUME NEW q \in Runs, Continue(q)
          PROVE  UNCHANGED <<waitOn, waitMs, waitTimers>> /\ (Answered(w, r) => Answered(w, r)')
      BY <1>0, <1>2, <2>4 DEF Continue, AnswerWaiters, Answered, TypeOK
    <2>5. CASE UNCHANGED waitVars
      BY <2>3, <2>5 DEF waitVars, Answered
    <2>6. ASSUME NEW q \in Runs, NEW explicit \in Durations \cup {0}, NEW limit \in Limits \cup {0},
                 Spawn(q, explicit, limit)
          PROVE UNCHANGED waitVars
      BY <2>6 DEF Spawn
    <2>7. ASSUME NEW q \in Runs,
                 \/ \E how \in {"fulfilled", "rejected"} : ExecutorSettles(q, how)
                 \/ RunTimerFires(q) \/ Cancel(q)
          PROVE UNCHANGED waitVars
      BY <2>7 DEF ExecutorSettles, RunTimerFires, Cancel
    <2>8. CASE UNCHANGED vars
      BY <2>8, <2>5 DEF vars, waitVars
    <2> QED BY <2>1, <2>2, <2>3, <2>4, <2>5, <2>6, <2>7, <2>8 DEF Next
  <1> QED BY <1>2, <1>3, <1>4 DEF AnswerToCome

(* No caller of waitForAgent or waitForAll is forgotten: whoever has no     *)
(* answer yet has the timer, or the promise, that will bring it.            *)
THEOREM WaitersKept == Spec => []WaitersAreTimed
  <1>1. Init => WaitersAreTimed
    BY DEF Init, WaitersAreTimed
  <1> QED BY <1>1, WaitersStep, Invariance, PTL DEF Spec
-----------------------------------------------------------------------------
(* No step touches the outcome of a decided run.                            *)
LEMMA DecidedIsUntouched ==
  ASSUME IInv, Next, NEW q \in Runs, status[q] \in Terminal
  PROVE  SnapshotOf(q)' = SnapshotOf(q)
  <1>0. TypeOK /\ status[q] \notin {"none", "running"}
    BY DEF IInv, Terminal
  <1>1. CASE \E r \in Runs, explicit \in Durations \cup {0}, limit \in Limits \cup {0} :
               Spawn(r, explicit, limit)
    BY <1>0, <1>1 DEF Spawn, SnapshotOf, TypeOK
  <1>2. CASE \E r \in Runs, how \in {"fulfilled", "rejected"} : ExecutorSettles(r, how)
    BY <1>2 DEF ExecutorSettles, SnapshotOf
  <1>3. CASE \E r \in Runs : Continue(r)
    BY <1>0, <1>3 DEF Continue, ContinuationWins, SnapshotOf, TypeOK
  <1>4. CASE \E r \in Runs : RunTimerFires(r)
    BY <1>0, <1>4 DEF RunTimerFires, Expire, SnapshotOf, TypeOK
  <1>5. CASE \E r \in Runs : Cancel(r)
    BY <1>0, <1>5 DEF Cancel, Cancellable, SnapshotOf, TypeOK
  <1>6. CASE \E w \in Waits, S \in SUBSET Runs, ms \in Durations \cup {0} : Wait(w, S, ms)
    BY <1>6 DEF Wait, runVars, SnapshotOf
  <1>7. CASE \E w \in Waits, r \in Runs : WaitTimerFires(w, r)
    BY <1>7 DEF WaitTimerFires, runVars, SnapshotOf
  <1>8. QED
    BY <1>1, <1>2, <1>3, <1>4, <1>5, <1>6, <1>7 DEF Next

(* The outcome of a run, once there, is never replaced.                     *)
THEOREM OutcomesAreFinal == Spec => OutcomeFinal
  <1>1. IInv /\ [Next]_vars =>
          [\A r \in Runs : status[r] \in Terminal => SnapshotOf(r)' = SnapshotOf(r)]_vars
    BY DecidedIsUntouched
  <1>2. QED
    BY <1>1, Invariance, PTL DEF Spec, OutcomeFinal
-----------------------------------------------------------------------------
(* Refinement: the steps of the lifecycle are steps of RunOutcome.           *)

(* The answers the contract sees are the statuses the wait calls were told. *)
LEMMA AnswerTriples ==
  \A w \in Waits, r \in Runs : \A o :
     <<w, r, o>> \in Answers <=> got[w][r].status = o /\ o # "none"
  <1> SUFFICES ASSUME NEW w \in Waits, NEW r \in Runs, NEW o
               PROVE  <<w, r, o>> \in Answers <=> got[w][r].status = o /\ o # "none"
    OBVIOUS
  <1>1. ASSUME <<w, r, o>> \in Answers PROVE got[w][r].status = o /\ o # "none"
    <2>1. PICK p \in Waits \X Runs : /\ Answered(p[1], p[2])
                                     /\ <<w, r, o>> = <<p[1], p[2], got[p[1]][p[2]].status>>
      BY <1>1 DEF Answers
    <2>2. p[1] = w /\ p[2] = r /\ o = got[p[1]][p[2]].status
      BY <2>1
    <2>3. QED
      BY <2>1, <2>2 DEF Answered
  <1>2. ASSUME got[w][r].status = o, o # "none" PROVE <<w, r, o>> \in Answers
    <2>1. <<w, r>> \in {q \in Waits \X Runs : Answered(q[1], q[2])}
      BY <1>2 DEF Answered
    <2>2. QED
      BY <1>2, <2>1 DEF Answers
  <1>3. QED
    BY <1>1, <1>2

(* A wait call answered in the contract is answered in the lifecycle.        *)
LEMMA AnsweredInContract ==
  ASSUME TypeOK, NEW w \in Waits, NEW r \in Runs
  PROVE  Contract!Answered(w, r) => Answered(w, r)
  BY AnswerTriples DEF Contract!Answered, Answered

(* When exactly the pairs in A are answered anew, with the status of their  *)
(* runs, the contract's answers grow by just these.                         *)
LEMMA AnswersGrow ==
  ASSUME NEW A \in SUBSET (Waits \X Runs),
         \A v \in Waits, q \in Runs :
            IF <<v, q>> \in A
            THEN ~Answered(v, q) /\ got'[v][q].status = status'[q] /\ status'[q] # "none"
            ELSE got'[v][q].status = got[v][q].status
  PROVE  Answers' = Answers \cup {<<p[1], p[2], status'[p[2]]>> : p \in A}
  <1>1. ASSUME NEW t \in Answers' PROVE t \in Answers \cup {<<p[1], p[2], status'[p[2]]>> : p \in A}
    <2>1. PICK v \in Waits, q \in Runs : t = <<v, q, got'[v][q].status>> /\ got'[v][q].status # "none"
      BY <1>1 DEF Answers, Answered
    <2>2. CASE <<v, q>> \in A
      BY <2>1, <2>2
    <2>3. CASE <<v, q>> \notin A
      BY <2>1, <2>3, AnswerTriples
    <2>4. QED
      BY <2>2, <2>3
  <1>2. ASSUME NEW t \in Answers PROVE t \in Answers'
    <2>1. PICK v \in Waits, q \in Runs : t = <<v, q, got[v][q].status>> /\ got[v][q].status # "none"
      BY <1>2 DEF Answers, Answered
    <2>2. <<v, q>> \notin A
      BY <2>1 DEF Answered
    <2>3. QED
      BY <2>1, <2>2 DEF Answers, Answered
  <1>3. ASSUME NEW p \in A PROVE <<p[1], p[2], status'[p[2]]>> \in Answers'
    <2>1. PICK v \in Waits, q \in Runs : p = <<v, q>>
      OBVIOUS
    <2>2. QED
      BY <2>1 DEF Answers, Answered
  <1>4. QED
    BY <1>1, <1>2, <1>3

(* No run and no answer: an initial state of the contract.                  *)
LEMMA InitRefines == Init => Contract!Init
  BY DEF Init, Contract!Init, Answers, Answered, NoAnswer

(* Every action is a step of the contract, or leaves it as it is.            *)
LEMMA StepRefines ==
  ASSUME IInv, IInv', Next
  PROVE  [Contract!Next]_Contract!vars
  <1>0. TypeOK /\ TypeOK' /\ Executors /\ WaitBooks /\ RunningIsTimed
    BY DEF IInv
  <1>a. ASSUME got' = got PROVE Answers' = Answers
    BY <1>a DEF Answers, Answered
  <1>1. ASSUME NEW r \in Runs, NEW explicit \in Durations \cup {0},
               NEW limit \in Limits \cup {0}, Spawn(r, explicit, limit)
        PROVE  Contract!Next
    <2>1. Contract!Start(r)
      BY <1>1, <1>a DEF Spawn, waitVars, Contract!Start
    <2>2. QED
      BY <2>1 DEF Contract!Next
  <1>2. ASSUME NEW r \in Runs, NEW how \in {"fulfilled", "rejected"}, ExecutorSettles(r, how)
        PROVE  UNCHANGED Contract!vars
    BY <1>2, <1>a DEF ExecutorSettles, waitVars, Contract!vars
  <1>3. ASSUME NEW r \in Runs, Continue(r)
        PROVE  Contract!Next
    <2> DEFINE W == {w \in Waits : r \in waitOn[w] /\ ~Answered(w, r)}
               A == {<<w, r>> : w \in W}
    <2>1. status'[r] \in Terminal /\ \A w \in W : got'[w][r].status = status'[r]
      BY <1>0, <1>3 DEF Continue, ContinuationWins, SnapshotOf, AnswerWaiters, Executors,
                        TypeOK, Terminal, Status
    <2>2. \A v \in Waits, q \in Runs : <<v, q>> \notin A => got'[v][q] = got[v][q]
      BY <1>0, <1>3 DEF Continue, AnswerWaiters, TypeOK
    <2>3. Answers' = Answers \cup {<<p[1], p[2], status'[p[2]]>> : p \in A}
      <3>1. A \in SUBSET (Waits \X Runs)
        OBVIOUS
      <3>2. \A v \in Waits, q \in Runs :
               IF <<v, q>> \in A
               THEN ~Answered(v, q) /\ got'[v][q].status = status'[q] /\ status'[q] # "none"
               ELSE got'[v][q].status = got[v][q].status
        BY <2>1, <2>2 DEF Terminal
      <3>3. QED
        BY <3>1, <3>2, AnswersGrow
    <2>4. {<<p[1], p[2], status'[p[2]]>> : p \in A} = {<<w, r, status'[r]>> : w \in W}
      <3>1. \A p \in A : p[1] \in W /\ p[2] = r
        OBVIOUS
      <3>2. \A w \in W : <<w, r>> \in A /\ <<w, r>>[1] = w /\ <<w, r>>[2] = r
        OBVIOUS
      <3>3. QED
        BY <3>1, <3>2
    <2>5. CASE status[r] = "running"
      <3>1. Contract!Finish(r, status'[r], W)
        <4>1. \A w \in W : ~Contract!Answered(w, r)
          BY <1>0, AnsweredInContract
        <4>2. status' = [status EXCEPT ![r] = status'[r]]
          BY <1>0, <1>3 DEF Continue, TypeOK
        <4>3. QED
          BY <2>3, <2>4, <2>5, <4>1, <4>2 DEF Contract!Finish
      <3>2. QED
        BY <2>1, <3>1 DEF Contract!Next, Contract!Terminal, Terminal
    <2>6. CASE status[r] # "running"
      <3>1. status' = status
        BY <1>0, <1>3, <2>6 DEF Continue, ContinuationWins, SnapshotOf, TypeOK
      <3>2. Contract!Answer(A)
        <4>1. \A p \in A : status[p[2]] # "none" /\ ~Contract!Answered(p[1], p[2])
          BY <1>0, <2>1, <3>1, AnsweredInContract DEF Terminal
        <4>2. QED
          BY <2>3, <3>1, <4>1 DEF Contract!Answer
      <3>3. QED
        BY <3>2 DEF Contract!Next
    <2>7. QED
      BY <2>5, <2>6
  <1>4. ASSUME NEW r \in Runs, RunTimerFires(r)
        PROVE  Contract!Next
    <2>1. status[r] = "running"
      BY <1>0, <1>4 DEF RunTimerFires, RunningIsTimed
    <2>2. Contract!Finish(r, "timeout", {})
      BY <1>4, <1>a, <2>1 DEF RunTimerFires, Expire, waitVars, Contract!Finish
    <2>3. QED
      BY <2>2 DEF Contract!Next, Contract!Terminal
  <1>5. ASSUME NEW r \in Runs, Cancel(r)
        PROVE  Contract!Next
    <2>1. Contract!Finish(r, "cancelled", {})
      BY <1>5, <1>a DEF Cancel, Cancellable, waitVars, Contract!Finish
    <2>2. QED
      BY <2>1 DEF Contract!Next, Contract!Terminal
  <1>6. ASSUME NEW w \in Waits, NEW S \in SUBSET Runs, NEW ms \in Durations \cup {0},
               Wait(w, S, ms)
        PROVE  Contract!Next
    <2> DEFINE A == {<<w, q>> : q \in {x \in S : Settled(x)}}
    <2>1. A \in SUBSET (Waits \X Runs)
      OBVIOUS
    <2>2. \A q \in Runs : ~Answered(w, q) /\ (Settled(q) => status[q] # "none")
      BY <1>0, <1>6 DEF Wait, WaitBooks, Settled, Executors, Terminal
    <2>3. \A v \in Waits, q \in Runs :
             IF <<v, q>> \in A
             THEN ~Answered(v, q) /\ got'[v][q].status = status'[q] /\ status'[q] # "none"
             ELSE got'[v][q].status = got[v][q].status
      <3> TAKE v \in Waits, q \in Runs
      <3>1. v # w => got'[v] = got[v] /\ <<v, q>> \notin A
        BY <1>0, <1>6 DEF Wait, TypeOK
      <3>2. got'[w][q] = IF q \in S /\ Settled(q) THEN SnapshotOf(q) ELSE got[w][q]
        BY <1>0, <1>6 DEF Wait, TypeOK
      <3>3. status' = status
        BY <1>6 DEF Wait, runVars
      <3>4. QED
        BY <2>2, <3>1, <3>2, <3>3 DEF SnapshotOf
    <2>4. status' = status /\ Answers' = Answers \cup {<<p[1], p[2], status[p[2]]>> : p \in A}
      BY <1>6, <2>1, <2>3, AnswersGrow DEF Wait, runVars
    <2>5. \A p \in A : status[p[2]] # "none" /\ ~Contract!Answered(p[1], p[2])
      BY <1>0, <2>2, AnsweredInContract
    <2>6. Contract!Answer(A)
      BY <2>4, <2>5 DEF Contract!Answer
    <2>7. QED
      BY <2>1, <2>6 DEF Contract!Next
  <1>7. ASSUME NEW w \in Waits, NEW r \in Runs, WaitTimerFires(w, r)
        PROVE  Contract!Next \/ UNCHANGED Contract!vars
    <2>1. status' = status
      BY <1>7 DEF WaitTimerFires, runVars
    <2>2. CASE Answered(w, r)
      BY <1>7, <1>a, <2>1, <2>2 DEF WaitTimerFires, Contract!vars
    <2>3. CASE ~Answered(w, r)
      <3>1. status[r] # "none"
        BY <1>0, <1>7 DEF WaitTimerFires, WaitBooks
      <3>2. \A v \in Waits, q \in Runs :
               IF <<v, q>> \in {<<w, r>>}
               THEN ~Answered(v, q) /\ got'[v][q].status = status'[q] /\ status'[q] # "none"
               ELSE got'[v][q].status = got[v][q].status
        BY <1>0, <1>7, <2>1, <2>3, <3>1
           DEF WaitTimerFires, WaitTimeoutSnapshot, SnapshotOf, TypeOK
      <3>3. Answers' = Answers \cup {<<p[1], p[2], status[p[2]]>> : p \in {<<w, r>>}}
        <4>1. {<<w, r>>} \in SUBSET (Waits \X Runs)
          OBVIOUS
        <4>2. Answers' = Answers \cup {<<p[1], p[2], status'[p[2]]>> : p \in {<<w, r>>}}
          BY <3>2, <4>1, AnswersGrow
        <4>3. QED
          BY <2>1, <4>2
      <3>4. Contract!Answer({<<w, r>>})
        BY <1>0, <2>1, <2>3, <3>1, <3>3, AnsweredInContract DEF Contract!Answer
      <3>5. QED
        BY <3>4 DEF Contract!Next
    <2>4. QED
      BY <2>2, <2>3
  <1>8. QED
    BY <1>1, <1>2, <1>3, <1>4, <1>5, <1>6, <1>7 DEF Next

(* Up to liveness, the lifecycle implements the run-outcome contract.       *)
THEOREM Refinement == Spec => Contract!Init /\ [][Contract!Next]_Contract!vars
  <1>1. IInv /\ IInv' /\ [Next]_vars => [Contract!Next]_Contract!vars
    <2>1. UNCHANGED vars => UNCHANGED Contract!vars
      BY DEF vars, Contract!vars, Answers, Answered
    <2>2. QED
      BY <2>1, StepRefines
  <1>2. QED
    BY <1>1, InitRefines, Invariance, PTL DEF Spec
=============================================================================
