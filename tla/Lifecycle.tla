------------------------------ MODULE Lifecycle ------------------------------
(***************************************************************************)
(* packages/core/orchestrator/lifecycle.mjs: sub-agent runs in the mock    *)
(* mode of the orchestrator.  spawnAgent starts an executor and arms a     *)
(* timeout; the executor's settlement, the timeout and cancelAgent race to *)
(* decide the run; waitForAgent and waitForAll race the run's promise      *)
(* against a timer of their own.                                           *)
(*                                                                         *)
(* One action is one uninterrupted stretch of JavaScript.  A promise that  *)
(* settles runs its continuation as a microtask, so no timer fires between *)
(* the settlement of an executor and the continuation of its run, but any  *)
(* other microtask (a caller that spawns, waits or cancels) may.           *)
(***************************************************************************)
EXTENDS Naturals

CONSTANTS Runs,            \* run identifiers (crypto.randomUUID())
          Waits,           \* calls of waitForAgent / waitForAll
          Durations,       \* the positive timeouts in use, in ms
          Limits,          \* the limits.timeout_seconds of agents, in s
          DefaultTimeout   \* 60_000 in the code

ASSUME DurationAssumption == /\ Durations \subseteq Nat \ {0}
                             /\ Limits \subseteq Nat \ {0}
                             /\ \A l \in Limits : l * 1000 \in Durations
                             /\ DefaultTimeout \in Durations

VARIABLES
    status,      \* run.status, "none" before the run is spawned
    output,      \* run.output: "null", or the "text" of the executor
    error,       \* run.error, by its cause ("none" is null)
    timeoutMs,   \* run.timeoutMs
    executor,    \* the promise of the executor: "idle", "pending",
                 \* "fulfilled" or "rejected" (continuation queued), "done"
    runTimers,   \* the runs whose run.timer is armed
    waitOn,      \* the known runs a wait call was given, {} before the call
    waitMs,      \* its timeoutMs argument, 0 for none
    waitTimers,  \* its armed timers, one per run: pairs <<call, run>>
    got,         \* per call and run: what the call's promise resolved to
    rejected,    \* the wait calls that threw "unknown runId"
    cancelAcks   \* the runs for which cancelAgent answered cancelled: true

runVars  == <<status, output, error, timeoutMs, executor, runTimers>>
waitVars == <<waitOn, waitMs, waitTimers, got, rejected>>
vars == <<status, output, error, timeoutMs, executor, runTimers,
          waitOn, waitMs, waitTimers, got, rejected, cancelAcks>>

Terminal == {"completed", "failed", "timeout", "cancelled"}
Status   == Terminal \cup {"none", "running"}
Output   == {"null", "text"}
Error    == {"none", "executor-error", "timeout", "cancelled", "wait-timeout"}
Snapshot == [status : Status, output : Output, error : Error]

(* No answer yet: the status is that of no run.                            *)
NoAnswer == [status |-> "none", output |-> "null", error |-> "none"]
Answered(w, r) == got[w][r].status # "none"

Known == {r \in Runs : status[r] # "none"}
Settled(r) == executor[r] = "done"   \* run.promise has its value

TypeOK ==
    /\ status \in [Runs -> Status]
    /\ output \in [Runs -> Output]
    /\ error \in [Runs -> Error]
    /\ timeoutMs \in [Runs -> Durations \cup {0}]
    /\ executor \in [Runs -> {"idle", "pending", "fulfilled", "rejected", "done"}]
    /\ runTimers \in SUBSET Runs
    /\ waitOn \in [Waits -> SUBSET Runs]
    /\ waitMs \in [Waits -> Durations \cup {0}]
    /\ waitTimers \in SUBSET (Waits \X Runs)
    /\ got \in [Waits -> [Runs -> Snapshot]]
    /\ rejected \in SUBSET Waits
    /\ cancelAcks \in SUBSET Runs

Init ==
    /\ status = [r \in Runs |-> "none"]
    /\ output = [r \in Runs |-> "null"]
    /\ error = [r \in Runs |-> "none"]
    /\ timeoutMs = [r \in Runs |-> 0]
    /\ executor = [r \in Runs |-> "idle"]
    /\ runTimers = {}
    /\ waitOn = [w \in Waits |-> {}]
    /\ waitMs = [w \in Waits |-> 0]
    /\ waitTimers = {}
    /\ got = [w \in Waits |-> [r \in Runs |-> NoAnswer]]
    /\ rejected = {}
    /\ cancelAcks = {}
-----------------------------------------------------------------------------
(* Small decisions of the code below, each beside the slip that the        *)
(* mutation checks put in its place.                                       *)

(* The timeout of a run: the caller's, in milliseconds, else the one of    *)
(* the agent's definition, in seconds, else the default.  0 stands for a   *)
(* missing or unusable one.                                                *)
EffectiveTimeout(explicit, limit) ==
    IF explicit > 0 THEN explicit
    ELSE IF limit > 0 THEN limit * 1000 ELSE DefaultTimeout

(* The executor's settlement decides a run only if nothing else has; the   *)
(* slip drops the test.                                                    *)
AlwaysWins(r) == TRUE
ContinuationWins(r) == status[r] = "running"

(* cancelAgent turns down a run that is not running.                       *)
Cancellable(r) == status[r] = "running"

(* clearTimeout when the run is decided; the slip forgets it.              *)
KeepTimer(r) == runTimers
ClearTimer(r) == runTimers \ {r}

(* What the timeout writes into a run that is still running; the slip      *)
(* notes the error and leaves the status.                                  *)
ExpireErrorOnly(r) ==
    IF status[r] = "running"
    THEN error' = [error EXCEPT ![r] = "timeout"] /\ UNCHANGED status
    ELSE UNCHANGED <<status, error>>
Expire(r) ==
    IF status[r] = "running"
    THEN /\ status' = [status EXCEPT ![r] = "timeout"]
         /\ error' = [error EXCEPT ![r] = "timeout"]
    ELSE UNCHANGED <<status, error>>

(* The object the run's promise and getStatus build from the run.          *)
SnapshotOf(r) == [status |-> status[r], output |-> output[r], error |-> error[r]]

(* spawnAgent: the timer is armed and the executor called before the run   *)
(* enters the map, all in one synchronous stretch.                         *)
Spawn(r, explicit, limit) ==
    /\ status[r] = "none"
    /\ status' = [status EXCEPT ![r] = "running"]
    /\ timeoutMs' = [timeoutMs EXCEPT ![r] = EffectiveTimeout(explicit, limit)]
    /\ runTimers' = runTimers \cup {r}
    /\ executor' = [executor EXCEPT ![r] = "pending"]
    /\ UNCHANGED <<output, error, waitVars, cancelAcks>>

(* The executor returns or throws, in its own time or never: neither the   *)
(* timeout nor a cancellation reaches it.                                  *)
ExecutorSettles(r, how) ==
    /\ executor[r] = "pending"
    /\ executor' = [executor EXCEPT ![r] = how]
    /\ UNCHANGED <<status, output, error, timeoutMs, runTimers, waitVars, cancelAcks>>

(* The wait calls on r that are still unanswered receive snapshot s.       *)
AnswerWaiters(r, s) ==
    got' = [w \in Waits |->
              IF r \in waitOn[w] /\ ~Answered(w, r)
              THEN [got[w] EXCEPT ![r] = s] ELSE got[w]]

(* The continuation of `await executor(..)`: it decides a run that nothing *)
(* else decided, clears the timer in any case, and resolves run.promise.   *)
Continue(r) ==
    /\ executor[r] \in {"fulfilled", "rejected"}
    /\ LET s == IF ~ContinuationWins(r) THEN SnapshotOf(r)
                ELSE IF executor[r] = "fulfilled"
                THEN [status |-> "completed", output |-> "text", error |-> error[r]]
                ELSE [status |-> "failed", output |-> output[r], error |-> "executor-error"]
       IN /\ status' = [status EXCEPT ![r] = s.status]
          /\ output' = [output EXCEPT ![r] = s.output]
          /\ error' = [error EXCEPT ![r] = s.error]
          /\ AnswerWaiters(r, s)
    /\ runTimers' = ClearTimer(r)
    /\ executor' = [executor EXCEPT ![r] = "done"]
    /\ UNCHANGED <<timeoutMs, waitOn, waitMs, waitTimers, rejected, cancelAcks>>

(* Timers fire only once the microtask queue is empty.                     *)
MicrotasksPending == \E r \in Runs : executor[r] \in {"fulfilled", "rejected"}

(* The callback of run.timer.                                              *)
RunTimerFires(r) ==
    /\ r \in runTimers
    /\ ~MicrotasksPending
    /\ runTimers' = runTimers \ {r}
    /\ Expire(r)
    /\ UNCHANGED <<output, timeoutMs, executor, waitVars, cancelAcks>>

(* cancelAgent on a running run; on an unknown or a decided one it only    *)
(* answers cancelled: false.                                               *)
Cancel(r) ==
    /\ Cancellable(r)
    /\ status' = [status EXCEPT ![r] = "cancelled"]
    /\ error' = [error EXCEPT ![r] = "cancelled"]
    /\ runTimers' = ClearTimer(r)
    /\ cancelAcks' = cancelAcks \cup {r}
    /\ UNCHANGED <<output, timeoutMs, executor, waitVars>>

(* The timers a wait call arms, one per known run and none without a       *)
(* timeout; the slip takes a decided run to need none.                     *)
TimersForRunning(w, S, ms) ==
    IF ms = 0 THEN {} ELSE {<<w, r>> : r \in {q \in S : status[q] = "running"}}
TimersFor(w, S, ms) ==
    IF ms = 0 THEN {} ELSE {<<w, r>> : r \in S \cap Known}

(* waitForAll on the set S of runs; waitForAgent when S is a singleton.    *)
(* An unknown run makes the call reject; the waits on the known ones go on *)
(* unheard.  A run whose promise is already resolved answers at once.      *)
Wait(w, S, ms) ==
    /\ waitOn[w] = {} /\ w \notin rejected
    /\ S # {}
    /\ waitOn' = [waitOn EXCEPT ![w] = S \cap Known]
    /\ waitMs' = [waitMs EXCEPT ![w] = ms]
    /\ waitTimers' = waitTimers \cup TimersFor(w, S, ms)
    /\ rejected' = IF S \subseteq Known THEN rejected ELSE rejected \cup {w}
    /\ got' = [got EXCEPT ![w] =
                 [r \in Runs |-> IF r \in S /\ Settled(r) THEN SnapshotOf(r) ELSE @[r]]]
    /\ UNCHANGED <<runVars, cancelAcks>>

(* What a wait timer resolves its promise to: the run as it is, under the  *)
(* run's own error if it has one; the slip always reports the wait's.      *)
BlameTheWait(r) == [SnapshotOf(r) EXCEPT !.error = "wait-timeout"]
WaitTimeoutSnapshot(r) ==
    [SnapshotOf(r) EXCEPT !.error = IF @ = "none" THEN "wait-timeout" ELSE @]

(* The timer of a wait call.  Node fires timers of one duration in the     *)
(* order they were set, and a run's own timer is set before any wait on    *)
(* it: with equal durations the run's timer goes first.  The timer of an   *)
(* answered wait is never cleared and fires without effect.                *)
WaitTimerFires(w, r) ==
    /\ <<w, r>> \in waitTimers
    /\ ~MicrotasksPending
    /\ r \in runTimers => timeoutMs[r] # waitMs[w]
    /\ waitTimers' = waitTimers \ {<<w, r>>}
    /\ got' = IF Answered(w, r) THEN got
              ELSE [got EXCEPT ![w][r] = WaitTimeoutSnapshot(r)]
    /\ UNCHANGED <<runVars, waitOn, waitMs, rejected, cancelAcks>>

Next ==
    \/ \E r \in Runs, explicit \in Durations \cup {0}, limit \in Limits \cup {0} :
          Spawn(r, explicit, limit)
    \/ \E r \in Runs, how \in {"fulfilled", "rejected"} : ExecutorSettles(r, how)
    \/ \E r \in Runs : Continue(r)
    \/ \E r \in Runs : RunTimerFires(r)
    \/ \E r \in Runs : Cancel(r)
    \/ \E w \in Waits, S \in SUBSET Runs, ms \in Durations \cup {0} : Wait(w, S, ms)
    \/ \E w \in Waits, r \in Runs : WaitTimerFires(w, r)

(* The event loop runs queued continuations and due timers.  Nothing makes *)
(* an executor settle, or a caller call.                                   *)
Fairness == /\ \A r \in Runs : WF_vars(Continue(r)) /\ WF_vars(RunTimerFires(r))
            /\ \A w \in Waits, r \in Runs : WF_vars(WaitTimerFires(w, r))

Spec == Init /\ [][Next]_vars /\ Fairness
-----------------------------------------------------------------------------
(* A decided run is never decided again: whichever of the executor, the    *)
(* timeout and cancelAgent comes second changes neither the status, nor    *)
(* the output, nor the error a caller may already have read.               *)
OutcomeFinal ==
    [][\A r \in Runs : status[r] \in Terminal => SnapshotOf(r)' = SnapshotOf(r)]_vars

(* When cancelAgent has answered cancelled: true, the run is cancelled for *)
(* good and carries no output, however late the executor delivers one.     *)
CancelHonoured ==
    \A r \in cancelAcks :
        SnapshotOf(r) = [status |-> "cancelled", output |-> "null", error |-> "cancelled"]

(* All the callers that were told an outcome were told the same one, and   *)
(* it is the one getStatus reports: the promise of the run, the timers of  *)
(* the waits and the run's record agree, in whatever order they resolve.   *)
AnswersAgree ==
    \A w \in Waits, r \in Runs : got[w][r].status \in Terminal => got[w][r] = SnapshotOf(r)

(* A run that counts as running still has the timer that will end it, and  *)
(* a decided run holds no timer: the clearing in `finally` and in          *)
(* cancelAgent never disarms the only thing that ends a stuck run.         *)
RunningIsTimed == \A r \in Runs : status[r] = "running" <=> r \in runTimers

(* A wait given the very timeout of its run (savc_spawn_expert passes one  *)
(* timeoutMs to both) is never told that the run is still running.         *)
EqualTimeoutsDecide ==
    \A w \in Waits, r \in Runs :
        got[w][r].status = "running" => waitMs[w] \notin {0, timeoutMs[r]}

(* Every run ends, even when its executor never settles.                   *)
EveryRunEnds == \A r \in Runs : status[r] = "running" ~> status[r] \in Terminal

(* A wait with a timeout is answered for every run it was given.           *)
BoundedWaitReturns ==
    \A w \in Waits, r \in Runs :
        (waitMs[w] # 0 /\ r \in waitOn[w]) ~> Answered(w, r)

(* The answers handed out so far, as the contract sees them.               *)
Answers == {<<p[1], p[2], got[p[1]][p[2]].status>> :
              p \in {q \in Waits \X Runs : Answered(q[1], q[2])}}

(* The lifecycle implements the run-outcome contract: one outcome per run, *)
(* truthful answers, and every started run finished.                       *)
Contract == INSTANCE RunOutcome WITH outcome <- status, answers <- Answers
ImplementsContract == Contract!Spec
=============================================================================
