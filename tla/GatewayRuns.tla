----------------------------- MODULE GatewayRuns -----------------------------
(***************************************************************************)
(* openclaw/src/gateway: what the gateway knows of a run it has accepted.  *)
(* The run is a command (agentCommandFromIngress) whose attempts report    *)
(* their start and their end as lifecycle events; agent-job.ts keeps the   *)
(* last end for ten minutes, an error only after 15 seconds without a new  *)
(* attempt.  What the command itself came to is kept by agent.ts among the *)
(* answers to repeated requests, for five minutes.                         *)
(*                                                                         *)
(* Time is left out: a grace may pass and an entry be dropped at any       *)
(* moment, but no result is dropped while a grace still runs.              *)
(***************************************************************************)
EXTENDS Naturals

CONSTANTS Runs   \* run identifiers the gateway hands out

VARIABLES
    phase,    \* per run: "none", "running", "ended" (an attempt), "settled" (the command)
    overdue,  \* per run: its runTimeout has passed
    cache,    \* per run: agentRunCache, or "erring" for pendingAgentRunErrors
    dedupe,   \* per run: the terminal entry of context.dedupe
    verdicts  \* per run: every outcome either of them has held

gateway == <<phase, overdue, cache, dedupe, verdicts>>

GatewayTypeOK ==
    /\ phase \in [Runs -> {"none", "running", "ended", "settled"}]
    /\ overdue \in [Runs -> BOOLEAN]
    /\ cache \in [Runs -> {"none", "erring", "ok", "error", "timeout"}]
    /\ dedupe \in [Runs -> {"none", "ok", "error"}]
    /\ verdicts \in [Runs -> SUBSET {"ok", "error", "timeout"}]

GatewayInit ==
    /\ phase = [r \in Runs |-> "none"]
    /\ overdue = [r \in Runs |-> FALSE]
    /\ cache = [r \in Runs |-> "none"]
    /\ dedupe = [r \in Runs |-> "none"]
    /\ verdicts = [r \in Runs |-> {}]

(* What agent.wait finds when it comes: the command's result first, then   *)
(* the last event; "none" and "erring" make it wait.                       *)
Verdict(r) == IF dedupe[r] # "none" THEN dedupe[r] ELSE cache[r]
Certain(r) == Verdict(r) \in {"ok", "error"}

Notes(r, v) == verdicts' = [verdicts EXCEPT ![r] = @ \cup {v}]

(* The request "agent" is accepted, and its command dispatched.            *)
Accepts(r) ==
    /\ phase[r] = "none"
    /\ phase' = [phase EXCEPT ![r] = "running"]
    /\ UNCHANGED <<overdue, cache, dedupe, verdicts>>

(* The timer of the run aborts its attempt.                                *)
TimesOut(r) ==
    /\ phase[r] = "running" /\ ~overdue[r]
    /\ overdue' = [overdue EXCEPT ![r] = TRUE]
    /\ UNCHANGED <<phase, cache, dedupe, verdicts>>

(* An attempt ends without an error.  One that was aborted says so in an   *)
(* event of its own, or ends like any other.                               *)
Ends(r, how) ==
    /\ phase[r] = "running"
    /\ how = "timeout" => overdue[r]
    /\ phase' = [phase EXCEPT ![r] = "ended"]
    /\ cache' = [cache EXCEPT ![r] = how]
    /\ Notes(r, how)
    /\ UNCHANGED <<overdue, dedupe>>

(* An attempt fails: the error waits for its grace.                        *)
Errs(r) ==
    /\ phase[r] = "running"
    /\ phase' = [phase EXCEPT ![r] = "ended"]
    /\ cache' = [cache EXCEPT ![r] = "erring"]
    /\ UNCHANGED <<overdue, dedupe, verdicts>>

(* The command starts another attempt, with another model or after a       *)
(* compaction: what was kept of the last one is dropped.                   *)
Retries(r) ==
    /\ phase[r] = "ended"
    /\ phase' = [phase EXCEPT ![r] = "running"]
    /\ cache' = [cache EXCEPT ![r] = "none"]
    /\ UNCHANGED <<overdue, dedupe, verdicts>>

(* The grace has passed.                                                   *)
GraceEnds(r) ==
    /\ cache[r] = "erring"
    /\ cache' = [cache EXCEPT ![r] = "error"]
    /\ Notes(r, "error")
    /\ UNCHANGED <<phase, overdue, dedupe>>

(* The command returns, also when its last attempt failed or was aborted   *)
(* but left something to reply; or it throws, possibly before an attempt.  *)
Settles(r, how) ==
    /\ phase[r] = "ended" \/ (phase[r] = "running" /\ how = "error")
    /\ phase' = [phase EXCEPT ![r] = "settled"]
    /\ dedupe' = [dedupe EXCEPT ![r] = how]
    /\ Notes(r, how)
    /\ UNCHANGED <<overdue, cache>>

(* The maintenance timer drops the result, after five minutes.             *)
DropsResult(r) ==
    /\ dedupe[r] # "none" /\ cache[r] # "erring"
    /\ dedupe' = [dedupe EXCEPT ![r] = "none"]
    /\ UNCHANGED <<phase, overdue, cache, verdicts>>

(* pruneAgentRunCache drops the last event, after ten.                     *)
PrunesRun(r) ==
    /\ cache[r] \in {"ok", "error", "timeout"}
    /\ cache' = [cache EXCEPT ![r] = "none"]
    /\ UNCHANGED <<phase, overdue, dedupe, verdicts>>
=============================================================================
