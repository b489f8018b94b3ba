------------------------------ MODULE RealRuns ------------------------------
(***************************************************************************)
(* packages/plugin/src: expert runs in the plugin's real mode.  The tool   *)
(* savc_spawn_expert has the OpenClaw gateway start a run in a child       *)
(* session, may hand it a message, and may wait for it; savc_agent_status  *)
(* asks the gateway about it.  Both keep what they learn in run-store.ts,  *)
(* whose records any call may patch whenever its await returns.            *)
(*                                                                         *)
(* What the gateway knows of a run is GatewayRuns; here it answers the     *)
(* calls.  The plugin runs in its process, so neither outlives the other.  *)
(***************************************************************************)
EXTENDS GatewayRuns, FiniteSets

CONSTANTS Calls   \* calls of the two tools

ASSUME RunAssumption == "none" \notin Runs

VARIABLES
    record,   \* the run store: status and output per run
    op, run,  \* per call: which tool, how it was called, for which run
    pc,       \* per call: the await it has reached
    known,    \* per status call: the record it found at first
    heard,    \* per call: what agent.wait answered
    answer,   \* per call: the result of the tool
    held,     \* per status call: the gateway has been Certain since it began
    late      \* per status call: it began when its run, overdue, was settled

asked == <<op, run, known, late>>
vars  == <<gateway, record, op, run, pc, known, heard, answer, held, late>>

Terminal == {"completed", "failed", "timeout"}
Record   == [status : Terminal \cup {"none", "running"}, output : {"null", "text"}]
Entry(s, out) == [status |-> s, output |-> out]

(* Results that are no record: NotFound is an answer, Failure an error.    *)
Nothing  == Entry("none", "null")
NotFound == Entry("not_found", "null")
Failure  == Entry("failure", "null")

TypeOK ==
    /\ GatewayTypeOK
    /\ record \in [Runs -> Record]
    /\ op \in [Calls -> {"none", "spawn", "spawnAndWait", "status"}]
    /\ run \in [Calls -> Runs \cup {"none"}]
    /\ pc \in [Calls -> {"idle", "sending", "asking", "waiting", "heard", "reading", "done"}]
    /\ known \in [Calls -> Record]
    /\ heard \in [Calls -> {"none", "ok", "error", "timeout", "lost"}]
    /\ answer \in [Calls -> Record \cup {NotFound, Failure}]
    /\ held \in [Calls -> BOOLEAN] /\ late \in [Calls -> BOOLEAN]

Init ==
    /\ GatewayInit
    /\ record = [r \in Runs |-> Nothing]
    /\ op = [c \in Calls |-> "none"] /\ run = [c \in Calls |-> "none"]
    /\ pc = [c \in Calls |-> "idle"]
    /\ known = [c \in Calls |-> Nothing]
    /\ heard = [c \in Calls |-> "none"]
    /\ answer = [c \in Calls |-> Nothing]
    /\ held = [c \in Calls |-> FALSE] /\ late = [c \in Calls |-> FALSE]
-----------------------------------------------------------------------------
Goes(c, p) == pc' = [pc EXCEPT ![c] = p] /\ UNCHANGED answer
Returns(c, a) == pc' = [pc EXCEPT ![c] = "done"] /\ answer' = [answer EXCEPT ![c] = a]

(* What spawnRealAgent and the handoff are followed by: the wait, or the   *)
(* answer that the run is running.                                         *)
GoesOn(c, o) == \/ o = "spawnAndWait" /\ Goes(c, "asking")
                \/ o = "spawn" /\ Returns(c, Entry("running", "null"))

(* savc_spawn_expert: the gateway accepts the run and its record is made;  *)
(* with useSessionsSend the child session is sent a message next.          *)
Spawn(c, r, o, useSessionsSend) ==
    /\ pc[c] = "idle" /\ Accepts(r)
    /\ record' = [record EXCEPT ![r] = Entry("running", "null")]
    /\ op' = [op EXCEPT ![c] = o] /\ run' = [run EXCEPT ![c] = r]
    /\ IF useSessionsSend THEN Goes(c, "sending") ELSE GoesOn(c, o)
    /\ UNCHANGED <<known, heard, held, late>>

(* An unknown agent, no session, or a gateway that does not accept.        *)
SpawnRefused(c, o) ==
    /\ pc[c] = "idle"
    /\ op' = [op EXCEPT ![c] = o]
    /\ Returns(c, Failure)
    /\ UNCHANGED <<gateway, record, run, known, heard, held, late>>

(* sendRealAgentMessage: an error it returns is only reported, one it      *)
(* throws (no sessions_send tool) ends the call.                           *)
Handoff(c) ==
    /\ pc[c] = "sending"
    /\ GoesOn(c, op[c]) \/ Returns(c, Failure)
    /\ UNCHANGED <<gateway, record, asked, heard, held>>

(* savc_agent_status: an unknown or finished run is answered from the      *)
(* store, for any other the gateway is asked.                              *)
Status(c, r) ==
    /\ pc[c] = "idle"
    /\ op' = [op EXCEPT ![c] = "status"] /\ run' = [run EXCEPT ![c] = r]
    /\ known' = [known EXCEPT ![c] = record[r]]
    /\ held' = [held EXCEPT ![c] = Certain(r)]
    /\ late' = [late EXCEPT ![c] = overdue[r] /\ phase[r] = "settled"]
    /\ \/ record[r] = Nothing /\ Returns(c, NotFound)
       \/ record[r].status \in Terminal /\ Returns(c, record[r])
       \/ record[r].status = "running" /\ Goes(c, "asking")
    /\ UNCHANGED <<gateway, record, heard>>

(* A listener of the gateway answers the requests that wait for run r.     *)
Tells(r, what) ==
    LET told == {c \in Calls : pc[c] = "waiting" /\ run[c] = r}
    IN /\ heard' = [c \in Calls |-> IF c \in told THEN what ELSE heard[c]]
       /\ pc' = [c \in Calls |-> IF c \in told THEN "heard" ELSE pc[c]]

(* What happens to a run in the gateway, and who hears of it.              *)
RunGoesOn(r) ==
    /\ \/ \/ TimesOut(r) \/ Errs(r) \/ Retries(r) \/ DropsResult(r) \/ PrunesRun(r)
          /\ UNCHANGED <<pc, heard>>
       \/ \E how \in {"ok", "timeout"} : Ends(r, how) /\ Tells(r, how)
       \/ GraceEnds(r) /\ Tells(r, "error")
       \/ \E how \in {"ok", "error"} : Settles(r, how) /\ Tells(r, how)
    /\ held' = [c \in Calls |-> held[c] /\ (run[c] = r => Certain(r)')]
    /\ UNCHANGED <<record, asked, answer>>

Hears(c, what) == heard' = [heard EXCEPT ![c] = what] /\ Goes(c, "heard")

(* The request agent.wait has come: the gateway answers with what it       *)
(* knows, or lets it wait.                                                 *)
AgentWait(c) ==
    /\ pc[c] = "asking"
    /\ \/ Verdict(run[c]) \in {"ok", "error", "timeout"} /\ Hears(c, Verdict(run[c]))
       \/ Verdict(run[c]) \in {"none", "erring"} /\ Goes(c, "waiting") /\ UNCHANGED heard
    /\ UNCHANGED <<gateway, record, asked, held>>

(* The wait expires before the gateway has anything to tell, ...           *)
WaitExpires(c) ==
    /\ pc[c] = "waiting" /\ Hears(c, "timeout")
    /\ UNCHANGED <<gateway, record, asked, held>>

(* ... or the request or its answer is lost, and its own timeout passes.   *)
RequestLost(c) ==
    /\ pc[c] \in {"asking", "waiting"} /\ Hears(c, "lost")
    /\ UNCHANGED <<gateway, record, asked, held>>

(* mapWaitStatus; a status call treats a timeout as running.  The slips:   *)
(* it does not; errors are not recognised; a timeout counts as a failure.  *)
MapTimeoutAlike(c) ==
    IF heard[c] = "ok" THEN "completed"
    ELSE IF heard[c] = "error" THEN "failed"
    ELSE IF heard[c] = "timeout" THEN "timeout" ELSE "running"
MapOkOnly(c) == IF heard[c] = "ok" THEN "completed" ELSE "running"
MapNotOkFailed(c) == IF heard[c] = "ok" THEN "completed" ELSE "failed"
MapWaitStatus(c) ==
    IF heard[c] = "ok" THEN "completed"
    ELSE IF heard[c] = "error" THEN "failed"
    ELSE IF heard[c] = "timeout" /\ op[c] # "status" THEN "timeout" ELSE "running"

(* patchRunRecord has no regard for the record's present status; what it   *)
(* returns is the tool's result.                                           *)
Patches(c, e) == record' = [record EXCEPT ![run[c]] = e] /\ Returns(c, e)

(* A rejected agent.wait ends the call; the slip asks again.               *)
AsksAgain(c) == Goes(c, "asking")
Rejects(c) == Returns(c, Failure)

(* The call resumes after agent.wait.  For a completed run it reads the    *)
(* child session first; a status call that heard nothing new answers with  *)
(* the record it found at first.                                           *)
ResumeWait(c) ==
    /\ pc[c] = "heard"
    /\ \/ heard[c] = "lost" /\ Rejects(c) /\ UNCHANGED record
       \/ heard[c] # "lost" /\ MapWaitStatus(c) = "running"
            /\ Returns(c, known[c]) /\ UNCHANGED record
       \/ heard[c] # "lost" /\ MapWaitStatus(c) = "completed"
            /\ Goes(c, "reading") /\ UNCHANGED record
       \/ heard[c] # "lost" /\ MapWaitStatus(c) \in {"failed", "timeout"}
            /\ Patches(c, Entry(MapWaitStatus(c), "null"))
    /\ UNCHANGED <<gateway, asked, heard, held>>

(* readLatestAssistantReply returned; without a text, or when it threw,    *)
(* the output is the one known at first.                                   *)
KnownOutput(c) == known[c].output
ReadReply(c, text) ==
    /\ pc[c] = "reading"
    /\ Patches(c, Entry("completed", IF text = "null" THEN KnownOutput(c) ELSE text))
    /\ UNCHANGED <<gateway, asked, heard, held>>

Next == \/ \E c \in Calls, r \in Runs, o \in {"spawn", "spawnAndWait"},
              useSessionsSend \in BOOLEAN : Spawn(c, r, o, useSessionsSend)
        \/ \E c \in Calls, o \in {"spawn", "spawnAndWait"} : SpawnRefused(c, o)
        \/ \E c \in Calls, r \in Runs : Status(c, r)
        \/ \E r \in Runs : RunGoesOn(r)
        \/ \E c \in Calls : AgentWait(c) \/ WaitExpires(c) \/ RequestLost(c)
        \/ \E c \in Calls, text \in {"null", "text"} : ReadReply(c, text)
        \/ \E c \in Calls : Handoff(c) \/ ResumeWait(c)

(* Every request to the gateway carries a timeout: it is answered, or lost *)
(* in time.  Nothing makes a run end.                                      *)
Fairness == \A c \in Calls :
    /\ WF_vars(Handoff(c)) /\ WF_vars(ResumeWait(c))
    /\ WF_vars(AgentWait(c)) /\ WF_vars(WaitExpires(c) \/ RequestLost(c))
    /\ WF_vars(\E text \in {"null", "text"} : ReadReply(c, text))

Spec == Init /\ [][Next]_vars /\ Fairness
-----------------------------------------------------------------------------
(* A result that says how a run ended, in the store or given to a caller,  *)
(* is one the gateway has had for it, and only a completed run has output, *)
(* whatever patches overtake each other.                                   *)
Truthful(e, r) ==
    /\ e.status = "completed" => "ok" \in verdicts[r]
    /\ e.status = "failed" => "error" \in verdicts[r]
    /\ e.output = "text" => e.status = "completed"
ResultsTruthful ==
    /\ \A r \in Runs : Truthful(record[r], r)
    /\ \A c \in Calls : run[c] # "none" => Truthful(answer[c], run[c])

(* However many calls overlap, a completed or failed run is revised for    *)
(* two reasons only: the gateway has had both outcomes for it, or the      *)
(* spawning call gives up just after another has learned of the end.       *)
RevisedForCause ==
    [][\A r \in Runs :
          record[r].status \in {"completed", "failed"}
          /\ record'[r].status # record[r].status =>
              \/ {"ok", "error"} \subseteq verdicts[r]
              \/ \E c \in Calls : op[c] = "spawnAndWait" /\ run[c] = r
                                  /\ pc[c] = "heard" /\ pc'[c] = "done"]_vars

(* A status call reports an outcome if the gateway had one all the time it *)
(* took, unless the gateway could not be asked: no record stays behind as  *)
(* running because the call that was to update it failed.                  *)
EndedRunReported ==
    \A c \in Calls :
        (op[c] = "status" /\ held[c] /\ pc[c] = "done") =>
            answer[c] = Failure \/ answer[c].status \in Terminal

(* The documented lifecycle: a run that exceeds its timeout is cancelled.  *)
(* A status call begun when such a run is over does not report it running. *)
TimedOutRunReported ==
    \A c \in Calls :
        (op[c] = "status" /\ late[c] /\ pc[c] = "done") => answer[c].status # "running"

(* Every call of a tool returns, even if the run never ends.               *)
CallsReturn == \A c \in Calls : op[c] # "none" ~> pc[c] = "done"
=============================================================================
