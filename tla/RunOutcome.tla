----------------------------- MODULE RunOutcome -----------------------------
(***************************************************************************)
(* What the orchestrator promises about a sub-agent run, whatever races    *)
(* inside the lifecycle module: a run is started once, it reaches exactly  *)
(* one outcome, and every answer a wait call hands out is the state of the *)
(* run at the moment the answer was made.  Lifecycle.tla is shown to       *)
(* implement this specification.                                           *)
(***************************************************************************)

CONSTANTS Runs,   \* run identifiers
          Waits   \* wait calls

VARIABLES outcome,  \* [Runs -> "none", "running" or a terminal outcome]
          answers   \* the <<wait call, run, outcome>> triples handed out

vars == <<outcome, answers>>

Terminal == {"completed", "failed", "timeout", "cancelled"}

Answered(w, r) == \E o \in Terminal \cup {"running"} : <<w, r, o>> \in answers

TypeOK == /\ outcome \in [Runs -> Terminal \cup {"none", "running"}]
          /\ answers \subseteq Waits \X Runs \X (Terminal \cup {"running"})

Init == /\ outcome = [r \in Runs |-> "none"]
        /\ answers = {}

Start(r) == /\ outcome[r] = "none"
            /\ outcome' = [outcome EXCEPT ![r] = "running"]
            /\ UNCHANGED answers

(* The run reaches its outcome, and the wait calls in W learn it at once.  *)
Finish(r, o, W) ==
    /\ outcome[r] = "running"
    /\ \A w \in W : ~Answered(w, r)
    /\ outcome' = [outcome EXCEPT ![r] = o]
    /\ answers' = answers \cup {<<w, r, o>> : w \in W}

(* Some waiting calls are answered with the present state of their runs.   *)
Answer(A) ==
    /\ \A p \in A : outcome[p[2]] # "none" /\ ~Answered(p[1], p[2])
    /\ answers' = answers \cup {<<p[1], p[2], outcome[p[2]]>> : p \in A}
    /\ UNCHANGED outcome

Next == \/ \E r \in Runs : Start(r)
        \/ \E r \in Runs, o \in Terminal, W \in SUBSET Waits : Finish(r, o, W)
        \/ \E A \in SUBSET (Waits \X Runs) : Answer(A)

(* A started run is not left running for ever.                             *)
Fairness == \A r \in Runs :
              WF_vars(\E o \in Terminal, W \in SUBSET Waits : Finish(r, o, W))

Spec == Init /\ [][Next]_vars /\ Fairness
=============================================================================
