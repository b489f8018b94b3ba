-------------------------- MODULE TaskStoreHistory --------------------------
(***************************************************************************)
(* TaskStore with the history its files depend on.  Calls overlap in       *)
(* persist without a lock, and such overlaps do lose changes and tear      *)
(* files.  What then puts the files right is the next call that has the    *)
(* store to itself from its change of the maps to its acknowledgement:     *)
(* persist writes everything.  What does not come right again is a process *)
(* that died meanwhile, or a row pushed to a task canceled since the call  *)
(* checked it.                                                             *)
(***************************************************************************)
EXTENDS TaskStore

VARIABLES
    trust,    \* what the files are worth: "whole", "shared" or "lost"
    alone     \* the writer, if it has had the store to itself so far

history == <<trust, alone>>
hvars   == <<vars, trust, alone>>

(* The calls that have changed the maps and are not answered.              *)
Writers == {c \in Calls : pc[c] \in {"persist"} \cup FileOps}

HistoryTypeOK == trust \in {"whole", "shared", "lost"} /\ alone \subseteq Calls

HInit == Init /\ trust = "whole" /\ alone = {}

(* appendEvent reaches a task whose status has changed since the call      *)
(* checked it.                                                             *)
PushesStale == \E c \in Calls : /\ pc[c] = "append" /\ pc'[c] = "persist"
                                /\ tasks[arg[c]].status # seen[c]

(* The process dies while the files are not as the maps are.               *)
DiesShared == trust = "shared" /\ up /\ ~up'

Overlapping == \E c, d \in Writers : c # d

(* What a step of the store makes of the history.                          *)
Records ==
    /\ alone' = {c \in Calls : Writers' = {c} /\ (c \in alone \/ c \notin Writers)}
    /\ trust' = IF trust = "lost" \/ PushesStale \/ DiesShared THEN "lost"
                ELSE IF Overlapping' THEN "shared"
                ELSE IF \E c \in alone : reply'[c] = "ok" THEN "whole" ELSE trust

HNext == Next /\ Records

HSpec == HInit /\ [][HNext]_hvars /\ Fairness
-----------------------------------------------------------------------------
(* However calls overlapped, failed and were cut off before: once a call   *)
(* has had the store to itself, and until two overlap again, every         *)
(* acknowledged change survives a restart (persist, store.mjs:109-117).    *)
DurableWhenWhole == trust = "whole" => AckedDurable

(* ... the next process can start, ...                                     *)
ReadableWhenWhole == trust = "whole" => DiskReadable

(* ... and the log on disk does not run ahead of the tasks.                *)
CoveredWhenWhole == trust = "whole" => DiskLogCovered

(* Overlaps alone never open a canceled task again, in memory or on disk,  *)
(* torn and overtaken files included: it takes a death among them.         *)
CancelSurvivesUnlessLost == trust # "lost" => CancelSurvives
=============================================================================
