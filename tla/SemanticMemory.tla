--------------------------- MODULE SemanticMemory ---------------------------
(***************************************************************************)
(* scripts/runtime/memory_semantic.mjs: store and remove, called at once   *)
(* in one process.  All calls share one connection (dbState), which is     *)
(* moved from the table of one workspace to that of another as calls ask   *)
(* for it.  A row is named by the call that stored it.  Every call stores  *)
(* the same text, or one near enough to count as a duplicate: texts that   *)
(* differ do not interact.  search, stats and health change nothing but    *)
(* the connection, as the first step of remove does.                       *)
(*                                                                         *)
(* Each workspace has a table and state.json, which counts what was stored *)
(* and removed; its file is read, changed and written back.                *)
(***************************************************************************)
EXTENDS Naturals, FiniteSets

CONSTANTS Stores, Removes,  \* calls
          Workspaces,
          MaxFaults         \* bound on restarts and failures together

ASSUME MemoryAssumption == Stores \cap Removes = {} /\ MaxFaults \in Nat

VARIABLES
    db,         \* dbState: what it is doing, and for which workspace
    table,      \* per workspace: "missing", "placeholder" or "ready"
    rows,       \* per workspace: the rows of its table
    file,       \* per workspace: state.json
    pc, home,   \* per call: the await it has reached, its workspace
    handle,     \* per call: the workspace whose table it is using
    loaded,     \* per call: the state it read
    restarts, faults,
    present,    \* history, per call: the rows there were when it began
    mixed,      \* history: calls that overlapped one for another workspace
    contended,  \* history: workspaces whose state was lost or read at once
    done        \* history, per workspace: rows added and removals made

history == <<present, mixed, contended, done>>
vars == <<db, table, rows, file, pc, home, handle, loaded, restarts, faults, history>>

Calls == Stores \cup Removes
Zero  == [writes |-> 0, removes |-> 0]
Torn  == [writes |-> 0, removes |-> 0, torn |-> TRUE]  \* does not parse
Closed == [does |-> "closed"]
Opening(w)  == [does |-> "opening", for |-> w]
Creating(w) == [does |-> "creating", for |-> w]
Open(w)     == [does |-> "open", for |-> w]
Broken      == [does |-> "broken"]  \* initPromise is rejected, and kept

Ended  == {"idle", "ended"}
Active(c) == pc[c] \notin Ended

Init ==
    /\ db = Closed
    /\ table = [w \in Workspaces |-> "missing"]
    /\ rows = [w \in Workspaces |-> {}]
    /\ file = [w \in Workspaces |-> Zero]
    /\ pc = [c \in Calls |-> "idle"]
    /\ home \in [Calls -> Workspaces]
    /\ handle = home
    /\ loaded = [c \in Calls |-> Zero]
    /\ restarts = 0 /\ faults = 0
    /\ present = [c \in Calls |-> {}]
    /\ mixed = {} /\ contended = {}
    /\ done = [w \in Workspaces |-> Zero]
-----------------------------------------------------------------------------
Goes(c, p) == pc' = [pc EXCEPT ![c] = p]
Fault == faults < MaxFaults /\ faults' = faults + 1

(* What a call does once the connection is there: a store has its text     *)
(* embedded, a removal uses the table at once.                             *)
Initialized(c) == IF c \in Stores THEN "embedding" ELSE "removing"

(* ensureInitialized.  A table open for another workspace is closed; a     *)
(* connection being made is awaited, whichever workspace it is for.  The   *)
(* slip is content with any table that is open.                            *)
UsableByAny(c) == db.does = "open"
Usable(c) == db = Open(home[c])
Ensures(c) ==
    \/ Usable(c) /\ Goes(c, Initialized(c)) /\ UNCHANGED db
    \/ /\ db = Closed \/ \E w \in Workspaces \ {home[c]} : db = Open(w)
       /\ db' = Opening(home[c]) /\ Goes(c, "opening")
    \/ db.does \in {"opening", "creating"} /\ Goes(c, "opening") /\ UNCHANGED db
    \/ db = Broken /\ Goes(c, "ended") /\ UNCHANGED db

Begin(c) ==
    /\ pc[c] = "idle"
    /\ Ensures(c)
    /\ present' = [present EXCEPT ![c] = UNION {rows[w] : w \in Workspaces}]
    /\ LET others == {d \in Calls : Active(d) /\ home[d] # home[c]}
       IN mixed' = IF others = {} THEN mixed ELSE mixed \cup others \cup {c}
    /\ UNCHANGED <<table, rows, file, home, handle, loaded, restarts, faults, contended, done>>

(* The promise of the connection settles for everyone who awaits it.       *)
Settles(c, p) == IF pc[c] = "opening" THEN p ELSE pc[c]
Opened(w) ==
    /\ db' = Open(w)
    /\ pc' = [c \in Calls |-> Settles(c, Initialized(c))]
    /\ UNCHANGED <<rows, file, home, handle, loaded, restarts, faults, history>>

(* createTable needs a row to take the schema from, which is deleted then. *)
(* The slip leaves it.                                                     *)
CreateTable(w) ==
    /\ db = Opening(w) /\ table[w] = "missing"
    /\ db' = Creating(w)
    /\ table' = [table EXCEPT ![w] = "placeholder"]
    /\ UNCHANGED <<rows, file, pc, home, handle, loaded, restarts, faults, history>>
Left(w) == UNCHANGED table
Cleared(w) == table' = [table EXCEPT ![w] = "ready"]
DeletePlaceholder(w) == db = Creating(w) /\ Opened(w) /\ Cleared(w)
OpenTable(w) ==
    /\ db = Opening(w) /\ table[w] # "missing" /\ Opened(w)
    /\ UNCHANGED table
InitFails ==
    /\ Fault
    /\ db.does \in {"opening", "creating"} /\ db' = Broken
    /\ pc' = [c \in Calls |-> Settles(c, "ended")]
    /\ UNCHANGED <<table, rows, file, home, handle, loaded, restarts, history>>
-----------------------------------------------------------------------------
(* A call turns to dbState.table after an await: it uses whatever table is *)
(* open by now, or ends because there is none.                             *)
Turns(c, p) ==
    \/ db.does = "open" /\ handle' = [handle EXCEPT ![c] = db.for] /\ Goes(c, p)
    \/ db.does # "open" /\ Goes(c, "ended") /\ UNCHANGED handle

Embedded(c) ==
    /\ pc[c] = "embedding"
    /\ Turns(c, "searching")
    /\ UNCHANGED <<db, table, rows, file, home, loaded, restarts, faults, history>>

EmbeddingFails(c) ==
    /\ Fault
    /\ pc[c] = "embedding" /\ Goes(c, "ended")
    /\ UNCHANGED <<db, table, rows, file, home, handle, loaded, restarts, history>>

(* vectorSearch has found a duplicate or not; the slip wants a second one. *)
IsThirdAlike(c) == Cardinality(rows[handle[c]]) > 1
IsDuplicate(c) == rows[handle[c]] # {}
Searched(c) ==
    /\ pc[c] = "searching"
    /\ \/ IsDuplicate(c) /\ Goes(c, "ended") /\ UNCHANGED handle
       \/ ~IsDuplicate(c) /\ Turns(c, "adding")
    /\ UNCHANGED <<db, table, rows, file, home, loaded, restarts, faults, history>>

Counted(w, field) == done' = [done EXCEPT ![w][field] = @ + 1]
Added(c) ==
    /\ pc[c] = "adding" /\ Goes(c, "recording")
    /\ rows' = [rows EXCEPT ![handle[c]] = @ \cup {c}]
    /\ Counted(home[c], "writes")
    /\ UNCHANGED <<db, table, file, home, handle, loaded, restarts, faults, present, mixed, contended>>

(* remove deletes by id, and counts even when there was no such row.       *)
StartRemoval(c) ==
    /\ pc[c] = "removing"
    /\ Turns(c, "deleting")
    /\ UNCHANGED <<db, table, rows, file, home, loaded, restarts, faults, history>>
Removed(c) ==
    /\ pc[c] = "deleting" /\ Goes(c, "recording")
    /\ \E d \in Stores : rows' = [rows EXCEPT ![handle[c]] = @ \ {d}]
    /\ Counted(home[c], "removes")
    /\ UNCHANGED <<db, table, file, home, handle, loaded, restarts, faults, present, mixed, contended>>

OperationFails(c) ==
    /\ Fault
    /\ pc[c] \in {"searching", "adding", "deleting"} /\ Goes(c, "ended")
    /\ UNCHANGED <<db, table, rows, file, home, handle, loaded, restarts, history>>
-----------------------------------------------------------------------------
(* readState: what does not parse counts as nothing.                       *)
Parsed(w) == IF file[w] = Torn THEN Zero ELSE file[w]
Recording(w) == {c \in Calls : home[c] = w /\ pc[c] \in {"writing", "truncated"}}

ReadState(c) ==
    /\ pc[c] = "recording" /\ Goes(c, "writing")
    /\ loaded' = [loaded EXCEPT ![c] = Parsed(home[c])]
    /\ contended' = IF Recording(home[c]) = {} THEN contended ELSE contended \cup {home[c]}
    /\ UNCHANGED <<db, table, rows, file, home, handle, restarts, faults, present, mixed, done>>

(* writeState: fs.writeFile truncates, then writes.                        *)
Truncate(c) ==
    /\ pc[c] = "writing" /\ Goes(c, "truncated")
    /\ file' = [file EXCEPT ![home[c]] = Torn]
    /\ UNCHANGED <<db, table, rows, home, handle, loaded, restarts, faults, history>>

(* recordWriteState and recordRemoveState.  The slip forgets that both     *)
(* counts share the file.                                                  *)
RecordedAlone(c) == IF c \in Stores THEN [Zero EXCEPT !.writes = loaded[c].writes + 1]
                                    ELSE [Zero EXCEPT !.removes = loaded[c].removes + 1]
Recorded(c) == IF c \in Stores THEN [loaded[c] EXCEPT !.writes = @ + 1]
                               ELSE [loaded[c] EXCEPT !.removes = @ + 1]

(* The file cannot be written: the row is there, the caller is told it is  *)
(* not, and nobody counts it.                                              *)
RecordingFails(c) ==
    /\ Fault
    /\ pc[c] \in {"writing", "truncated"} /\ Goes(c, "ended")
    /\ contended' = contended \cup {home[c]}
    /\ UNCHANGED <<db, table, rows, file, home, handle, loaded, restarts, present, mixed, done>>

(* A shorter text written over a longer one does not parse.                *)
WriteState(c) ==
    /\ pc[c] = "truncated" /\ Goes(c, "ended")
    /\ \/ file' = [file EXCEPT ![home[c]] = Recorded(c)]
       \/ file[home[c]] # Torn /\ file' = [file EXCEPT ![home[c]] = Torn]
    /\ UNCHANGED <<db, table, rows, home, handle, loaded, restarts, faults, history>>

(* The process ends and another begins; what was on its way to a table may *)
(* still have been done, which is the operation done before the end.       *)
Restart ==
    /\ Fault /\ restarts' = restarts + 1
    /\ db' = Closed
    /\ pc' = [c \in Calls |-> IF Active(c) THEN "ended" ELSE pc[c]]
    /\ contended' = contended \cup
         {home[c] : c \in {d \in Calls : pc[d] \in {"recording", "writing", "truncated"}}}
    /\ UNCHANGED <<table, rows, file, home, handle, loaded, present, mixed, done>>

Next == \/ \E c \in Stores  : Embedded(c) \/ EmbeddingFails(c) \/ Searched(c) \/ Added(c)
        \/ \E c \in Removes : StartRemoval(c) \/ Removed(c)
        \/ \E c \in Calls : \/ Begin(c) \/ OperationFails(c) \/ ReadState(c)
                            \/ Truncate(c) \/ WriteState(c) \/ RecordingFails(c)
        \/ \E w \in Workspaces : CreateTable(w) \/ DeletePlaceholder(w) \/ OpenTable(w)
        \/ InitFails \/ Restart

Spec == Init /\ [][Next]_vars
-----------------------------------------------------------------------------
(* Two rows that say the same were stored by calls that overlapped: a      *)
(* store that begins after another has returned finds its row.  Calls that *)
(* were mixed up with those of another workspace are left out.             *)
DuplicatesOverlap ==
    \A w \in Workspaces : \A c, d \in rows[w] \ mixed : c # d => d \notin present[c]

(* A row lies in the table of another workspace only when its call         *)
(* overlapped a call for that other workspace.                             *)
RowsAtHome == \A w \in Workspaces : \A c \in rows[w] : home[c] # w => c \in mixed

(* state.json is exact when all is quiet, unless two calls were recording  *)
(* at once or the process ended before one was through.                    *)
CountsExact ==
    \A w \in Workspaces \ contended :
        (\A c \in Calls : home[c] = w => pc[c] \notin {"recording", "writing", "truncated"})
            => file[w] = done[w]

(* The row that createTable begins with is seen by no call of the process  *)
(* that makes the table: only the end of that process can leave it behind. *)
PlaceholderHidden ==
    \A w \in Workspaces : db = Open(w) /\ table[w] = "placeholder" => restarts > 0
=============================================================================
