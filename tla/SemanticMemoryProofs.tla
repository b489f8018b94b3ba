------------------------- MODULE SemanticMemoryProofs -------------------------
(***************************************************************************)
(* Theorems about SemanticMemory for every set of calls and workspaces,    *)
(* and any number of failures and restarts.                                *)
(***************************************************************************)
EXTENDS SemanticMemory, FiniteSetTheorems, TLAPS

(* A call that has added its row, or has ended.                             *)
Past   == {"recording", "writing", "truncated", "ended"}
States == {"idle", "opening", "embedding", "searching", "adding", "removing", "deleting"} \cup Past

Connection == \/ db = Closed \/ db = Broken
              \/ \E w \in Workspaces : db = Opening(w) \/ db = Creating(w) \/ db = Open(w)

Types ==
    /\ Connection
    /\ table \in [Workspaces -> {"missing", "placeholder", "ready"}]
    /\ rows \in [Workspaces -> SUBSET Stores]
    /\ pc \in [Calls -> States]
    /\ home \in [Calls -> Workspaces] /\ handle \in [Calls -> Workspaces]
    /\ present \in [Calls -> SUBSET Stores]
    /\ mixed \subseteq Calls /\ restarts \in Nat

(* A connection being made is awaited by a call for its workspace.          *)
Awaited == db.does \in {"opening", "creating"} =>
              \E d \in Calls : pc[d] = "opening" /\ home[d] = db.for

(* A call that has not been mixed up with others has the connection, and    *)
(* what it uses of it, to its own workspace; those under way with it are    *)
(* for the same one.                                                        *)
OwnTable == \A c \in Calls \ mixed :
    /\ Active(c) => /\ \A d \in Calls : Active(d) => home[d] = home[c]
                    /\ db.does \in {"opening", "creating", "open"} => db.for = home[c]
    /\ pc[c] \in {"searching", "adding", "deleting"} => handle[c] = home[c]

(* Rows are those of calls past their adding, and so are those a call has   *)
(* seen at its beginning: none is added a second time.                      *)
AddedOnce == \A d \in Stores :
    /\ \A w \in Workspaces : d \in rows[w] => pc[d] \in Past
    /\ \A c \in Calls : d \in present[c] => pc[d] \in Past

(* A call that goes on to add has found no row, and none that was there     *)
(* when it began is there now.                                              *)
NoneFound == \A c \in Calls \ mixed :
    pc[c] = "adding" => \A d \in rows[home[c]] : d \notin present[c]

(* The placeholder row is there while the table is being made, or that      *)
(* failed.                                                                  *)
PlaceholderBooks == \A w \in Workspaces :
    table[w] = "placeholder" /\ restarts = 0 => db = Creating(w) \/ db = Broken

IInv == /\ Types /\ Awaited /\ OwnTable /\ AddedOnce /\ NoneFound
        /\ DuplicatesOverlap /\ RowsAtHome /\ PlaceholderBooks
-----------------------------------------------------------------------------
(* No call, no row, no connection: the invariant holds.                     *)
LEMMA InitIInv == Init => IInv
  <1> SUFFICES ASSUME Init PROVE IInv
    OBVIOUS
  <1>1. Types
    BY DEF Init, Types, Connection, States
  <1>2. Awaited /\ PlaceholderBooks
    BY DEF Init, Awaited, PlaceholderBooks, Closed
  <1>3. OwnTable /\ NoneFound
    BY DEF Init, OwnTable, NoneFound, Active, Ended
  <1>4. AddedOnce /\ DuplicatesOverlap /\ RowsAtHome
    BY DEF Init, AddedOnce, DuplicatesOverlap, RowsAtHome, Calls
  <1>5. QED
    BY <1>1, <1>2, <1>3, <1>4 DEF IInv

(* The connections there are, told apart by what they do.                   *)
LEMMA ConnectionKinds ==
  /\ Closed.does = "closed" /\ Broken.does = "broken"
  /\ \A w : /\ Opening(w).does = "opening" /\ Opening(w).for = w
            /\ Creating(w).does = "creating" /\ Creating(w).for = w
            /\ Open(w).does = "open" /\ Open(w).for = w
  BY DEF Closed, Broken, Opening, Creating, Open

(* A call moves on past an await that does not concern the connection, and  *)
(* takes the table that is open when it is about to use one.                *)
LEMMA MovesOn ==
  ASSUME IInv, NEW c \in Calls, NEW p \in States \ {"idle", "opening", "adding"},
         pc[c] \notin Ended \cup {"opening"}, pc[c] \in Past => p \in Past, Goes(c, p),
         UNCHANGED <<db, table, home, restarts, present, mixed>>,
         rows' \in [Workspaces -> SUBSET Stores], \A w \in Workspaces : rows'[w] \subseteq rows[w],
         handle' \in [Calls -> Workspaces], \A d \in Calls : d # c => handle'[d] = handle[d],
         p \in {"searching", "deleting"} => db.does = "open" /\ handle'[c] = db.for
  PROVE  IInv'
  <1>0. Types /\ Awaited /\ OwnTable /\ AddedOnce /\ NoneFound /\ DuplicatesOverlap
        /\ RowsAtHome /\ PlaceholderBooks
    BY DEF IInv
  <1>1. pc' = [pc EXCEPT ![c] = p] /\ pc'[c] = p
    BY <1>0 DEF Goes, Types
  <1>2. Types'
    BY <1>0, <1>1 DEF Types, Connection
  <1>3. Awaited'
    BY <1>0, <1>1 DEF Awaited, Types
  <1>4. \A d \in Calls : Active(d)' => Active(d)
    BY <1>0, <1>1 DEF Active, Ended, Types
  <1>5. OwnTable'
    <2> SUFFICES ASSUME NEW d \in Calls \ mixed
                 PROVE  /\ Active(d)' =>
                             /\ \A e \in Calls : Active(e)' => home[e] = home[d]
                             /\ db.does \in {"opening", "creating", "open"} => db.for = home[d]
                        /\ pc'[d] \in {"searching", "adding", "deleting"} => handle'[d] = home[d]
      BY DEF OwnTable, Active
    <2>1. CASE d = c
      BY <1>0, <1>1, <1>4, <2>1 DEF OwnTable, Active
    <2>2. CASE d # c
      BY <1>0, <1>1, <1>4, <2>2 DEF OwnTable, Types
    <2>3. QED
      BY <2>1, <2>2
  <1>6. AddedOnce'
    BY <1>0, <1>1 DEF AddedOnce, Types, Calls
  <1>7. NoneFound'
    BY <1>0, <1>1 DEF NoneFound, Types
  <1>8. DuplicatesOverlap' /\ RowsAtHome'
    BY <1>0 DEF DuplicatesOverlap, RowsAtHome
  <1>9. PlaceholderBooks'
    BY <1>0 DEF PlaceholderBooks
  <1>10. QED
    BY <1>2, <1>3, <1>5, <1>6, <1>7, <1>8, <1>9 DEF IInv

(* The steps that are no more than that: an embedding, a removal, the       *)
(* record of either, and their failures.                                    *)
LEMMA SimpleSteps ==
  ASSUME IInv, NEW c \in Calls,
         \/ Embedded(c) \/ EmbeddingFails(c) \/ StartRemoval(c) \/ Removed(c)
         \/ OperationFails(c) \/ ReadState(c) \/ Truncate(c) \/ WriteState(c)
         \/ RecordingFails(c)
  PROVE  IInv'
  <1>0. Types
    BY DEF IInv
  <1>1. ASSUME NEW p \in States \ {"idle", "opening", "adding"}, Turns(c, p),
               p \in {"searching", "deleting"}, pc[c] \in {"embedding", "removing"},
               UNCHANGED <<db, table, rows, home, restarts, present, mixed>>
        PROVE  IInv'
    <2>1. CASE db.does = "open" /\ handle' = [handle EXCEPT ![c] = db.for] /\ Goes(c, p)
      <3>1. db.for \in Workspaces
        BY <1>0, <2>1, ConnectionKinds DEF Types, Connection
      <3>2. handle' \in [Calls -> Workspaces] /\ handle'[c] = db.for
            /\ \A d \in Calls : d # c => handle'[d] = handle[d]
        BY <1>0, <2>1, <3>1 DEF Types
      <3>3. QED
        BY <1>0, <1>1, <2>1, <3>2, MovesOn DEF Types, Ended, Past
    <2>2. CASE Goes(c, "ended") /\ handle' = handle
      BY <1>0, <1>1, <2>2, MovesOn DEF Types, Ended, Past, States
    <2>3. QED
      BY <1>1, <2>1, <2>2 DEF Turns
  <1>2. CASE Embedded(c)
    BY <1>1, <1>2 DEF Embedded, history, States
  <1>3. CASE StartRemoval(c)
    BY <1>1, <1>3 DEF StartRemoval, history, States
  <1>4. CASE Removed(c)
    <2>1. pc[c] = "deleting" /\ Goes(c, "recording") /\ handle' = handle
          /\ UNCHANGED <<db, table, home, restarts, present, mixed>>
      BY <1>4 DEF Removed
    <2>2. rows' \in [Workspaces -> SUBSET Stores] /\ \A w \in Workspaces : rows'[w] \subseteq rows[w]
      BY <1>0, <1>4 DEF Removed, Types
    <2>3. QED
      BY <1>0, <2>1, <2>2, MovesOn DEF Types, Ended, Past, States
  <1>5. CASE EmbeddingFails(c) \/ OperationFails(c)
    BY <1>0, <1>5, MovesOn
       DEF EmbeddingFails, OperationFails, history, Types, Ended, Past, States
  <1>6. CASE ReadState(c)
    BY <1>0, <1>6, MovesOn DEF ReadState, Types, Ended, Past, States
  <1>7. CASE Truncate(c)
    BY <1>0, <1>7, MovesOn DEF Truncate, history, Types, Ended, Past, States
  <1>8. CASE WriteState(c)
    BY <1>0, <1>8, MovesOn DEF WriteState, history, Types, Ended, Past, States
  <1>9. CASE RecordingFails(c)
    BY <1>0, <1>9, MovesOn DEF RecordingFails, Types, Ended, Past, States
  <1>10. QED
    BY <1>2, <1>3, <1>4, <1>5, <1>6, <1>7, <1>8, <1>9

(* A call begins: it is mixed up with those under way for other workspaces, *)
(* and so are they with it.                                                 *)
LEMMA BeginStep ==
  ASSUME IInv, NEW c \in Calls, Begin(c)
  PROVE  IInv'
  <1> DEFINE others == {d \in Calls : Active(d) /\ home[d] # home[c]}
  <1>0. Types /\ Awaited /\ OwnTable /\ AddedOnce /\ NoneFound /\ DuplicatesOverlap
        /\ RowsAtHome /\ PlaceholderBooks
    BY DEF IInv
  <1>1. /\ UNCHANGED <<table, rows, home, handle, restarts>> /\ pc[c] = "idle"
        /\ present' = [present EXCEPT ![c] = UNION {rows[w] : w \in Workspaces}]
        /\ mixed' = IF others = {} THEN mixed ELSE mixed \cup others \cup {c}
    BY DEF Begin
  <1>2. PICK p \in {"embedding", "removing", "opening", "ended"} : pc' = [pc EXCEPT ![c] = p]
    BY DEF Begin, Ensures, Goes, Initialized
  <1>3. home[c] \in Workspaces
    BY <1>0 DEF Types
  <1>4. Connection' /\ (db' = db \/ (db' = Opening(home[c]) /\ p = "opening"))
    <2>1. pc'[c] = p /\ (Goes(c, "opening") => pc'[c] = "opening")
      BY <1>0, <1>2 DEF Goes, Types
    <2>2. db' = db \/ (db' = Opening(home[c]) /\ p = "opening")
      BY <2>1 DEF Begin, Ensures
    <2>3. QED
      BY <1>0, <1>3, <2>2 DEF Types, Connection
  <1>5. Types'
    BY <1>0, <1>1, <1>2, <1>4 DEF Types, States, Past
  <1>6. Awaited'
    <2>1. CASE db' = db
      BY <1>0, <1>1, <1>2, <2>1 DEF Awaited, Types
    <2>2. CASE db' = Opening(home[c]) /\ p = "opening"
      BY <1>0, <1>1, <1>2, <2>2, ConnectionKinds DEF Awaited, Types
    <2>3. QED
      BY <1>4, <2>1, <2>2
  <1>7. OwnTable'
    <2> SUFFICES ASSUME NEW d \in Calls, d \notin mixed'
                 PROVE  /\ Active(d)' =>
                             /\ \A e \in Calls : Active(e)' => home[e] = home[d]
                             /\ db'.does \in {"opening", "creating", "open"} => db'.for = home[d]
                        /\ pc'[d] \in {"searching", "adding", "deleting"} => handle[d] = home[d]
      BY <1>1 DEF OwnTable, Active
    <2>1. d \notin mixed /\ (Active(d) => home[d] = home[c])
      BY <1>1
    <2>2. pc'[d] \in {"searching", "adding", "deleting"} => handle[d] = home[d]
      BY <1>0, <1>2, <2>1 DEF OwnTable, Types
    <2>3. \A e \in Calls : Active(e)' => Active(e) \/ e = c
      BY <1>0, <1>2 DEF Active, Ended, Types
    <2>4. CASE d # c
      <3>1. Active(d)' => Active(d)
        BY <2>3, <2>4
      <3>2. Active(d)' => \A e \in Calls : Active(e)' => home[e] = home[d]
        BY <1>0, <2>1, <2>3, <3>1 DEF OwnTable
      <3>3. Active(d)' /\ db'.does \in {"opening", "creating", "open"} => db'.for = home[d]
        BY <1>0, <1>4, <2>1, <3>1, ConnectionKinds DEF OwnTable
      <3>4. QED
        BY <2>2, <3>2, <3>3
    <2>5. CASE d = c
      <3>1. others = {}
        BY <1>1, <2>5
      <3>2. \A e \in Calls : Active(e)' => home[e] = home[c]
        BY <2>3, <3>1
      <3>3. Active(c)' /\ db'.does \in {"opening", "creating", "open"} => db'.for = home[c]
        <4>1. CASE Usable(c) /\ db' = db
          BY <4>1, ConnectionKinds DEF Usable
        <4>2. CASE db' = Opening(home[c])
          BY <4>2, ConnectionKinds
        <4>3. CASE db.does \in {"opening", "creating"} /\ db' = db
          <5>1. PICK e \in Calls : pc[e] = "opening" /\ home[e] = db.for
            BY <1>0, <4>3 DEF Awaited
          <5>2. QED
            BY <3>1, <4>3, <5>1 DEF Active, Ended
        <4>4. CASE db = Broken /\ db' = db
          BY <4>4, ConnectionKinds
        <4>5. QED
          BY <4>1, <4>2, <4>3, <4>4 DEF Begin, Ensures
      <3>4. QED
        BY <2>2, <2>5, <3>2, <3>3
    <2>6. QED
      BY <2>4, <2>5
  <1>8. AddedOnce'
    <2>1. \A d \in Stores : d \in Calls /\ (pc[d] \in Past => pc'[d] \in Past)
      BY <1>0, <1>1, <1>2 DEF Types, Past, Calls
    <2>2. \A d \in Stores, e \in Calls : d \in present'[e] =>
             d \in present[e] \/ \E w \in Workspaces : d \in rows[w]
      BY <1>0, <1>1 DEF Types
    <2>3. QED
      BY <1>0, <1>1, <2>1, <2>2 DEF AddedOnce
  <1>9. NoneFound'
    BY <1>0, <1>1, <1>2 DEF NoneFound, Types
  <1>10. DuplicatesOverlap'
    <2> SUFFICES ASSUME NEW w \in Workspaces, NEW d \in rows[w] \ mixed', NEW e \in rows[w] \ mixed',
                        d # e
                 PROVE  e \notin present'[d]
      BY <1>1 DEF DuplicatesOverlap
    <2>1. d \in Stores /\ d \in Calls /\ d # c /\ d \notin mixed /\ e \notin mixed
      BY <1>0, <1>1 DEF Types, AddedOnce, Past, Calls
    <2>2. QED
      BY <1>0, <1>1, <2>1 DEF DuplicatesOverlap, Types
  <1>11. RowsAtHome'
    BY <1>0, <1>1 DEF RowsAtHome
  <1>12. PlaceholderBooks'
    <2>1. db' = db \/ (db # Broken /\ \A w \in Workspaces : db # Creating(w))
      BY ConnectionKinds DEF Begin, Ensures
    <2>2. QED
      BY <1>0, <1>1, <2>1 DEF PlaceholderBooks
  <1>13. QED
    BY <1>5, <1>6, <1>7, <1>8, <1>9, <1>10, <1>11, <1>12 DEF IInv

(* What a search finds decides whether the call goes on to add.             *)
LEMMA SearchedStep ==
  ASSUME IInv, NEW c \in Calls, Searched(c)
  PROVE  IInv'
  <1>0. Types /\ Awaited /\ OwnTable /\ AddedOnce /\ NoneFound /\ DuplicatesOverlap
        /\ RowsAtHome /\ PlaceholderBooks
    BY DEF IInv
  <1>1. UNCHANGED <<db, table, rows, home, restarts, present, mixed>> /\ pc[c] = "searching"
    BY DEF Searched, history
  <1>2. CASE Goes(c, "ended") /\ handle' = handle
    BY <1>0, <1>1, <1>2, MovesOn DEF Types, Ended, Past, States
  <1>3. CASE /\ rows[handle[c]] = {} /\ db.does = "open"
             /\ handle' = [handle EXCEPT ![c] = db.for] /\ Goes(c, "adding")
    <2>1. pc' = [pc EXCEPT ![c] = "adding"] /\ pc'[c] = "adding"
      BY <1>0, <1>3 DEF Goes, Types
    <2>2. db.for \in Workspaces
      BY <1>0, <1>3, ConnectionKinds DEF Types, Connection
    <2>3. Types'
      BY <1>0, <1>1, <1>3, <2>1, <2>2 DEF Types, Connection, States
    <2>4. Awaited'
      BY <1>0, <1>1, <2>1 DEF Awaited, Types
    <2>5. \A d \in Calls : Active(d)' <=> Active(d)
      BY <1>0, <1>1, <2>1 DEF Active, Ended, Types
    <2>6. OwnTable'
      <3> SUFFICES ASSUME NEW d \in Calls \ mixed
                   PROVE  /\ Active(d)' =>
                               /\ \A e \in Calls : Active(e)' => home[e] = home[d]
                               /\ db.does \in {"opening", "creating", "open"} => db.for = home[d]
                          /\ pc'[d] \in {"searching", "adding", "deleting"} => handle'[d] = home[d]
        BY <1>1 DEF OwnTable, Active
      <3>1. Active(d)' =>
              /\ \A e \in Calls : Active(e)' => home[e] = home[d]
              /\ db.does \in {"opening", "creating", "open"} => db.for = home[d]
        BY <1>0, <2>5 DEF OwnTable
      <3>2. pc'[d] \in {"searching", "adding", "deleting"} => handle'[d] = home[d]
        <4>1. CASE d = c
          BY <1>0, <1>1, <1>3, <4>1 DEF OwnTable, Active, Ended, Types
        <4>2. CASE d # c
          BY <1>0, <1>3, <2>1, <4>2 DEF OwnTable, Types
        <4>3. QED
          BY <4>1, <4>2
      <3>3. QED
        BY <3>1, <3>2
    <2>7. AddedOnce'
      BY <1>0, <1>1, <2>1 DEF AddedOnce, Types, Calls, Past
    <2>8. NoneFound'
      <3>1. c \notin mixed => rows[home[c]] = {}
        BY <1>0, <1>1, <1>3 DEF OwnTable
      <3>2. QED
        BY <1>0, <1>1, <2>1, <3>1 DEF NoneFound, Types
    <2>9. DuplicatesOverlap' /\ RowsAtHome' /\ PlaceholderBooks'
      BY <1>0, <1>1 DEF DuplicatesOverlap, RowsAtHome, PlaceholderBooks
    <2>10. QED
      BY <2>3, <2>4, <2>6, <2>7, <2>8, <2>9 DEF IInv
  <1>4. QED
    BY <1>2, <1>3 DEF Searched, IsDuplicate, Turns

(* A row is added: to its own table unless the call was mixed up with       *)
(* others, and then beside none that was there when its call began.         *)
LEMMA AddedStep ==
  ASSUME IInv, NEW c \in Stores, Added(c)
  PROVE  IInv'
  <1>0. Types /\ Awaited /\ OwnTable /\ AddedOnce /\ NoneFound /\ DuplicatesOverlap
        /\ RowsAtHome /\ PlaceholderBooks
    BY DEF IInv
  <1>1. /\ UNCHANGED <<db, table, home, handle, restarts, present, mixed>> /\ pc[c] = "adding"
        /\ pc' = [pc EXCEPT ![c] = "recording"]
        /\ rows' = [rows EXCEPT ![handle[c]] = @ \cup {c}]
    BY DEF Added, Goes
  <1>2. c \in Calls /\ handle[c] \in Workspaces /\ home[c] \in Workspaces
        /\ (c \notin mixed => handle[c] = home[c])
    BY <1>0, <1>1 DEF Types, Calls, OwnTable
  <1>3. Types'
    BY <1>0, <1>1, <1>2 DEF Types, Connection, States, Past
  <1>4. Awaited'
    BY <1>0, <1>1 DEF Awaited, Types
  <1>5. \A d \in Calls : Active(d)' <=> Active(d)
    BY <1>0, <1>1 DEF Active, Ended, Types
  <1>6. OwnTable'
    BY <1>0, <1>1, <1>5 DEF OwnTable, Types
  <1>7. AddedOnce'
    BY <1>0, <1>1, <1>2 DEF AddedOnce, Types, Calls, Past
  <1>8. \A d \in Calls : c \notin present[d]
    BY <1>0, <1>1 DEF AddedOnce, Past
  <1>9. \A w \in Workspaces : \A d \in rows'[w] : d \in rows[w] \/ (d = c /\ w = handle[c])
    BY <1>0, <1>1, <1>2 DEF Types
  <1>10. NoneFound'
    BY <1>0, <1>1, <1>2, <1>8, <1>9 DEF NoneFound, Types
  <1>11. DuplicatesOverlap'
    <2> SUFFICES ASSUME NEW w \in Workspaces, NEW d \in rows'[w] \ mixed, NEW e \in rows'[w] \ mixed,
                        d # e
                 PROVE  e \notin present[d]
      BY <1>1 DEF DuplicatesOverlap
    <2>1. d \in Calls /\ e \in Calls
      BY <1>3 DEF Types, Calls
    <2>2. CASE e = c
      BY <1>8, <2>1, <2>2
    <2>3. CASE d = c
      <3>1. c \notin rows[w]
        BY <1>0, <1>1 DEF AddedOnce, Past
      <3>2. w = home[c] /\ e \in rows[w]
        BY <1>2, <1>9, <2>3, <3>1
      <3>3. QED
        BY <1>0, <1>1, <1>2, <2>3, <3>2 DEF NoneFound
    <2>4. CASE d # c /\ e # c
      BY <1>0, <1>9, <2>4 DEF DuplicatesOverlap
    <2>5. QED
      BY <2>2, <2>3, <2>4
  <1>12. RowsAtHome'
    BY <1>0, <1>1, <1>2, <1>9 DEF RowsAtHome
  <1>13. PlaceholderBooks'
    BY <1>0, <1>1 DEF PlaceholderBooks
  <1>14. QED
    BY <1>3, <1>4, <1>6, <1>7, <1>10, <1>11, <1>12, <1>13 DEF IInv

(* The connection is made, or not: everyone who awaits it goes on, or ends. *)
LEMMA SettlesStep ==
  ASSUME IInv, NEW w \in Workspaces, db \in {Opening(w), Creating(w)},
         NEW S \in SUBSET {"embedding", "removing", "ended"},
         pc' \in [Calls -> States],
         \A c \in Calls : IF pc[c] = "opening" THEN pc'[c] \in S ELSE pc'[c] = pc[c],
         \/ db' = Open(w)
         \/ db' = Broken /\ S = {"ended"},
         \/ table' = table /\ db = Opening(w)
         \/ table' = table /\ db' = Broken
         \/ table' = [table EXCEPT ![w] = "ready"],
         UNCHANGED <<rows, home, handle, restarts, present, mixed>>
  PROVE  IInv'
  <1>0. Types /\ Awaited /\ OwnTable /\ AddedOnce /\ NoneFound /\ DuplicatesOverlap
        /\ RowsAtHome /\ PlaceholderBooks
    BY DEF IInv
  <1>1. Types'
    BY <1>0 DEF Types, Connection
  <1>2. Awaited'
    BY ConnectionKinds DEF Awaited
  <1>3. \A d \in Calls : Active(d)' => Active(d)
    BY DEF Active, Ended
  <1>4. db.for = w /\ db.does \in {"opening", "creating"}
        /\ (db'.does \in {"opening", "creating", "open"} => db'.for = w)
    BY ConnectionKinds
  <1>5. OwnTable'
    <2> SUFFICES ASSUME NEW d \in Calls \ mixed
                 PROVE  /\ Active(d)' =>
                             /\ \A e \in Calls : Active(e)' => home[e] = home[d]
                             /\ db'.does \in {"opening", "creating", "open"} => db'.for = home[d]
                        /\ pc'[d] \in {"searching", "adding", "deleting"} => handle[d] = home[d]
      BY DEF OwnTable, Active
    <2>1. Active(d)' => \A e \in Calls : Active(e)' => home[e] = home[d]
      BY <1>0, <1>3 DEF OwnTable
    <2>2. Active(d)' => (db'.does \in {"opening", "creating", "open"} => db'.for = home[d])
      BY <1>0, <1>3, <1>4 DEF OwnTable
    <2>3. pc'[d] \in {"searching", "adding", "deleting"} => handle[d] = home[d]
      BY <1>0 DEF OwnTable
    <2>4. QED
      BY <2>1, <2>2, <2>3
  <1>6. AddedOnce'
    BY <1>0 DEF AddedOnce, Past, Calls
  <1>7. NoneFound'
    BY <1>0 DEF NoneFound
  <1>8. DuplicatesOverlap' /\ RowsAtHome'
    BY <1>0 DEF DuplicatesOverlap, RowsAtHome
  <1>9. PlaceholderBooks'
    <2> SUFFICES ASSUME NEW v \in Workspaces, table'[v] = "placeholder", restarts = 0
                 PROVE  db' = Creating(v) \/ db' = Broken
      BY DEF PlaceholderBooks
    <2>1. table[v] = "placeholder" /\ (table' = [table EXCEPT ![w] = "ready"] => v # w)
      BY <1>0 DEF Types
    <2>2. db = Creating(v)
      BY <1>0, <2>1, ConnectionKinds DEF PlaceholderBooks
    <2>3. v = w
      BY <2>2, ConnectionKinds
    <2>4. QED
      BY <2>1, <2>2, <2>3, ConnectionKinds
  <1>10. QED
    BY <1>1, <1>2, <1>5, <1>6, <1>7, <1>8, <1>9 DEF IInv

(* The three ways the making of a connection ends.                          *)
LEMMA OpenedStep ==
  ASSUME IInv, NEW w \in Workspaces,
         DeletePlaceholder(w) \/ OpenTable(w) \/ (InitFails /\ db \in {Opening(w), Creating(w)})
  PROVE  IInv'
  <1>0. Types
    BY DEF IInv
  <1>1. CASE DeletePlaceholder(w) \/ OpenTable(w)
    <2> DEFINE S == {"embedding", "removing"}
    <2>1. pc' = [c \in Calls |-> Settles(c, Initialized(c))] /\ db' = Open(w)
          /\ UNCHANGED <<rows, home, handle, restarts, present, mixed>>
      BY <1>1 DEF DeletePlaceholder, OpenTable, Opened, history
    <2>2. pc' \in [Calls -> States]
          /\ \A c \in Calls : IF pc[c] = "opening" THEN pc'[c] \in S ELSE pc'[c] = pc[c]
      BY <1>0, <2>1 DEF Settles, Initialized, Types, States
    <2>3. \/ db = Opening(w) /\ table' = table
          \/ db = Creating(w) /\ table' = [table EXCEPT ![w] = "ready"]
      BY <1>1 DEF DeletePlaceholder, OpenTable, Cleared
    <2>4. S \in SUBSET {"embedding", "removing", "ended"}
      OBVIOUS
    <2> HIDE DEF S
    <2>5. QED
      BY <2>1, <2>2, <2>3, <2>4, SettlesStep
  <1>2. CASE InitFails /\ db \in {Opening(w), Creating(w)}
    <2> DEFINE S == {"ended"}
    <2>1. pc' = [c \in Calls |-> Settles(c, "ended")] /\ db' = Broken /\ table' = table
          /\ UNCHANGED <<rows, home, handle, restarts, present, mixed>>
      BY <1>2 DEF InitFails, history
    <2>2. pc' \in [Calls -> States]
          /\ \A c \in Calls : IF pc[c] = "opening" THEN pc'[c] \in S ELSE pc'[c] = pc[c]
      BY <1>0, <2>1 DEF Settles, Types, States, Past
    <2>3. S \in SUBSET {"embedding", "removing", "ended"} /\ S = {"ended"}
      OBVIOUS
    <2> HIDE DEF S
    <2>4. QED
      BY <1>2, <2>1, <2>2, <2>3, SettlesStep
  <1>3. QED
    BY <1>1, <1>2

(* A table is made, with its placeholder, while the connection is awaited.  *)
LEMMA CreateTableStep ==
  ASSUME IInv, NEW w \in Workspaces, CreateTable(w)
  PROVE  IInv'
  <1>0. Types /\ Awaited /\ OwnTable /\ AddedOnce /\ NoneFound /\ DuplicatesOverlap
        /\ RowsAtHome /\ PlaceholderBooks
    BY DEF IInv
  <1>1. /\ UNCHANGED <<rows, pc, home, handle, restarts, present, mixed>>
        /\ db = Opening(w) /\ db' = Creating(w) /\ table' = [table EXCEPT ![w] = "placeholder"]
    BY DEF CreateTable, history
  <1>2. Types'
    BY <1>0, <1>1 DEF Types, Connection
  <1>3. Awaited'
    BY <1>0, <1>1, ConnectionKinds DEF Awaited
  <1>4. OwnTable'
    BY <1>0, <1>1, ConnectionKinds DEF OwnTable, Active
  <1>5. AddedOnce' /\ NoneFound' /\ DuplicatesOverlap' /\ RowsAtHome'
    BY <1>0, <1>1 DEF AddedOnce, NoneFound, DuplicatesOverlap, RowsAtHome
  <1>6. PlaceholderBooks'
    BY <1>0, <1>1, ConnectionKinds DEF PlaceholderBooks, Types
  <1>7. QED
    BY <1>2, <1>3, <1>4, <1>5, <1>6 DEF IInv

(* A restart ends every call under way.                                     *)
LEMMA RestartStep ==
  ASSUME IInv, Restart
  PROVE  IInv'
  <1>0. Types /\ Awaited /\ OwnTable /\ AddedOnce /\ NoneFound /\ DuplicatesOverlap
        /\ RowsAtHome /\ PlaceholderBooks
    BY DEF IInv
  <1>1. /\ UNCHANGED <<table, rows, home, handle, present, mixed>>
        /\ db' = Closed /\ restarts' = restarts + 1
        /\ pc' = [c \in Calls |-> IF Active(c) THEN "ended" ELSE pc[c]]
    BY DEF Restart
  <1>2. Types'
    BY <1>0, <1>1 DEF Types, Connection, States, Past
  <1>3. Awaited'
    BY <1>1, ConnectionKinds DEF Awaited
  <1>4. \A c \in Calls : ~Active(c)' /\ pc'[c] \notin {"searching", "adding", "deleting"}
    BY <1>1 DEF Active, Ended
  <1>5. OwnTable'
    BY <1>1, <1>4 DEF OwnTable
  <1>6. AddedOnce'
    BY <1>0, <1>1 DEF AddedOnce, Past, Calls
  <1>7. NoneFound'
    BY <1>4 DEF NoneFound
  <1>8. DuplicatesOverlap' /\ RowsAtHome'
    BY <1>0, <1>1 DEF DuplicatesOverlap, RowsAtHome
  <1>9. PlaceholderBooks'
    BY <1>0, <1>1 DEF PlaceholderBooks, Types
  <1>10. QED
    BY <1>2, <1>3, <1>5, <1>6, <1>7, <1>8, <1>9 DEF IInv

(* No step breaks the invariant.                                            *)
LEMMA NextIInv == IInv /\ [Next]_vars => IInv'
  <1> SUFFICES ASSUME IInv, [Next]_vars PROVE IInv'
    OBVIOUS
  <1>1. Stores \subseteq Calls /\ Removes \subseteq Calls
    BY DEF Calls
  <1>2. CASE Next
    <2>1. ASSUME NEW c \in Stores,
                 Embedded(c) \/ EmbeddingFails(c) \/ Searched(c) \/ Added(c)
          PROVE  IInv'
      BY <1>1, <2>1, SimpleSteps, SearchedStep, AddedStep
    <2>2. ASSUME NEW c \in Removes, StartRemoval(c) \/ Removed(c) PROVE IInv'
      BY <1>1, <2>2, SimpleSteps
    <2>3. ASSUME NEW c \in Calls,
                 \/ Begin(c) \/ OperationFails(c) \/ ReadState(c) \/ Truncate(c)
                 \/ WriteState(c) \/ RecordingFails(c)
          PROVE  IInv'
      BY <2>3, SimpleSteps, BeginStep
    <2>4. ASSUME NEW w \in Workspaces, CreateTable(w) \/ DeletePlaceholder(w) \/ OpenTable(w)
          PROVE  IInv'
      BY <2>4, CreateTableStep, OpenedStep
    <2>5. CASE InitFails
      <3>1. PICK w \in Workspaces : db \in {Opening(w), Creating(w)}
        BY <2>5, ConnectionKinds DEF InitFails, IInv, Types, Connection
      <3>2. QED
        BY <2>5, <3>1, OpenedStep
    <2>6. CASE Restart
      BY <2>6, RestartStep
    <2>7. QED
      BY <1>2, <2>1, <2>2, <2>3, <2>4, <2>5, <2>6 DEF Next
  <1>3. CASE UNCHANGED vars
    BY <1>3 DEF vars, history, IInv, Types, Connection, Awaited, OwnTable, AddedOnce, NoneFound,
       DuplicatesOverlap, RowsAtHome, PlaceholderBooks, Active
  <1>4. QED
    BY <1>2, <1>3

(* The invariant holds throughout.                                          *)
LEMMA Invariance == Spec => []IInv
  BY InitIInv, NextIInv, PTL DEF Spec
-----------------------------------------------------------------------------
(* Of two rows that say the same, in the table of a workspace, neither was  *)
(* there when the other's call began, for any number of calls of store and  *)
(* remove, unless calls for several workspaces overlapped.                  *)
THEOREM DuplicatesOnlyOverlapping == Spec => []DuplicatesOverlap
  <1>1. IInv => DuplicatesOverlap
    BY DEF IInv
  <1>2. QED
    BY <1>1, Invariance, PTL

(* A row lies in the table of another workspace only when its call          *)
(* overlapped one for another workspace.                                    *)
THEOREM RowsStayHome == Spec => []RowsAtHome
  <1>1. IInv => RowsAtHome
    BY DEF IInv
  <1>2. QED
    BY <1>1, Invariance, PTL

(* No call of the process that makes a table meets the placeholder row,     *)
(* however the making fails.                                                *)
THEOREM PlaceholderUnseen == Spec => []PlaceholderHidden
  <1>1. IInv => PlaceholderHidden
    <2> SUFFICES ASSUME IInv, NEW w \in Workspaces, db = Open(w), table[w] = "placeholder"
                 PROVE  restarts > 0
      BY DEF PlaceholderHidden
    <2>1. restarts # 0
      BY ConnectionKinds DEF IInv, PlaceholderBooks
    <2>2. QED
      BY <2>1 DEF IInv, Types
  <1>2. QED
    BY <1>1, Invariance, PTL
-----------------------------------------------------------------------------
(* The counts of state.json.  Calls between their operation on the table    *)
(* and their note of it are pending; the state it will be written into is   *)
(* the file, or the copy of the one call that has read it.                  *)
Counts  == [writes : Nat, removes : Nat]
Noting  == {"writing", "truncated"}
ToNote  == Noting \cup {"recording"}
Pending(K, w) == {c \in K : home[c] = w /\ pc[c] \in ToNote}
LacksPending(s, w) == /\ done[w].writes = s.writes + Cardinality(Pending(Stores, w))
                      /\ done[w].removes = s.removes + Cardinality(Pending(Removes, w))

CountTypes == /\ done \in [Workspaces -> Counts] /\ loaded \in [Calls -> Counts]
              /\ file \in [Workspaces -> Counts \cup {Torn}]

(* Where no two calls recorded at once, one copy at most is about.          *)
CountBooks(w) ==
    /\ IsFiniteSet(Pending(Stores, w)) /\ IsFiniteSet(Pending(Removes, w))
    /\ \A c, d \in Recording(w) : c = d
    /\ \A c \in Recording(w) : /\ LacksPending(loaded[c], w)
                               /\ file[w] = Torn <=> pc[c] = "truncated"
    /\ Recording(w) = {} => file[w] # Torn
    /\ file[w] # Torn => LacksPending(file[w], w)
CInv == CountTypes /\ \A w \in Workspaces \ contended : CountBooks(w)

LEMMA TornIsNoCount == Torn \notin Counts /\ Zero \in Counts
  <1>1. DOMAIN Torn = {"writes", "removes", "torn"}
    BY DEF Torn
  <1>2. \A s \in Counts : DOMAIN s = {"writes", "removes"}
    BY DEF Counts
  <1>3. "torn" \in DOMAIN Torn /\ "torn" \notin {"writes", "removes"}
    BY <1>1
  <1> QED BY <1>2, <1>3 DEF Zero, Counts

LEMMA InitCounts == ASSUME Init PROVE CInv
  <1>1. CountTypes
    BY TornIsNoCount DEF Init, CountTypes
  <1>2. ASSUME NEW w \in Workspaces PROVE CountBooks(w)
    <2>1. Pending(Stores, w) = {} /\ Pending(Removes, w) = {} /\ Recording(w) = {}
      BY DEF Init, Pending, Recording, ToNote, Noting, Calls
    <2>2. file[w] = Zero /\ done[w] = Zero /\ Zero # Torn
      BY TornIsNoCount DEF Init
    <2> QED BY <2>1, <2>2, FS_EmptySet DEF CountBooks, LacksPending, Zero
  <1> QED BY <1>1, <1>2 DEF CInv

(* A step that notes nothing for the workspace leaves its books.            *)
LEMMA KeptBooks ==
  ASSUME IInv, NEW w \in Workspaces, CountBooks(w),
         home' = home, file'[w] = file[w], done'[w] = done[w],
         \A c \in Calls : home[c] = w => loaded'[c] = loaded[c],
         \A c \in Calls : home[c] = w /\ (pc[c] \in ToNote \/ pc'[c] \in ToNote) => pc'[c] = pc[c]
  PROVE  CountBooks(w)'
  <1>1. /\ Pending(Stores, w)' = Pending(Stores, w) /\ Pending(Removes, w)' = Pending(Removes, w)
        /\ Recording(w)' = Recording(w)
    BY DEF Pending, Recording, ToNote, Noting, Calls
  <1>2. \A c \in Recording(w) : loaded'[c] = loaded[c] /\ pc'[c] = pc[c]
    BY DEF Recording, ToNote, Noting
  <1> QED BY <1>1, <1>2 DEF CountBooks, LacksPending

(* The steps of calls that are not about to note anything.                  *)
LEMMA OtherStepsCount ==
  ASSUME IInv, CInv, [Next]_vars,
         UNCHANGED <<file, done, loaded, home>>,
         contended \subseteq contended',
         \A c \in Calls : home[c] \notin contended' /\ (pc[c] \in ToNote \/ pc'[c] \in ToNote)
                             => pc'[c] = pc[c]
  PROVE  CInv'
  <1>1. CountTypes'
    BY DEF CInv, CountTypes
  <1>2. ASSUME NEW w \in Workspaces, w \notin contended' PROVE CountBooks(w)'
    BY <1>2, KeptBooks DEF CInv
  <1> QED BY <1>1, <1>2 DEF CInv

(* One call starts to note, or is through.                                  *)
LEMMA OneMorePending ==
  ASSUME NEW w \in Workspaces, NEW K \in {Stores, Removes}, NEW c \in K,
         IsFiniteSet(Pending(K, w)), home[c] = w, home' = home,
         pc[c] \notin ToNote, pc'[c] \in ToNote,
         \A d \in K \ {c} : pc'[d] = pc[d]
  PROVE  /\ IsFiniteSet(Pending(K, w)')
         /\ Cardinality(Pending(K, w)') = Cardinality(Pending(K, w)) + 1
         /\ Cardinality(Pending(K, w)) \in Nat
  <1>1. Pending(K, w)' = Pending(K, w) \cup {c} /\ c \notin Pending(K, w)
    BY DEF Pending
  <1> QED BY <1>1, FS_AddElement, FS_CardinalityType

LEMMA OneLessPending ==
  ASSUME NEW w \in Workspaces, NEW K \in {Stores, Removes}, NEW c \in K,
         IsFiniteSet(Pending(K, w)), home[c] = w, home' = home,
         pc[c] \in ToNote, pc'[c] \notin ToNote,
         \A d \in K \ {c} : pc'[d] = pc[d]
  PROVE  /\ IsFiniteSet(Pending(K, w)')
         /\ Cardinality(Pending(K, w)) = Cardinality(Pending(K, w)') + 1
         /\ Cardinality(Pending(K, w)') \in Nat
  <1>1. Pending(K, w)' = Pending(K, w) \ {c} /\ c \in Pending(K, w)
    BY DEF Pending
  <1>2. /\ IsFiniteSet(Pending(K, w) \ {c})
        /\ Cardinality(Pending(K, w) \ {c}) = Cardinality(Pending(K, w)) - 1
    BY <1>1, FS_RemoveElement
  <1> QED BY <1>1, <1>2, FS_CardinalityType

LEMMA OthersPending ==
  ASSUME NEW w \in Workspaces, NEW K \in {Stores, Removes}, home' = home,
         \A d \in K : pc'[d] = pc[d] \/ home[d] # w
                      \/ (pc[d] \in ToNote /\ pc'[d] \in ToNote)
  PROVE  Pending(K, w)' = Pending(K, w)
  BY DEF Pending

(* An operation on the table is counted in the history, and pending.        *)
LEMMA OperationCounts ==
  ASSUME IInv, CInv, NEW c \in Calls, NEW p \in {"adding", "deleting"},
         pc[c] = p, pc' = [pc EXCEPT ![c] = "recording"],
         done' = [done EXCEPT ![home[c]][IF c \in Stores THEN "writes" ELSE "removes"] = @ + 1],
         UNCHANGED <<file, home, loaded, contended>>
  PROVE  CInv'
  <1>0. PICK v \in Workspaces : v = home[c]
    BY DEF IInv, Types
  <1>1. /\ \A d \in Calls \ {c} : pc'[d] = pc[d]
        /\ pc'[c] = "recording" /\ pc[c] \notin ToNote /\ pc'[c] \in ToNote
    BY DEF IInv, Types, ToNote, Noting
  <1>2. /\ \A w \in Workspaces \ {v} : done'[w] = done[w]
        /\ c \in Stores => done'[v] = [done[v] EXCEPT !.writes = @ + 1]
        /\ c \notin Stores => done'[v] = [done[v] EXCEPT !.removes = @ + 1]
    BY <1>0 DEF CInv, CountTypes
  <1>3. CountTypes'
    <2>1. done'[v] \in Counts
      BY <1>2 DEF CInv, CountTypes, Counts
    <2>2. done' \in [Workspaces -> Counts]
      BY <1>0, <1>2, <2>1 DEF CInv, CountTypes
    <2> QED BY <2>2 DEF CInv, CountTypes
  <1>4. ASSUME NEW w \in Workspaces \ {v}, CountBooks(w) PROVE CountBooks(w)'
    BY <1>0, <1>1, <1>2, <1>4, KeptBooks
  <1>5. ASSUME CountBooks(v) PROVE CountBooks(v)'
    <2>1. Recording(v)' = Recording(v) /\ \A d \in Recording(v) : pc'[d] = pc[d]
      BY <1>1 DEF Recording
    <2>2. /\ done[v] \in Counts /\ \A d \in Calls : loaded[d] \in Counts
          /\ file[v] # Torn => file[v] \in Counts
      BY DEF CInv, CountTypes
    <2>3. c \in Stores \/ c \in Removes
      BY DEF Calls
    <2>4. IsFiniteSet(Pending(Stores, v)) /\ IsFiniteSet(Pending(Removes, v))
      BY <1>5 DEF CountBooks
    <2>5. Recording(v) \subseteq Calls
      BY DEF Recording
    <2>6. CASE c \in Stores
      <3>1. /\ IsFiniteSet(Pending(Stores, v)')
            /\ Cardinality(Pending(Stores, v)') = Cardinality(Pending(Stores, v)) + 1
            /\ Cardinality(Pending(Stores, v)) \in Nat
        BY <1>0, <1>1, <2>4, <2>6, OneMorePending DEF Calls
      <3>2. Pending(Removes, v)' = Pending(Removes, v)
        BY <1>1, <2>6, OthersPending, MemoryAssumption DEF Calls
      <3>3. /\ done'[v].writes = done[v].writes + 1 /\ done'[v].removes = done[v].removes
            /\ done[v].writes \in Nat
        BY <1>2, <2>2, <2>6 DEF Counts
      <3>4. \A s \in Counts : LacksPending(s, v) => LacksPending(s, v)'
        BY <3>1, <3>2, <3>3 DEF LacksPending, Counts
      <3> QED BY <1>5, <2>1, <2>2, <2>4, <2>5, <3>1, <3>2, <3>4 DEF CountBooks
    <2>7. CASE c \in Removes
      <3>0. c \notin Stores
        BY <2>7, MemoryAssumption
      <3>1. /\ IsFiniteSet(Pending(Removes, v)')
            /\ Cardinality(Pending(Removes, v)') = Cardinality(Pending(Removes, v)) + 1
            /\ Cardinality(Pending(Removes, v)) \in Nat
        BY <1>0, <1>1, <2>4, <2>7, OneMorePending DEF Calls
      <3>2. Pending(Stores, v)' = Pending(Stores, v)
        BY <1>1, <3>0, OthersPending DEF Calls
      <3>3. /\ done'[v].removes = done[v].removes + 1 /\ done'[v].writes = done[v].writes
            /\ done[v].removes \in Nat
        BY <1>2, <2>2, <3>0 DEF Counts
      <3>4. \A s \in Counts : LacksPending(s, v) => LacksPending(s, v)'
        BY <3>1, <3>2, <3>3 DEF LacksPending, Counts
      <3> QED BY <1>5, <2>1, <2>2, <2>4, <2>5, <3>1, <3>2, <3>4 DEF CountBooks
    <2> QED BY <2>3, <2>6, <2>7
  <1> QED BY <1>3, <1>4, <1>5 DEF CInv

(* The state is read: the copy lacks what the file lacks.                   *)
LEMMA ReadCounts == ASSUME IInv, CInv, NEW c \in Calls, ReadState(c) PROVE CInv'
  <1> USE DEF ReadState, Goes
  <1>0. PICK v \in Workspaces : v = home[c]
    BY DEF IInv, Types
  <1>1. /\ \A d \in Calls \ {c} : pc'[d] = pc[d] /\ loaded'[d] = loaded[d]
        /\ pc'[c] = "writing" /\ pc[c] = "recording" /\ loaded'[c] = Parsed(v)
        /\ UNCHANGED <<file, home, done>>
    BY <1>0 DEF IInv, Types, CInv, CountTypes
  <1>2. Parsed(v) \in Counts /\ (file[v] # Torn => Parsed(v) = file[v])
    BY TornIsNoCount DEF Parsed, CInv, CountTypes
  <1>3. CountTypes'
    BY <1>0, <1>1, <1>2 DEF CInv, CountTypes
  <1>4. ASSUME NEW w \in Workspaces \ {v}, CountBooks(w) PROVE CountBooks(w)'
    BY <1>0, <1>1, <1>4, KeptBooks
  <1>5. ASSUME v \notin contended', CountBooks(v) PROVE CountBooks(v)'
    <2>1. Recording(v) = {} /\ file[v] # Torn /\ LacksPending(file[v], v)
      BY <1>0, <1>5 DEF CountBooks
    <2>2. Recording(v)' = {c}
      BY <1>0, <1>1, <2>1 DEF Recording
    <2>3. Pending(Stores, v)' = Pending(Stores, v) /\ Pending(Removes, v)' = Pending(Removes, v)
      BY <1>1, OthersPending DEF Calls, ToNote, Noting
    <2>4. LacksPending(file[v], v)' /\ loaded'[c] = file[v] /\ pc'[c] # "truncated"
      BY <1>1, <1>2, <2>1, <2>3 DEF LacksPending
    <2>5. LacksPending(loaded[c], v)'
      BY <1>1, <2>4 DEF LacksPending
    <2> QED BY <1>1, <1>5, <2>1, <2>2, <2>3, <2>4, <2>5 DEF CountBooks
  <1> QED BY <1>3, <1>4, <1>5 DEF CInv

(* The file is torn; the copy is what counts.                               *)
LEMMA TruncateCounts == ASSUME IInv, CInv, NEW c \in Calls, Truncate(c) PROVE CInv'
  <1> USE DEF Truncate, Goes, history
  <1>0. PICK v \in Workspaces : v = home[c]
    BY DEF IInv, Types
  <1>1. /\ \A d \in Calls \ {c} : pc'[d] = pc[d]
        /\ pc'[c] = "truncated" /\ pc[c] = "writing"
        /\ UNCHANGED <<home, done, loaded, contended>>
        /\ file'[v] = Torn /\ \A w \in Workspaces \ {v} : file'[w] = file[w]
    BY <1>0 DEF IInv, Types, CInv, CountTypes
  <1>2. CountTypes'
    BY <1>0 DEF CInv, CountTypes
  <1>3. ASSUME NEW w \in Workspaces \ {v}, CountBooks(w) PROVE CountBooks(w)'
    BY <1>0, <1>1, <1>3, KeptBooks
  <1>4. ASSUME CountBooks(v) PROVE CountBooks(v)'
    <2>1. c \in Recording(v) /\ Recording(v) = {c}
      BY <1>0, <1>1, <1>4 DEF CountBooks, Recording
    <2>2. Recording(v)' = {c}
      BY <1>0, <1>1, <2>1 DEF Recording
    <2>3. Pending(Stores, v)' = Pending(Stores, v) /\ Pending(Removes, v)' = Pending(Removes, v)
      BY <1>1, OthersPending DEF Calls, ToNote, Noting
    <2>4. LacksPending(loaded[c], v)
      BY <1>4, <2>1 DEF CountBooks
    <2>5. LacksPending(loaded[c], v)'
      BY <1>1, <2>3, <2>4 DEF LacksPending
    <2> QED BY <1>1, <1>4, <2>2, <2>3, <2>5 DEF CountBooks
  <1> QED BY <1>2, <1>3, <1>4 DEF CInv

(* The copy is written back with one more.                                  *)
LEMMA WriteCounts == ASSUME IInv, CInv, NEW c \in Calls, WriteState(c) PROVE CInv'
  <1> USE DEF WriteState, Goes, history
  <1>0. PICK v \in Workspaces : v = home[c]
    BY DEF IInv, Types
  <1>1. /\ \A d \in Calls \ {c} : pc'[d] = pc[d]
        /\ pc'[c] = "ended" /\ pc[c] = "truncated"
        /\ UNCHANGED <<home, done, loaded, contended>>
        /\ \A w \in Workspaces \ {v} : file'[w] = file[w]
    BY <1>0 DEF IInv, Types, CInv, CountTypes
  <1>2. Recorded(c) \in Counts /\ loaded[c] \in Counts
    BY DEF Recorded, Counts, CInv, CountTypes
  <1>3. file'[v] = Recorded(c) \/ (file[v] # Torn /\ file'[v] = Torn)
    BY <1>0 DEF CInv, CountTypes
  <1>4. CountTypes'
    BY <1>0, <1>2 DEF CInv, CountTypes
  <1>5. ASSUME NEW w \in Workspaces \ {v}, CountBooks(w) PROVE CountBooks(w)'
    BY <1>0, <1>1, <1>5, KeptBooks
  <1>6. ASSUME CountBooks(v) PROVE CountBooks(v)'
    <2>1. Recording(v) = {c} /\ file[v] = Torn /\ LacksPending(loaded[c], v)
      BY <1>0, <1>1, <1>6 DEF CountBooks, Recording
    <2>2. Recording(v)' = {}
      BY <1>0, <1>1, <2>1 DEF Recording
    <2>3. file'[v] = Recorded(c) /\ file'[v] # Torn
      BY <1>2, <1>3, <2>1, TornIsNoCount
    <2>4. c \in Stores \/ c \in Removes
      BY DEF Calls
    <2>5. IsFiniteSet(Pending(Stores, v)) /\ IsFiniteSet(Pending(Removes, v))
      BY <1>6 DEF CountBooks
    <2>6. pc[c] \in ToNote /\ pc'[c] \notin ToNote
      BY <1>1 DEF ToNote, Noting
    <2>7. CASE c \in Stores
      <3>1. /\ IsFiniteSet(Pending(Stores, v)')
            /\ Cardinality(Pending(Stores, v)) = Cardinality(Pending(Stores, v)') + 1
            /\ Cardinality(Pending(Stores, v)') \in Nat
        BY <1>0, <1>1, <2>5, <2>6, <2>7, OneLessPending DEF Calls
      <3>2. Pending(Removes, v)' = Pending(Removes, v)
        BY <1>1, <2>7, OthersPending, MemoryAssumption DEF Calls
      <3>3. /\ file'[v].writes = loaded[c].writes + 1 /\ file'[v].removes = loaded[c].removes
            /\ loaded[c].writes \in Nat
        BY <1>2, <2>3, <2>7 DEF Counts, Recorded
      <3>4. LacksPending(file[v], v)'
        BY <1>1, <2>1, <3>1, <3>2, <3>3 DEF LacksPending
      <3> QED BY <2>2, <2>3, <2>5, <3>1, <3>2, <3>4 DEF CountBooks
    <2>8. CASE c \in Removes
      <3>0. c \notin Stores
        BY <2>8, MemoryAssumption
      <3>1. /\ IsFiniteSet(Pending(Removes, v)')
            /\ Cardinality(Pending(Removes, v)) = Cardinality(Pending(Removes, v)') + 1
            /\ Cardinality(Pending(Removes, v)') \in Nat
        BY <1>0, <1>1, <2>5, <2>6, <2>8, OneLessPending DEF Calls
      <3>2. Pending(Stores, v)' = Pending(Stores, v)
        BY <1>1, <3>0, OthersPending DEF Calls
      <3>3. /\ file'[v].removes = loaded[c].removes + 1 /\ file'[v].writes = loaded[c].writes
            /\ loaded[c].removes \in Nat
        BY <1>2, <2>3, <3>0 DEF Counts, Recorded
      <3>4. LacksPending(file[v], v)'
        BY <1>1, <2>1, <3>1, <3>2, <3>3 DEF LacksPending
      <3> QED BY <2>2, <2>3, <2>5, <3>1, <3>2, <3>4 DEF CountBooks
    <2> QED BY <2>4, <2>7, <2>8
  <1> QED BY <1>4, <1>5, <1>6 DEF CInv

(* Every other step leaves what is to be noted, or spoils its workspace.    *)
LEMMA CountsStep == IInv /\ CInv /\ [Next]_vars => CInv'
  <1> SUFFICES ASSUME IInv, CInv, [Next]_vars PROVE CInv'
    OBVIOUS
  <1>0. pc \in [Calls -> States] /\ Stores \subseteq Calls /\ Removes \subseteq Calls
    BY DEF IInv, Types, Calls
  <1>1. ASSUME NEW c \in Stores, Added(c) PROVE CInv'
    BY <1>0, <1>1, OperationCounts DEF Added, Goes, Counted
  <1>2. ASSUME NEW c \in Removes, Removed(c) PROVE CInv'
    <2>1. c \notin Stores
      BY MemoryAssumption
    <2>2. /\ pc[c] = "deleting" /\ pc' = [pc EXCEPT ![c] = "recording"]
          /\ done' = [done EXCEPT ![home[c]]["removes"] = @ + 1]
          /\ UNCHANGED <<file, home, loaded, contended>>
      BY <1>2 DEF Removed, Goes, Counted
    <2>3. done' = [done EXCEPT ![home[c]][IF c \in Stores THEN "writes" ELSE "removes"] = @ + 1]
      BY <2>1, <2>2
    <2>4. c \in Calls
      BY <1>0
    <2>5. "deleting" \in {"adding", "deleting"}
      OBVIOUS
    <2> QED BY <2>2, <2>3, <2>4, <2>5, OperationCounts
  <1>3. ASSUME NEW c \in Calls, ReadState(c) \/ Truncate(c) \/ WriteState(c) PROVE CInv'
    BY <1>3, ReadCounts, TruncateCounts, WriteCounts
  <1>4. ASSUME NEW c \in Calls, \/ Begin(c) \/ Embedded(c) \/ EmbeddingFails(c) \/ Searched(c)
                                \/ StartRemoval(c) \/ OperationFails(c)
        PROVE  CInv'
    <2>1. UNCHANGED <<file, done, loaded, home, contended>>
      BY <1>4 DEF Begin, Embedded, EmbeddingFails, Searched, StartRemoval, OperationFails, history
    <2>2. \A d \in Calls : pc[d] \in ToNote \/ pc'[d] \in ToNote => pc'[d] = pc[d]
      BY <1>0, <1>4 DEF Begin, Embedded, EmbeddingFails, Searched, StartRemoval, OperationFails,
                        Ensures, Initialized, Turns, Goes, ToNote, Noting
    <2> QED BY <2>1, <2>2, OtherStepsCount
  <1>5. ASSUME NEW c \in Calls, RecordingFails(c) PROVE CInv'
    <2>1. UNCHANGED <<file, done, loaded, home>> /\ contended' = contended \cup {home[c]}
      BY <1>5 DEF RecordingFails
    <2>2. \A d \in Calls \ {c} : pc'[d] = pc[d]
      BY <1>0, <1>5 DEF RecordingFails, Goes
    <2> QED BY <2>1, <2>2, OtherStepsCount
  <1>6. ASSUME NEW w \in Workspaces, CreateTable(w) \/ DeletePlaceholder(w) \/ OpenTable(w)
        PROVE  CInv'
    <2>1. UNCHANGED <<file, done, loaded, home, contended>>
      BY <1>6 DEF CreateTable, DeletePlaceholder, OpenTable, Opened, history
    <2>2. \A d \in Calls : pc[d] \in ToNote \/ pc'[d] \in ToNote => pc'[d] = pc[d]
      BY <1>0, <1>6 DEF CreateTable, DeletePlaceholder, OpenTable, Opened, Settles, Initialized,
                        ToNote, Noting
    <2> QED BY <2>1, <2>2, OtherStepsCount
  <1>7. CASE InitFails
    <2>1. UNCHANGED <<file, done, loaded, home, contended>>
      BY <1>7 DEF InitFails, history
    <2>2. \A d \in Calls : pc[d] \in ToNote \/ pc'[d] \in ToNote => pc'[d] = pc[d]
      BY <1>0, <1>7 DEF InitFails, Settles, ToNote, Noting
    <2> QED BY <2>1, <2>2, OtherStepsCount
  <1>8. CASE Restart
    <2>1. UNCHANGED <<file, done, loaded, home>> /\ contended \subseteq contended'
      BY <1>8 DEF Restart
    <2>2. \A d \in Calls : home[d] \notin contended' /\ (pc[d] \in ToNote \/ pc'[d] \in ToNote)
                              => pc'[d] = pc[d]
      BY <1>0, <1>8 DEF Restart, ToNote, Noting
    <2> QED BY <2>1, <2>2, OtherStepsCount
  <1>9. CASE UNCHANGED vars
    <2>1. UNCHANGED <<file, done, loaded, home, contended, pc>>
      BY <1>9 DEF vars, history
    <2> QED BY <2>1, OtherStepsCount
  <1>10. ASSUME NEW c \in Stores, Embedded(c) \/ EmbeddingFails(c) \/ Searched(c) \/ Added(c)
         PROVE  CInv'
    BY <1>0, <1>1, <1>4, <1>10
  <1>11. ASSUME NEW c \in Removes, StartRemoval(c) \/ Removed(c) PROVE CInv'
    BY <1>0, <1>2, <1>4, <1>11
  <1>12. ASSUME NEW c \in Calls, \/ Begin(c) \/ OperationFails(c) \/ ReadState(c)
                                 \/ Truncate(c) \/ WriteState(c) \/ RecordingFails(c)
         PROVE  CInv'
    BY <1>3, <1>4, <1>5, <1>12
  <1>13. CASE Next
    BY ONLY <1>13, <1>6, <1>7, <1>8, <1>10, <1>11, <1>12 DEF Next
  <1> QED BY ONLY [Next]_vars, <1>9, <1>13

LEMMA CountsInvariance == Spec => []CInv
  BY InitCounts, CountsStep, Invariance, PTL DEF Spec

(* When nobody is recording for a workspace, its state.json is exact: the   *)
(* counts are those of the rows added and the removals made, for any number *)
(* of calls, unless two recorded at once or one was cut off.                *)
THEOREM CountsAreExact == Spec => []CountsExact
  <1>1. CInv => CountsExact
    <2> SUFFICES ASSUME CInv, NEW w \in Workspaces, w \notin contended,
                        \A c \in Calls : home[c] = w =>
                            pc[c] \notin {"recording", "writing", "truncated"}
                 PROVE  file[w] = done[w]
      BY DEF CountsExact
    <2>1. Pending(Stores, w) = {} /\ Pending(Removes, w) = {} /\ Recording(w) = {}
      BY DEF Pending, Recording, ToNote, Noting, Calls
    <2>2. Cardinality({}) = 0
      BY FS_EmptySet
    <2>3. file[w] # Torn /\ LacksPending(file[w], w)
      BY <2>1 DEF CInv, CountBooks
    <2>4. file[w] \in Counts /\ done[w] \in Counts
      BY <2>3 DEF CInv, CountTypes
    <2>5. done[w].writes = file[w].writes /\ done[w].removes = file[w].removes
      BY <2>1, <2>2, <2>3, <2>4 DEF LacksPending, Counts
    <2> QED BY <2>4, <2>5 DEF Counts
  <1> QED BY <1>1, CountsInvariance, PTL
-----------------------------------------------------------------------------
(* What the two invariants say of the variables, and the rest of them.      *)
Bounded == contended \subseteq Workspaces /\ faults \in 0..MaxFaults
TypeOK  == Types /\ CountTypes /\ Bounded

LEMMA BoundedStep == ASSUME IInv, Bounded, [Next]_vars PROVE Bounded'
  <1>1. \A c \in Calls : home[c] \in Workspaces
    BY DEF IInv, Types
  <1>2. Fault => faults' \in 0..MaxFaults
    BY MemoryAssumption DEF Bounded, Fault
  <1>3. ASSUME NEW c \in Calls, ReadState(c) \/ RecordingFails(c)
        PROVE  Bounded'
    BY <1>1, <1>2, <1>3 DEF ReadState, RecordingFails, Bounded
  <1>4. CASE Restart
    BY <1>1, <1>2, <1>4 DEF Restart, Bounded
  <1>5. CASE UNCHANGED contended /\ (Fault \/ UNCHANGED faults)
    BY <1>2, <1>5 DEF Bounded
  <1>6. ASSUME NEW c \in Calls,
               \/ Embedded(c) \/ EmbeddingFails(c) \/ Searched(c) \/ Added(c)
               \/ StartRemoval(c) \/ Removed(c)
               \/ Begin(c) \/ OperationFails(c) \/ Truncate(c) \/ WriteState(c)
        PROVE  Bounded'
    BY <1>5, <1>6 DEF Embedded, EmbeddingFails, Searched, Added, StartRemoval, Removed,
       Begin, OperationFails, Truncate, WriteState, history
  <1>7. CASE InitFails \/ UNCHANGED vars
    BY <1>5, <1>7 DEF InitFails, vars, history
  <1>8. ASSUME NEW w \in Workspaces, CreateTable(w) \/ DeletePlaceholder(w) \/ OpenTable(w)
        PROVE  Bounded'
    BY <1>5, <1>8 DEF CreateTable, DeletePlaceholder, OpenTable, Opened, history
  <1>9. QED
    BY <1>3, <1>4, <1>6, <1>7, <1>8 DEF Next, Calls

(* Every variable keeps its type, whatever calls, connections, failures and *)
(* restarts overlap.                                                        *)
THEOREM TypeCorrect == Spec => []TypeOK
  <1>1. Init => Bounded
    BY MemoryAssumption DEF Init, Bounded
  <1>2. IInv /\ CInv /\ Bounded => TypeOK
    BY DEF IInv, CInv, TypeOK
  <1>3. IInv /\ Bounded /\ [Next]_vars => Bounded'
    BY BoundedStep
  <1>4. QED
    BY <1>1, <1>2, <1>3, Invariance, CountsInvariance, PTL DEF Spec
=============================================================================
