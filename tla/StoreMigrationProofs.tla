----------------------- MODULE StoreMigrationProofs -------------------------
(***************************************************************************)
(* The safety of StoreMigration for any number of processes, any releases  *)
(* and any rows.  The inductive invariant says what the lock holder's       *)
(* image owes to the committed file at every stage of the migration.       *)
(***************************************************************************)
EXTENDS StoreMigration, TLAPS

Indexed(d)   == /\ \A r \in d.rows : d.fts[r] = 4 \/ (d.fts[r] = 0 /\ r \in missed)
                /\ \A r \in Rows \ d.rows : d.fts[r] = 0
NoLegacy(d)  == (d.rows \cup d.typed) \cap LegacyRows = {}
ScopeFree(d) == d.rows \cap (CatalogRows \ LegacyRows) = {}

\* Before version 10 nothing wrote scoped catalog rows.
Unscoped == db.version < ScopedAt => ScopeFree(db)

\* A file with the content index has entries of that index, and of its rows only.
IndexWhole == db.version >= ContentAt => Indexed(db)

\* SQLite's write lock: only its holder is inside the transaction.
LockHeld == \A p \in Procs : pc[p] \in InTx => lock = p

\* The image starts as the committed file and keeps every usable row.
ImageOfFile == \A p \in Procs :
  /\ pc[p] = "reread" => tx = db
  /\ pc[p] \in InTx => db.rows \ LegacyRows \subseteq tx.rows

\* The version the gates test is the file's, and the binary supports it.
CurrentVersion == \A p \in Procs :
  /\ pc[p] \in Gated \cup {"commit"} => current = db.version /\ current <= Version[p]
  /\ pc[p] \in Gated => tx.version = current
  /\ pc[p] = "commit" => tx.version = Version[p]

\* What the image has gained by each stage.
TableStage == \A p \in Procs : pc[p] \in Gated \cup {"commit"} =>
  /\ current >= CompositeAt => tx.table = "composite"
  /\ Version[p] >= CompositeAt /\ pc[p] # "composite" => tx.table # "single"
  /\ Version[p] >= CompositeAt /\ pc[p] \in {"scoped", "content", "stamp", "commit"}
       => tx.table = "composite"

IndexStage == \A p \in Procs : pc[p] \in Gated \cup {"commit"} =>
  /\ current >= ContentAt => Indexed(tx)
  /\ Version[p] >= ContentAt /\ pc[p] \in {"stamp", "commit"} => Indexed(tx)

ScopeStage == \A p \in Procs : pc[p] \in Gated \cup {"commit"} =>
  /\ current < ScopedAt => ScopeFree(tx)
  /\ current >= ScopedAt => NoLegacy(tx)
  /\ Version[p] >= ScopedAt /\ pc[p] \in {"content", "stamp", "commit"} => NoLegacy(tx)

IInv == /\ TypeOK /\ OpenHandleSupported /\ StampMeansMigrated /\ Unscoped /\ IndexWhole
        /\ LockHeld /\ ImageOfFile /\ CurrentVersion
        /\ TableStage /\ IndexStage /\ ScopeStage

-----------------------------------------------------------------------------
(* Types.                                                                   *)

LEMMA LayoutType == \A v \in Nat : LayoutOf(v) \in Layouts /\ (v >= ContentAt => LayoutOf(v) = 4)
  BY DEF LayoutOf, Layouts, CompositeAt, ContentAt

\* A rebuilt index covers every row and leaves the rest of the file alone.
LEMMA Rebuilt ==
  ASSUME NEW d \in Database, NEW p \in Procs
  PROVE  /\ RebuildFTS(d, p) \in Database
         /\ RebuildFTS(d, p).rows = d.rows /\ RebuildFTS(d, p).typed = d.typed
         /\ RebuildFTS(d, p).table = d.table /\ RebuildFTS(d, p).version = d.version
         /\ Version[p] >= ContentAt => Indexed(RebuildFTS(d, p))
<1>1. Version[p] \in Nat
  BY VersionAssumption
<1>2. LayoutOf(Version[p]) \in Layouts /\ 0 \in Layouts
  BY <1>1, LayoutType DEF Layouts
<1>3. [r \in Rows |-> IF r \in d.rows THEN LayoutOf(Version[p]) ELSE 0] \in [Rows -> Layouts]
  BY <1>2
<1>4. d.rows \subseteq Rows
  BY DEF Database
<1>. QED
  BY <1>1, <1>2, <1>3, <1>4, LayoutType DEF RebuildFTS, Index, Database, Indexed

\* Every state is well typed.
LEMMA Typing == Spec => []TypeOK
<1>1. Init => TypeOK
  <2> SUFFICES ASSUME Init PROVE TypeOK
    OBVIOUS
  <2>1. db \in Database /\ tx \in Database
    BY DEF Init
  <2>2. db.version \in Versions
    BY <2>1 DEF Database
  <2>3. missed \subseteq Rows
    BY <2>1 DEF Init, Database
  <2> QED
    BY <2>1, <2>2, <2>3, MaxRestartsAssumption DEF Init, TypeOK, Stages
<1>2. TypeOK /\ [Next]_vars => TypeOK'
  <2> SUFFICES ASSUME TypeOK, [Next]_vars PROVE TypeOK'
    OBVIOUS
  <2> USE DEF TypeOK
  <2>1. CASE UNCHANGED vars
    BY <2>1 DEF vars
  <2>2. ASSUME NEW p \in Procs, PreRead(p) \/ Timeout(p) \/ Reopen(p) \/ Abort(p) \/ ReReadTooNew(p)
        PROVE  TypeOK'
    BY <2>2, MaxRestartsAssumption
    DEF PreRead, Timeout, Reopen, Abort, ReReadTooNew, Rollback, Goto, Stages, Settled, InTx
  <2>3. ASSUME NEW p \in Procs, BeginImmediate(p) \/ ReRead(p) \/ Commit(p)
        PROVE  TypeOK'
    <3>1. tx.version \in Versions
      BY DEF Database
    <3> QED
      BY <2>3, <3>1 DEF BeginImmediate, ReRead, Commit, Goto, Stages, Settled, InTx, Gated
  <2>4. ASSUME NEW p \in Procs, NEW from, NEW to \in Stages, NEW gate, NEW result,
               gate => result \in Database, Step(p, from, to, gate, result)
        PROVE  TypeOK'
    BY <2>4 DEF Step, Goto
  <2>5. \A s \in Gated \cup {"commit"} : s \in Stages
    BY DEF Stages, InTx
  <2>6. ASSUME NEW p \in Procs, MigrateResourcesCompositeKey(p) PROVE TypeOK'
    <3>1. [tx EXCEPT !.table = "composite"] \in Database
      BY DEF Database
    <3> QED
      BY <2>6, <2>4, <2>5, <3>1, Rebuilt DEF MigrateResourcesCompositeKey, Gated
  <2>7. ASSUME NEW p \in Procs, MigrateResourcesFTSRowIDs(p) PROVE TypeOK'
    BY <2>7, <2>4, <2>5, Rebuilt DEF MigrateResourcesFTSRowIDs, Gated
  <2>8. ASSUME NEW p \in Procs, CreateTables(p) PROVE TypeOK'
    <3>1. [tx EXCEPT !.table = IF Version[p] >= CompositeAt THEN "composite" ELSE "single"]
            \in Database
      BY DEF Database
    <3> QED
      BY <2>8, <2>4, <2>5, <3>1 DEF CreateTables, Gated
  <2>9. ASSUME NEW p \in Procs, MigrateAssistScopedCatalog(p) PROVE TypeOK'
    <3>1. [r \in Rows |-> IF r \in CatalogRows THEN 0 ELSE tx.fts[r]] \in [Rows -> Layouts]
      BY DEF Database, Layouts
    <3>2. [tx EXCEPT !.typed = @ \ LegacyRows, !.rows = @ \ LegacyRows,
                     !.fts = [r \in Rows |-> IF r \in CatalogRows THEN 0 ELSE @[r]],
                     !.catalogSynced = FALSE] \in Database
      BY <3>1 DEF Database
    <3> QED
      BY <2>9, <2>4, <2>5, <3>2 DEF MigrateAssistScopedCatalog, Gated
  <2>10. ASSUME NEW p \in Procs, MigrateResourcesFTSContent(p) PROVE TypeOK'
    BY <2>10, <2>4, <2>5, Rebuilt DEF MigrateResourcesFTSContent, Gated
  <2>11. ASSUME NEW p \in Procs, StampUserVersion(p) PROVE TypeOK'
    <3>1. [tx EXCEPT !.version = Version[p]] \in Database
      BY VersionAssumption DEF Database
    <3> QED
      BY <2>11, <2>4, <2>5, <3>1 DEF StampUserVersion, Gated
  <2>12. ASSUME NEW p \in Procs, NEW r \in Rows, Write(p, r) PROVE TypeOK'
    <3>a. Version[p] \in Nat
      BY VersionAssumption
    <3>0. Version[p] \in Nat /\ 0 \in Layouts
      BY <3>a DEF Layouts
    <3>1. LayoutOf(Version[p]) \in Layouts /\ 0 \in Layouts
      BY <3>0, LayoutType
    <3>2. PICK indexed \in BOOLEAN, cleared \in BOOLEAN, projected \in BOOLEAN :
            /\ db' = [db EXCEPT !.rows = @ \cup {r},
                                !.typed = IF projected THEN @ \cup {r} ELSE @,
                                !.fts[r] = IF indexed THEN LayoutOf(Version[p])
                                           ELSE IF cleared THEN 0 ELSE @,
                                !.catalogSynced = @ \/ r \in CatalogRows]
            /\ missed' = IF indexed THEN missed \ {r} ELSE missed \cup {r}
      BY <2>12 DEF Write
    <3>3. (IF indexed THEN LayoutOf(Version[p]) ELSE IF cleared THEN 0 ELSE db.fts[r]) \in Layouts
      BY <3>1 DEF Database
    <3>4. (db.catalogSynced \/ r \in CatalogRows) \in BOOLEAN
      OBVIOUS
    <3>5. db' \in Database
      BY <3>2, <3>3, <3>4 DEF Database
    <3> QED
      BY <2>12, <3>2, <3>5 DEF Write
  <2> QED
    BY <2>1, <2>2, <2>3, <2>6, <2>7, <2>8, <2>9, <2>10, <2>11, <2>12 DEF Next, Open
<1> QED
  BY <1>1, <1>2, PTL DEF Spec

-----------------------------------------------------------------------------
(* The invariant.                                                           *)

\* One gated rewrite: everything but the image and the stage is unchanged.
StepTo(p, from, to) ==
  /\ pc[p] = from
  /\ pc' = [pc EXCEPT ![p] = to]
  /\ UNCHANGED <<db, lock, current, restarts, missed>>

LEMMA InitIInv == Init => IInv
<1> SUFFICES ASSUME Init PROVE IInv
  OBVIOUS
<1>1. WellFormed(db) /\ db \in Database
  BY DEF Init
<1>2. \A p \in Procs : pc[p] = "preread"
  BY DEF Init
<1>3. \A p \in Procs : pc[p] \notin InTx /\ pc[p] # "open"
  BY <1>2 DEF InTx, Gated
<1>4. OpenHandleSupported /\ LockHeld /\ ImageOfFile /\ CurrentVersion
        /\ TableStage /\ IndexStage /\ ScopeStage
  BY <1>2, <1>3 DEF OpenHandleSupported, LockHeld, ImageOfFile, CurrentVersion,
                    TableStage, IndexStage, ScopeStage, InTx, Gated
<1>5. db.version \in Nat /\ db.rows \subseteq Rows
  BY <1>1, VersionAssumption DEF Database
<1>6. StampMeansMigrated /\ Unscoped /\ IndexWhole
  <2>0. db.version >= ContentAt => LayoutOf(db.version) = 4
    BY <1>5, LayoutType
  <2>1. IndexWhole
    BY <1>1, <1>5, <2>0 DEF IndexWhole, Indexed, WellFormed, Init
  <2>2. db.version >= ScopedAt => (db.rows \cup db.typed) \cap LegacyRows = {}
    BY <1>1 DEF WellFormed
  <2> QED
    BY <1>1, <2>1, <2>2 DEF StampMeansMigrated, Unscoped, ScopeFree, WellFormed, IndexWhole, Indexed
<1>7. TypeOK
  <2>1. db.version \in Versions
    BY <1>1 DEF Database
  <2>2. missed \subseteq Rows
    BY <1>5 DEF Init
  <2> QED
    BY <2>1, <2>2, <1>1, MaxRestartsAssumption DEF Init, TypeOK, Stages
<1> QED
  BY <1>4, <1>6, <1>7 DEF IInv

\* Steps outside the transaction, and those that begin or end one.
LEMMA OutsideSteps ==
  ASSUME IInv, TypeOK', NEW p \in Procs,
         \/ PreRead(p) \/ Timeout(p) \/ Reopen(p)
         \/ Abort(p) \/ ReReadTooNew(p) \/ BeginImmediate(p) \/ ReRead(p)
  PROVE  IInv'
<1> USE DEF IInv, TypeOK
<1>1. UNCHANGED db
  BY DEF PreRead, Timeout, Reopen, Abort, ReReadTooNew, BeginImmediate, ReRead, Rollback
<1>0. UNCHANGED missed
  BY DEF PreRead, Timeout, Reopen, Abort, ReReadTooNew, BeginImmediate, ReRead, Rollback
<1>2. StampMeansMigrated' /\ Unscoped' /\ IndexWhole'
  BY <1>0, <1>1 DEF StampMeansMigrated, Unscoped, ScopeFree, IndexWhole, Indexed
<1>3. db.version \in Nat /\ Version[p] \in Nat
  BY VersionAssumption DEF Database
<1>4. CASE PreRead(p) \/ Timeout(p) \/ Reopen(p) \/ Abort(p) \/ ReReadTooNew(p)
  <2>1. UNCHANGED <<db, tx, current>> /\ \E s \in Stages \ (InTx \cup {"open"}) : pc' = [pc EXCEPT ![p] = s]
    BY <1>4 DEF PreRead, Timeout, Reopen, Abort, ReReadTooNew, Rollback, Goto, Stages, InTx, Gated, Settled
  <2>2. PICK s \in Stages \ (InTx \cup {"open"}) : pc' = [pc EXCEPT ![p] = s]
    BY <2>1
  <2>3. LockHeld'
    <3>1. lock' = lock \/ (lock = p /\ lock' = NoProc)
      BY <1>4 DEF PreRead, Timeout, Reopen, Abort, ReReadTooNew, Rollback, LockHeld, InTx
    <3> QED
      BY <2>2, <3>1 DEF LockHeld
  <2>4. \A q \in Procs : pc'[q] \in InTx \cup {"open"} => pc'[q] = pc[q]
    BY <2>2
  <2>5. OpenHandleSupported' /\ ImageOfFile' /\ CurrentVersion'
    BY <2>1, <2>4 DEF OpenHandleSupported, ImageOfFile, CurrentVersion, InTx
  <2>6. TableStage' /\ IndexStage' /\ ScopeStage'
    BY <1>0, <2>1, <2>4 DEF TableStage, IndexStage, ScopeStage, InTx, Indexed, ScopeFree, NoLegacy
  <2> QED
    BY <1>2, <2>3, <2>5, <2>6
<1>5. CASE BeginImmediate(p)
  <2>1. lock = NoProc /\ lock' = p /\ tx' = db /\ pc' = [pc EXCEPT ![p] = "reread"]
    BY <1>5 DEF BeginImmediate, Goto
  <2>2. \A q \in Procs : q # p => pc'[q] \notin InTx
    BY <2>1, NoProcAssumption DEF LockHeld
  <2>3. pc'[p] = "reread"
    BY <2>1
  <2>4. LockHeld' /\ ImageOfFile'
    BY <1>1, <2>1, <2>2, <2>3 DEF LockHeld, ImageOfFile, InTx
  <2>5. \A q \in Procs : pc'[q] \notin Gated \cup {"commit"}
    BY <2>2, <2>3 DEF InTx, Gated
  <2>6. OpenHandleSupported'
    BY <1>1, <2>1 DEF OpenHandleSupported
  <2> QED
    BY <1>2, <2>4, <2>5, <2>6 DEF CurrentVersion, TableStage, IndexStage, ScopeStage
<1>6. CASE ReRead(p)
  <2>1. /\ pc[p] = "reread" /\ tx = db /\ tx.version <= Version[p] /\ current' = tx.version
        /\ pc' = [pc EXCEPT ![p] = "composite"] /\ UNCHANGED <<tx, lock>>
    BY <1>6 DEF ReRead, Goto, ImageOfFile
  <2>2. \A q \in Procs : q # p => pc'[q] = pc[q] /\ pc'[q] \notin InTx
    BY <2>1, NoProcAssumption DEF LockHeld, InTx
  <2>3. pc'[p] = "composite"
    BY <2>1
  <2>4. LockHeld' /\ ImageOfFile' /\ OpenHandleSupported'
    BY <1>1, <2>1, <2>2, <2>3 DEF LockHeld, ImageOfFile, OpenHandleSupported, InTx, Gated
  <2>5. CurrentVersion'
    BY <1>1, <2>1, <2>2, <2>3 DEF CurrentVersion, InTx, Gated
  <2>6. TableStage' /\ IndexStage' /\ ScopeStage'
    BY <1>0, <1>1, <1>3, <2>1, <2>2, <2>3
    DEF TableStage, IndexStage, ScopeStage, InTx, Gated, StampMeansMigrated, Unscoped, IndexWhole,
        Indexed, NoLegacy, CompositeAt, ContentAt, ScopedAt
  <2> QED
    BY <1>2, <2>4, <2>5, <2>6
<1> QED
  BY <1>4, <1>5, <1>6

\* One gated rewrite p makes inside the transaction.
LEMMA GatedStep ==
  ASSUME IInv, TypeOK', NEW p \in Procs, NEW from \in Gated,
         NEW to \in (Gated \ {"composite"}) \cup {"commit"},
         StepTo(p, from, to),
         db.rows \ LegacyRows \subseteq tx'.rows,
         tx'.version = IF to = "commit" THEN Version[p] ELSE tx.version,
         current >= CompositeAt => tx'.table = "composite",
         Version[p] >= CompositeAt => tx'.table # "single",
         Version[p] >= CompositeAt /\ to \in {"scoped", "content", "stamp", "commit"}
           => tx'.table = "composite",
         current >= ContentAt => Indexed(tx'),
         Version[p] >= ContentAt /\ to \in {"stamp", "commit"} => Indexed(tx'),
         current < ScopedAt => ScopeFree(tx'),
         current >= ScopedAt => NoLegacy(tx'),
         Version[p] >= ScopedAt /\ to \in {"content", "stamp", "commit"} => NoLegacy(tx')
  PROVE  IInv'
<1> USE DEF IInv, StepTo
<1>1. StampMeansMigrated' /\ Unscoped' /\ IndexWhole'
  BY DEF StampMeansMigrated, Unscoped, ScopeFree, IndexWhole, Indexed
<1>2. \A q \in Procs : q # p => pc'[q] = pc[q] /\ pc'[q] \notin InTx
  BY NoProcAssumption DEF LockHeld, InTx, TypeOK
<1>3. pc'[p] = to /\ to \in InTx /\ to # "reread" /\ to # "open"
  BY DEF TypeOK, InTx, Gated
<1>4. LockHeld' /\ ImageOfFile' /\ OpenHandleSupported'
  BY <1>2, <1>3 DEF LockHeld, ImageOfFile, OpenHandleSupported, InTx
<1>5. CurrentVersion'
  BY <1>2, <1>3 DEF CurrentVersion, InTx, Gated
<1>6. TableStage'
  BY <1>2, <1>3 DEF TableStage, InTx, Gated
<1>7. IndexStage'
  BY <1>2, <1>3 DEF IndexStage, InTx, Indexed, Gated
<1>8. ScopeStage'
  BY <1>2, <1>3 DEF ScopeStage, InTx, ScopeFree, NoLegacy, Gated
<1> QED
  BY <1>1, <1>4, <1>5, <1>6, <1>7, <1>8

\* Facts every gated step starts from.
LEMMA InsideFacts ==
  ASSUME IInv, NEW p \in Procs, pc[p] \in Gated
  PROVE  /\ Version[p] \in Nat /\ current \in Nat /\ current <= Version[p]
         /\ tx.version = current /\ tx \in Database
         /\ db.rows \ LegacyRows \subseteq tx.rows
         /\ (current >= CompositeAt => tx.table = "composite")
         /\ (current >= ContentAt => Indexed(tx))
         /\ (current < ScopedAt => ScopeFree(tx))
         /\ (current >= ScopedAt => NoLegacy(tx))
  BY VersionAssumption
  DEF IInv, TypeOK, CurrentVersion, ImageOfFile, TableStage, IndexStage, ScopeStage, InTx, Database

\* A step that leaves the image alone or rebuilds its index.
LEMMA RebuildOrSkip ==
  ASSUME NEW p \in Procs, tx \in Database, NEW d \in Database,
         d.rows = tx.rows, d.typed = tx.typed, tx' = RebuildFTS(d, p)
  PROVE  /\ tx'.rows = tx.rows /\ tx'.typed = tx.typed
         /\ tx'.table = d.table /\ tx'.version = d.version
         /\ Version[p] >= ContentAt => Indexed(tx')
         /\ ScopeFree(tx) => ScopeFree(tx')
         /\ NoLegacy(tx) => NoLegacy(tx')
  BY Rebuilt DEF ScopeFree, NoLegacy

LEMMA CompositeKeyStep ==
  ASSUME IInv, TypeOK', NEW p \in Procs, MigrateResourcesCompositeKey(p)
  PROVE  IInv'
<1>1. pc[p] = "composite" /\ StepTo(p, "composite", "rowids")
  BY DEF MigrateResourcesCompositeKey, Step, StepTo, Goto
<1>2. pc[p] \in Gated
  BY <1>1 DEF Gated
<1> DEFINE gate == Version[p] >= CompositeAt /\ current < CompositeAt /\ tx.table # "absent"
           d == [tx EXCEPT !.table = "composite"]
<1>3. tx' = IF gate THEN RebuildFTS(d, p) ELSE tx
  BY DEF MigrateResourcesCompositeKey, Step
<1>4. tx \in Database /\ d \in Database /\ d.rows = tx.rows /\ d.typed = tx.typed
        /\ d.table = "composite" /\ d.version = tx.version
  BY <1>2, InsideFacts DEF Database
<1> HIDE DEF d
<1>5. CASE gate
  <2>1. /\ tx'.rows = tx.rows /\ tx'.typed = tx.typed
        /\ tx'.table = "composite" /\ tx'.version = tx.version
        /\ Version[p] >= ContentAt => Indexed(tx')
        /\ ScopeFree(tx) => ScopeFree(tx')
        /\ NoLegacy(tx) => NoLegacy(tx')
    BY <1>3, <1>4, <1>5, RebuildOrSkip
  <2>2. ~(current >= ContentAt)
    BY <1>2, <1>5, InsideFacts DEF CompositeAt, ContentAt
  <2> QED
    BY <1>1, <1>2, <2>1, <2>2, InsideFacts, GatedStep DEF Gated
<1>6. CASE ~gate
  <2>1. Version[p] >= CompositeAt => tx.table # "single"
    BY <1>2, <1>6, InsideFacts DEF CompositeAt
  <2>2. tx' = tx
    BY <1>3, <1>6
  <2> QED
    BY <1>1, <1>2, <2>1, <2>2, InsideFacts, GatedStep DEF Gated
<1> QED
  BY <1>5, <1>6

LEMMA RowIDsStep ==
  ASSUME IInv, TypeOK', NEW p \in Procs, MigrateResourcesFTSRowIDs(p)
  PROVE  IInv'
<1>1. pc[p] = "rowids" /\ StepTo(p, "rowids", "tables")
  BY DEF MigrateResourcesFTSRowIDs, Step, StepTo, Goto
<1>2. pc[p] \in Gated
  BY <1>1 DEF Gated
<1> DEFINE gate == Version[p] > CompositeAt /\ current = CompositeAt /\ tx.table # "absent"
<1>3. tx' = IF gate THEN RebuildFTS(tx, p) ELSE tx
  BY DEF MigrateResourcesFTSRowIDs, Step
<1>4. Version[p] >= CompositeAt => tx.table # "single"
  BY <1>1 DEF IInv, TableStage, Gated
<1>5. CASE gate
  <2>1. /\ tx'.rows = tx.rows /\ tx'.typed = tx.typed
        /\ tx'.table = tx.table /\ tx'.version = tx.version
        /\ Version[p] >= ContentAt => Indexed(tx')
        /\ ScopeFree(tx) => ScopeFree(tx')
        /\ NoLegacy(tx) => NoLegacy(tx')
    BY <1>2, <1>3, <1>5, InsideFacts, RebuildOrSkip
  <2>2. ~(current >= ContentAt)
    BY <1>5 DEF CompositeAt, ContentAt
  <2> QED
    BY <1>1, <1>2, <1>4, <2>1, <2>2, InsideFacts, GatedStep DEF Gated
<1>6. CASE ~gate
  <2>1. tx' = tx
    BY <1>3, <1>6
  <2> QED
    BY <1>1, <1>2, <1>4, <2>1, InsideFacts, GatedStep DEF Gated
<1> QED
  BY <1>5, <1>6

LEMMA CreateTablesStep ==
  ASSUME IInv, TypeOK', NEW p \in Procs, CreateTables(p)
  PROVE  IInv'
<1>1. pc[p] = "tables" /\ StepTo(p, "tables", "scoped")
  BY DEF CreateTables, Step, StepTo, Goto
<1>2. pc[p] \in Gated
  BY <1>1 DEF Gated
<1>3. Version[p] >= CompositeAt => tx.table # "single"
  BY <1>1 DEF IInv, TableStage, Gated
<1>4. /\ tx'.rows = tx.rows /\ tx'.typed = tx.typed /\ tx'.fts = tx.fts
      /\ tx'.version = tx.version
      /\ tx'.table = IF tx.table # "absent" THEN tx.table
                     ELSE IF Version[p] >= CompositeAt THEN "composite" ELSE "single"
  BY <1>2, InsideFacts DEF CreateTables, Step, Database
<1>5. /\ Indexed(tx) => Indexed(tx')
      /\ ScopeFree(tx) => ScopeFree(tx')
      /\ NoLegacy(tx) => NoLegacy(tx')
  BY <1>4 DEF Indexed, ScopeFree, NoLegacy
<1>6. tx.table \in {"absent", "single", "composite"}
  BY <1>2, InsideFacts DEF Database
<1>7. /\ Version[p] >= CompositeAt => tx'.table = "composite"
      /\ current >= CompositeAt => tx'.table = "composite"
  BY <1>2, <1>3, <1>4, <1>6, InsideFacts
<1> QED
  BY <1>1, <1>2, <1>4, <1>5, <1>7, InsideFacts, GatedStep DEF Gated

LEMMA ScopedCatalogStep ==
  ASSUME IInv, TypeOK', NEW p \in Procs, MigrateAssistScopedCatalog(p)
  PROVE  IInv'
<1>1. pc[p] = "scoped" /\ StepTo(p, "scoped", "content")
  BY DEF MigrateAssistScopedCatalog, Step, StepTo, Goto
<1>2. pc[p] \in Gated
  BY <1>1 DEF Gated
<1> DEFINE gate == Version[p] >= ScopedAt /\ current < ScopedAt
<1>3. Version[p] >= CompositeAt => tx.table = "composite"
  BY <1>1 DEF IInv, TableStage, Gated
<1>4. CASE gate
  <2>1. /\ tx'.rows = tx.rows \ LegacyRows /\ tx'.typed = tx.typed \ LegacyRows
        /\ tx'.version = tx.version /\ tx'.table = tx.table
        /\ tx'.fts = [r \in Rows |-> IF r \in CatalogRows THEN 0 ELSE tx.fts[r]]
    BY <1>2, <1>4, InsideFacts DEF MigrateAssistScopedCatalog, Step, Database
  <2>2. NoLegacy(tx')
    BY <2>1 DEF NoLegacy
  <2>3. ScopeFree(tx')
    BY <1>2, <1>4, <2>1, InsideFacts DEF ScopeFree
  <2>4. current >= ContentAt => Indexed(tx')
    <3>1. tx.rows \subseteq Rows
      BY <1>2, InsideFacts DEF Database
    <3>2. \A r \in tx'.rows : r \in Rows /\ r \notin CatalogRows /\ r \in tx.rows
      BY <2>1, <2>3, <3>1 DEF ScopeFree
    <3>3. \A r \in Rows \ tx'.rows : tx'.fts[r] = 0 \/ r \notin tx.rows
      BY <2>1, RowsAssumption
    <3>4. current >= ContentAt => Indexed(tx)
      BY <1>2, InsideFacts
    <3>5. \A r \in Rows : tx'.fts[r] = 0 \/ (tx'.fts[r] = tx.fts[r] /\ r \notin CatalogRows)
      BY <2>1
    <3>6. \A r \in tx'.rows : tx'.fts[r] = tx.fts[r] /\ r \in tx.rows
      BY <2>1, <3>2
    <3>7. SUFFICES ASSUME current >= ContentAt PROVE Indexed(tx')
      OBVIOUS
    <3>8. \A r \in tx'.rows : tx'.fts[r] = 4 \/ (tx'.fts[r] = 0 /\ r \in missed)
      BY <3>4, <3>6, <3>7 DEF Indexed
    <3>9. \A r \in Rows \ tx'.rows : tx'.fts[r] = 0
      BY <3>3, <3>4, <3>5, <3>7 DEF Indexed
    <3> QED
      BY <3>8, <3>9 DEF Indexed
  <2>5. db.rows \ LegacyRows \subseteq tx'.rows
    BY <1>2, <2>1, InsideFacts
  <2> QED
    BY <1>1, <1>2, <1>3, <1>4, <2>1, <2>2, <2>3, <2>4, <2>5, InsideFacts, GatedStep DEF Gated
<1>5. CASE ~gate
  <2>1. tx' = tx
    BY <1>5 DEF MigrateAssistScopedCatalog, Step
  <2>2. Version[p] >= ScopedAt => NoLegacy(tx)
    BY <1>2, <1>5, InsideFacts DEF ScopedAt
  <2> QED
    BY <1>1, <1>2, <1>3, <2>1, <2>2, InsideFacts, GatedStep DEF Gated
<1> QED
  BY <1>4, <1>5

LEMMA FTSContentStep ==
  ASSUME IInv, TypeOK', NEW p \in Procs, MigrateResourcesFTSContent(p)
  PROVE  IInv'
<1>1. pc[p] = "content" /\ StepTo(p, "content", "stamp")
  BY DEF MigrateResourcesFTSContent, Step, StepTo, Goto
<1>2. pc[p] \in Gated
  BY <1>1 DEF Gated
<1> DEFINE gate == Version[p] >= ContentAt /\ current < ContentAt
<1>3. tx' = IF gate THEN RebuildFTS(tx, p) ELSE tx
  BY DEF MigrateResourcesFTSContent, Step
<1>4. /\ Version[p] >= CompositeAt => tx.table = "composite"
      /\ Version[p] >= ScopedAt => NoLegacy(tx)
  BY <1>1 DEF IInv, TableStage, ScopeStage, Gated
<1>5. CASE gate
  <2>1. /\ tx'.rows = tx.rows /\ tx'.typed = tx.typed
        /\ tx'.table = tx.table /\ tx'.version = tx.version
        /\ Indexed(tx')
        /\ ScopeFree(tx) => ScopeFree(tx')
        /\ NoLegacy(tx) => NoLegacy(tx')
    BY <1>2, <1>3, <1>5, InsideFacts, RebuildOrSkip
  <2> QED
    BY <1>1, <1>2, <1>4, <2>1, InsideFacts, GatedStep DEF Gated
<1>6. CASE ~gate
  <2>1. tx' = tx
    BY <1>3, <1>6
  <2>2. Version[p] >= ContentAt => Indexed(tx)
    BY <1>2, <1>6, InsideFacts DEF ContentAt
  <2> QED
    BY <1>1, <1>2, <1>4, <2>1, <2>2, InsideFacts, GatedStep DEF Gated
<1> QED
  BY <1>5, <1>6

LEMMA StampStep ==
  ASSUME IInv, TypeOK', NEW p \in Procs, StampUserVersion(p)
  PROVE  IInv'
<1>1. pc[p] = "stamp" /\ StepTo(p, "stamp", "commit")
  BY DEF StampUserVersion, Step, StepTo, Goto
<1>2. pc[p] \in Gated
  BY <1>1 DEF Gated
<1>3. /\ tx'.rows = tx.rows /\ tx'.typed = tx.typed /\ tx'.fts = tx.fts
      /\ tx'.table = tx.table /\ tx'.version = Version[p]
  BY <1>2, InsideFacts DEF StampUserVersion, Step, Database
<1>4. /\ Version[p] >= CompositeAt => tx.table = "composite"
      /\ Version[p] >= ContentAt => Indexed(tx)
      /\ Version[p] >= ScopedAt => NoLegacy(tx)
  BY <1>1 DEF IInv, TableStage, IndexStage, ScopeStage, Gated
<1>5. /\ Indexed(tx) => Indexed(tx')
      /\ ScopeFree(tx) => ScopeFree(tx')
      /\ NoLegacy(tx) => NoLegacy(tx')
  BY <1>3 DEF Indexed, ScopeFree, NoLegacy
<1> QED
  BY <1>1, <1>2, <1>3, <1>4, <1>5, InsideFacts, GatedStep DEF Gated

\* Publishing the image: its stamp is the highest version any open handle has.
LEMMA CommitStep ==
  ASSUME IInv, TypeOK', NEW p \in Procs, Commit(p)
  PROVE  IInv' /\ db'.version >= db.version /\ db.rows \ LegacyRows \subseteq db'.rows
<1> USE DEF IInv, TypeOK
<1>1. /\ pc[p] = "commit" /\ db' = tx /\ tx' = tx /\ current' = current /\ lock' = NoProc
      /\ pc' = [pc EXCEPT ![p] = "open"]
  BY DEF Commit, Goto
<1>2. /\ Version[p] \in Nat /\ db.version \in Nat /\ db.version <= Version[p]
      /\ tx.version = Version[p] /\ current = db.version
  BY <1>1, VersionAssumption DEF CurrentVersion, Database
<1>3. db.rows \ LegacyRows \subseteq db'.rows
  BY <1>1 DEF ImageOfFile, InTx
<1>4. \A q \in Procs : pc'[q] \notin InTx /\ (q # p => pc'[q] = pc[q])
  BY <1>1, NoProcAssumption DEF LockHeld, InTx, Gated
<1>5. LockHeld' /\ ImageOfFile' /\ CurrentVersion' /\ TableStage' /\ IndexStage' /\ ScopeStage'
  BY <1>4 DEF LockHeld, ImageOfFile, CurrentVersion, TableStage, IndexStage, ScopeStage, InTx
<1>6. OpenHandleSupported'
  <2> SUFFICES ASSUME NEW q \in Procs, pc'[q] = "open" PROVE tx.version >= Version[q]
    BY <1>1 DEF OpenHandleSupported
  <2>1. Version[q] \in Nat
    BY VersionAssumption
  <2> QED
    BY <1>2, <1>4, <2>1 DEF OpenHandleSupported
<1>0. UNCHANGED missed
  BY DEF Commit
<1>7. StampMeansMigrated' /\ IndexWhole'
  BY <1>0, <1>1, <1>2 DEF StampMeansMigrated, IndexWhole, TableStage, IndexStage, ScopeStage, Indexed, NoLegacy
<1>8. Unscoped'
  <2>1. tx.version < ScopedAt => current < ScopedAt
    BY <1>2 DEF ScopedAt
  <2> QED
    BY <1>1, <2>1 DEF Unscoped, ScopeStage, ScopeFree
<1> QED
  BY <1>1, <1>2, <1>3, <1>5, <1>6, <1>7, <1>8

\* What a stored row changes of the file, however its inserts end.
LEMMA WriteFile ==
  ASSUME IInv, NEW p \in Procs, NEW r \in Rows, Write(p, r)
  PROVE  /\ pc[p] = "open" /\ Version[p] >= ScopedAt /\ lock = NoProc /\ r \notin LegacyRows
         /\ UNCHANGED <<tx, lock, current, pc, restarts>>
         /\ db'.version = db.version /\ db'.table = db.table
         /\ db'.rows = db.rows \cup {r}
         /\ db'.typed = db.typed \/ db'.typed = db.typed \cup {r}
         /\ \E entry \in {4, db.fts[r], 0} :
              /\ db'.fts = [db.fts EXCEPT ![r] = entry]
              /\ r \in missed' \/ entry = 4
         /\ \A s \in Rows : s # r => (s \in missed' <=> s \in missed)
         /\ missed' \subseteq Rows
<1> USE DEF IInv, TypeOK
<1>1. /\ pc[p] = "open" /\ Version[p] >= ScopedAt /\ lock = NoProc /\ r \notin LegacyRows
      /\ UNCHANGED <<tx, lock, current, pc, restarts>>
  BY DEF Write
<1>0. Version[p] \in Nat
  BY VersionAssumption
<1>2. LayoutOf(Version[p]) = 4
  BY <1>0, <1>1, LayoutType DEF ScopedAt, ContentAt
<1>3. PICK indexed \in BOOLEAN, cleared \in BOOLEAN, projected \in BOOLEAN :
        /\ db' = [db EXCEPT !.rows = @ \cup {r},
                            !.typed = IF projected THEN @ \cup {r} ELSE @,
                            !.fts[r] = IF indexed THEN LayoutOf(Version[p])
                                       ELSE IF cleared THEN 0 ELSE @,
                            !.catalogSynced = @ \/ r \in CatalogRows]
        /\ missed' = IF indexed THEN missed \ {r} ELSE missed \cup {r}
  BY DEF Write
<1> DEFINE entry == IF indexed THEN 4 ELSE IF cleared THEN 0 ELSE db.fts[r]
<1>4. db'.fts = [db.fts EXCEPT ![r] = entry]
  BY <1>2, <1>3 DEF Database
<1>5. entry \in {4, db.fts[r], 0} /\ (r \in missed' \/ entry = 4)
  BY <1>3
<1>6. /\ db'.version = db.version /\ db'.table = db.table
      /\ db'.rows = db.rows \cup {r}
      /\ db'.typed = db.typed \/ db'.typed = db.typed \cup {r}
  BY <1>3 DEF Database
<1>7. (\A s \in Rows : s # r => (s \in missed' <=> s \in missed)) /\ missed' \subseteq Rows
  BY <1>3
<1> HIDE DEF entry
<1> QED
  BY <1>1, <1>4, <1>5, <1>6, <1>7

LEMMA WriteStep ==
  ASSUME IInv, TypeOK', NEW p \in Procs, NEW r \in Rows, Write(p, r)
  PROVE  IInv' /\ db'.version = db.version /\ db.rows \subseteq db'.rows
<1> USE DEF IInv, TypeOK
<1>1. /\ pc[p] = "open" /\ Version[p] >= ScopedAt /\ lock = NoProc /\ r \notin LegacyRows
      /\ UNCHANGED <<tx, lock, current, pc, restarts>>
      /\ db'.version = db.version /\ db'.table = db.table /\ db'.rows = db.rows \cup {r}
      /\ db'.typed = db.typed \/ db'.typed = db.typed \cup {r}
      /\ \A s \in Rows : s # r => (s \in missed' <=> s \in missed)
  BY WriteFile
<1>2. Version[p] \in Nat /\ db.version \in Nat
  BY VersionAssumption DEF Database
<1>3. db.version >= ScopedAt
  BY <1>1, <1>2 DEF OpenHandleSupported, ScopedAt
<1>4. PICK entry \in {4, db.fts[r], 0} :
        db'.fts = [db.fts EXCEPT ![r] = entry] /\ (r \in missed' \/ entry = 4)
  BY WriteFile
<1>6. StampMeansMigrated' /\ IndexWhole'
  <2>0. db.rows \subseteq Rows /\ db.fts \in [Rows -> Layouts]
    BY DEF Database
  <2>1. db.version >= ContentAt
    BY <1>2, <1>3 DEF ScopedAt, ContentAt
  <2>2. \A s \in db.rows \ {r} : db'.fts[s] = 4 \/ (db'.fts[s] = 0 /\ s \in missed')
    BY <1>1, <1>4, <2>0, <2>1 DEF StampMeansMigrated
  <2>3. db'.fts[r] = 4 \/ (db'.fts[r] = 0 /\ r \in missed')
    <3>1. db'.fts[r] = entry
      BY <1>4, <2>0
    <3>2. entry \in {0, 4}
      <4>1. r \in db.rows => db.fts[r] \in {0, 4}
        BY <2>1 DEF StampMeansMigrated
      <4>2. r \notin db.rows => db.fts[r] = 0
        BY <2>1 DEF IndexWhole, Indexed
      <4> QED
        BY <1>4, <4>1, <4>2
    <3> QED
      BY <1>4, <3>1, <3>2
  <2>4. \A s \in Rows \ db'.rows : db'.fts[s] = 0
    BY <1>1, <1>4, <2>0, <2>1 DEF IndexWhole, Indexed
  <2> QED
    BY <1>1, <1>3, <2>2, <2>3, <2>4 DEF StampMeansMigrated, IndexWhole, Indexed
<1>7. \A q \in Procs : pc[q] \notin InTx
  BY <1>1, NoProcAssumption DEF LockHeld
<1>8. LockHeld' /\ ImageOfFile' /\ CurrentVersion' /\ TableStage' /\ IndexStage' /\ ScopeStage'
  BY <1>1, <1>7 DEF LockHeld, ImageOfFile, CurrentVersion, TableStage, IndexStage, ScopeStage, InTx
<1>9. OpenHandleSupported' /\ Unscoped'
  BY <1>1, <1>2, <1>3 DEF OpenHandleSupported, Unscoped, ScopedAt
<1> QED
  BY <1>1, <1>6, <1>8, <1>9

LEMMA StutterStep == IInv /\ UNCHANGED vars => IInv'
  BY DEF vars, IInv, TypeOK, OpenHandleSupported, StampMeansMigrated, Unscoped, IndexWhole, LockHeld,
         ImageOfFile, CurrentVersion, TableStage, IndexStage, ScopeStage,
         Indexed, NoLegacy, ScopeFree

\* Every step keeps the invariant, the stamp and the usable rows.
LEMMA NextStep ==
  ASSUME IInv, TypeOK', [Next]_vars
  PROVE  IInv' /\ db'.version >= db.version /\ db.rows \ LegacyRows \subseteq db'.rows
<1>1. db.version \in Nat
  BY VersionAssumption DEF IInv, TypeOK, Database
<1>2. CASE UNCHANGED vars
  BY <1>1, <1>2, StutterStep DEF vars
<1>3. ASSUME NEW p \in Procs, Commit(p)
      PROVE  IInv' /\ db'.version >= db.version /\ db.rows \ LegacyRows \subseteq db'.rows
  BY <1>3, CommitStep
<1>4. ASSUME NEW p \in Procs, NEW r \in Rows, Write(p, r)
      PROVE  IInv' /\ db'.version >= db.version /\ db.rows \ LegacyRows \subseteq db'.rows
  BY <1>1, <1>4, WriteStep
<1>5. ASSUME NEW p \in Procs,
             \/ PreRead(p) \/ Timeout(p) \/ Reopen(p) \/ Abort(p)
             \/ ReReadTooNew(p) \/ BeginImmediate(p) \/ ReRead(p)
      PROVE  IInv' /\ UNCHANGED db
  <2>1. UNCHANGED db
    BY <1>5 DEF PreRead, Timeout, Reopen, Abort, ReReadTooNew, BeginImmediate, ReRead, Rollback
  <2> QED
    BY <1>5, <2>1, OutsideSteps
<1>6. ASSUME NEW p \in Procs,
             \/ MigrateResourcesCompositeKey(p) \/ MigrateResourcesFTSRowIDs(p)
             \/ CreateTables(p) \/ MigrateAssistScopedCatalog(p)
             \/ MigrateResourcesFTSContent(p) \/ StampUserVersion(p)
      PROVE  IInv' /\ UNCHANGED db
  <2>1. UNCHANGED db
    BY <1>6 DEF MigrateResourcesCompositeKey, MigrateResourcesFTSRowIDs, CreateTables,
                MigrateAssistScopedCatalog, MigrateResourcesFTSContent, StampUserVersion, Step
  <2> QED
    BY <1>6, <2>1, CompositeKeyStep, RowIDsStep, CreateTablesStep, ScopedCatalogStep,
       FTSContentStep, StampStep
<1> QED
  BY <1>1, <1>2, <1>3, <1>4, <1>5, <1>6 DEF Next, Open

-----------------------------------------------------------------------------
(* The results.                                                             *)

\* Every reachable state satisfies the inductive invariant.
LEMMA Invariance == Spec => []IInv
<1>1. IInv /\ TypeOK' /\ [Next]_vars => IInv'
  BY NextStep
<1> QED
  BY <1>1, InitIInv, Typing, PTL DEF Spec

\* For any mix of releases: a stamped file has every rewrite behind its stamp.
THEOREM StampMeansMigratedHolds == Spec => []StampMeansMigrated
<1>1. IInv => StampMeansMigrated
  BY DEF IInv
<1> QED
  BY <1>1, Invariance, PTL

\* For any mix of releases: an open handle never sits on an older schema.
THEOREM OpenHandleSupportedHolds == Spec => []OpenHandleSupported
<1>1. IInv => OpenHandleSupported
  BY DEF IInv
<1> QED
  BY <1>1, Invariance, PTL

\* For any mix of releases: no step lowers user_version.
THEOREM NeverDowngradedHolds == Spec => NeverDowngraded
<1>1. IInv /\ TypeOK' /\ [Next]_vars => [db'.version >= db.version]_vars
  BY NextStep
<1> QED
  BY <1>1, Invariance, Typing, PTL DEF Spec, NeverDowngraded

\* For any set of rows: no step, and no upgrade, drops a usable row.
THEOREM UsableRowsKeptHolds == Spec => UsableRowsKept
<1>1. IInv /\ TypeOK' /\ [Next]_vars => [db.rows \ LegacyRows \subseteq db'.rows]_vars
  BY NextStep
<1> QED
  BY <1>1, Invariance, Typing, PTL DEF Spec, UsableRowsKept
-----------------------------------------------------------------------------
(* Opening is atomic.                                                       *)

\* The committed file is one that its release has written.
FileWhole ==
  /\ db.typed \subseteq db.rows
  /\ \A r \in Rows \ db.rows : db.fts[r] = 0
  /\ db.table = "absent" => db.rows = {}

Scoped == {"content", "stamp", "commit"}

\* The release whose index the image has.
IndexVersion(p) ==
  IF \/ pc[p] \in {"stamp", "commit"}
     \/ /\ Version[p] >= CompositeAt
        /\ \/ pc[p] = "rowids" /\ current < CompositeAt
           \/ pc[p] \in {"tables", "scoped", "content"} /\ current <= CompositeAt
  THEN Version[p] ELSE current

\* The table of the image.
TableOf(p) ==
  CASE pc[p] = "composite" -> db.table
    [] pc[p] \in {"rowids", "tables"} ->
         IF Version[p] >= CompositeAt /\ db.table # "absent" THEN "composite" ELSE db.table
    [] OTHER -> Atomic!Migrated(db, Version[p]).table

\* At each stage the image is the file, with the rewrites so far behind it.
Part(p) ==
  /\ tx.rows = IF pc[p] \in Scoped THEN Atomic!Kept(db.rows, Version[p]) ELSE db.rows
  /\ tx.typed = IF pc[p] \in Scoped THEN Atomic!Kept(db.typed, Version[p]) ELSE db.typed
  /\ tx.fts = Reindexed(db, tx.rows, IndexVersion(p))
  /\ tx.table = TableOf(p)
  /\ tx.catalogSynced = IF pc[p] \in Scoped /\ Version[p] >= ScopedAt /\ db.version < ScopedAt
                        THEN FALSE ELSE db.catalogSynced

ImagePart == \A p \in Procs : pc[p] \in Gated \cup {"commit"} => Part(p)
AInv == FileWhole /\ ImagePart

LEMMA SameLayout == \A v : Atomic!LayoutOf(v) = LayoutOf(v)
BY Zenon DEF Atomic!LayoutOf, LayoutOf, Atomic!CompositeAt, CompositeAt, Atomic!ContentAt, ContentAt

LEMMA SameIndex == \A d, rows, v : Atomic!Reindexed(d, rows, v) = Reindexed(d, rows, v)
BY SameLayout, Zenon DEF Atomic!Index, Index, Atomic!Reindexed, Reindexed

\* A file's own release changes nothing of its index.
LEMMA OwnIndex ==
  ASSUME FileWhole, db \in Database
  PROVE  Reindexed(db, db.rows, db.version) = db.fts
BY DEF FileWhole, Database, Reindexed

\* Releases with one layout make the same index, and nothing else matters of them.
LEMMA IndexLayout ==
  ASSUME NEW rows, NEW v, NEW w, LayoutOf(v) = LayoutOf(w) \/ rows = {}
  PROVE  Reindexed(db, rows, v) = Reindexed(db, rows, w)
BY DEF Index, Reindexed

\* The releases of the gated rewrites change the layout.
LEMMA GateLayout ==
  ASSUME NEW v \in Nat, NEW rows,
         \/ v >= CompositeAt /\ db.version < CompositeAt
         \/ v > CompositeAt /\ db.version = CompositeAt
         \/ v >= ContentAt /\ db.version < ContentAt,
         db.version \in Nat
  PROVE  Reindexed(db, rows, v) = Index(rows, v)
<1>1. LayoutOf(v) # LayoutOf(db.version)
  BY DEF LayoutOf, CompositeAt, ContentAt
<1> QED
  BY <1>1 DEF Reindexed

LEMMA RebuildIndex ==
  ASSUME NEW d \in Database, NEW p \in Procs
  PROVE  /\ RebuildFTS(d, p).fts = Index(d.rows, Version[p])
         /\ RebuildFTS(d, p).catalogSynced = d.catalogSynced
BY DEF RebuildFTS, Database

\* A step of p inside the transaction keeps what the others have: nobody else is inside.
LEMMA OnePart ==
  ASSUME IInv, AInv, NEW p \in Procs, NEW from \in Gated, NEW to \in Gated \cup {"commit"},
         StepTo(p, from, to), Part(p)'
  PROVE  AInv'
<1>1. \A q \in Procs : q # p => pc'[q] = pc[q] /\ pc[q] \notin InTx
  BY NoProcAssumption DEF IInv, TypeOK, LockHeld, InTx, StepTo
<1>2. ImagePart'
  BY <1>1 DEF ImagePart, InTx
<1>3. FileWhole'
  BY DEF AInv, FileWhole, StepTo
<1> QED
  BY <1>2, <1>3 DEF AInv

\* What a gated step of p starts from, and what is left to show of it.
LEMMA PartFacts ==
  ASSUME IInv, AInv, NEW p \in Procs, pc[p] \in Gated
  PROVE  /\ Part(p) /\ FileWhole
         /\ Version[p] \in Nat /\ current \in Nat /\ current <= Version[p] /\ current = db.version
         /\ tx \in Database /\ db \in Database
         /\ (current >= CompositeAt => db.table = "composite")
         /\ (current < ScopedAt => ScopeFree(tx)) /\ (current >= ScopedAt => NoLegacy(db))
         /\ p \in DOMAIN pc
<1>1. Part(p) /\ FileWhole
  BY DEF AInv, ImagePart
<1>2. current = db.version
  BY DEF IInv, CurrentVersion
<1> QED
  BY <1>1, <1>2, InsideFacts DEF IInv, TypeOK, StampMeansMigrated, NoLegacy

LEMMA CompositeKeyPart ==
  ASSUME IInv, AInv, NEW p \in Procs, MigrateResourcesCompositeKey(p)
  PROVE  AInv'
<1>1. pc[p] = "composite" /\ StepTo(p, "composite", "rowids")
  BY DEF MigrateResourcesCompositeKey, Step, StepTo, Goto
<1>2. pc[p] \in Gated
  BY <1>1 DEF Gated
<1> DEFINE gate == Version[p] >= CompositeAt /\ current < CompositeAt /\ tx.table # "absent"
           d == [tx EXCEPT !.table = "composite"]
<1>3. tx' = IF gate THEN RebuildFTS(d, p) ELSE tx
  BY DEF MigrateResourcesCompositeKey, Step
<1>4. tx \in Database /\ d \in Database /\ d.rows = tx.rows /\ d.typed = tx.typed
        /\ d.table = "composite" /\ d.catalogSynced = tx.catalogSynced
  BY <1>2, InsideFacts DEF Database
<1>5. /\ tx.rows = db.rows /\ tx.typed = db.typed /\ tx.table = db.table
      /\ tx.fts = Reindexed(db, db.rows, current) /\ tx.catalogSynced = db.catalogSynced
  BY <1>1, <1>2, PartFacts DEF Part, TableOf, IndexVersion, Scoped
<1>11. gate => Reindexed(db, db.rows, Version[p]) = Index(db.rows, Version[p])
  BY <1>2, PartFacts, GateLayout
<1>6. pc'[p] = "rowids" /\ UNCHANGED <<db, current>>
  BY <1>1, <1>2, PartFacts DEF StepTo
<1> HIDE DEF d
<1>7. /\ tx'.rows = db.rows /\ tx'.typed = db.typed /\ tx'.catalogSynced = db.catalogSynced
      /\ tx'.table = IF gate THEN "composite" ELSE db.table
      /\ tx'.fts = IF gate THEN Index(db.rows, Version[p]) ELSE Reindexed(db, db.rows, current)
  BY <1>3, <1>4, <1>5, Rebuilt, RebuildIndex
<1>8. tx'.table = TableOf(p)'
  BY <1>2, <1>5, <1>6, <1>7, PartFacts DEF TableOf, CompositeAt
<1>9. tx'.fts = Reindexed(db, tx'.rows, IndexVersion(p)')
  <2>1. IndexVersion(p)' = IF Version[p] >= CompositeAt /\ current < CompositeAt THEN Version[p] ELSE current
    BY <1>6 DEF IndexVersion
  <2>2. tx.table = "absent" => db.rows = {}
    BY <1>2, <1>5, PartFacts DEF FileWhole
  <2> QED
    BY <1>5, <1>7, <1>11, <2>1, <2>2, IndexLayout
<1>10. Part(p)'
  BY <1>6, <1>7, <1>8, <1>9 DEF Part, Scoped
<1> QED
  BY <1>1, <1>10, OnePart DEF Gated

LEMMA RowIDsPart ==
  ASSUME IInv, AInv, NEW p \in Procs, MigrateResourcesFTSRowIDs(p)
  PROVE  AInv'
<1>1. pc[p] = "rowids" /\ StepTo(p, "rowids", "tables")
  BY DEF MigrateResourcesFTSRowIDs, Step, StepTo, Goto
<1>2. pc[p] \in Gated
  BY <1>1 DEF Gated
<1> DEFINE gate == Version[p] > CompositeAt /\ current = CompositeAt /\ tx.table # "absent"
           before == IF Version[p] >= CompositeAt /\ current < CompositeAt THEN Version[p] ELSE current
<1>3. tx' = IF gate THEN RebuildFTS(tx, p) ELSE tx
  BY DEF MigrateResourcesFTSRowIDs, Step
<1>4. /\ tx.rows = db.rows /\ tx.typed = db.typed /\ tx.catalogSynced = db.catalogSynced
      /\ tx.fts = Reindexed(db, db.rows, before)
      /\ tx.table = IF Version[p] >= CompositeAt /\ db.table # "absent" THEN "composite" ELSE db.table
  BY <1>1, <1>2, PartFacts DEF Part, TableOf, IndexVersion, Scoped
<1>11. gate => Reindexed(db, db.rows, Version[p]) = Index(db.rows, Version[p])
  BY <1>2, PartFacts, GateLayout
<1>5. pc'[p] = "tables" /\ UNCHANGED <<db, current>>
  BY <1>1, <1>2, PartFacts DEF StepTo
<1>6. /\ tx'.rows = db.rows /\ tx'.typed = db.typed /\ tx'.catalogSynced = db.catalogSynced
      /\ tx'.table = tx.table
      /\ tx'.fts = IF gate THEN Index(db.rows, Version[p]) ELSE Reindexed(db, db.rows, before)
  BY <1>2, <1>3, <1>4, PartFacts, Rebuilt, RebuildIndex
<1>7. tx'.table = TableOf(p)'
  BY <1>4, <1>5, <1>6 DEF TableOf
<1>8. tx'.fts = Reindexed(db, tx'.rows, IndexVersion(p)')
  <2>1. IndexVersion(p)' = IF Version[p] >= CompositeAt /\ current <= CompositeAt THEN Version[p] ELSE current
    BY <1>5 DEF IndexVersion
  <2>2. tx.table = "absent" => db.rows = {}
    BY <1>2, <1>4, PartFacts DEF FileWhole
  <2>3. gate \/ IndexVersion(p)' = before \/ db.rows = {}
    BY <1>2, <2>1, <2>2, PartFacts DEF CompositeAt
  <2>4. gate => IndexVersion(p)' = Version[p]
    BY <1>2, <2>1, PartFacts DEF CompositeAt
  <2> QED
    BY <1>6, <1>11, <2>3, <2>4, IndexLayout
<1>9. Part(p)'
  BY <1>5, <1>6, <1>7, <1>8 DEF Part, Scoped
<1> QED
  BY <1>1, <1>9, OnePart DEF Gated

LEMMA CreateTablesPart ==
  ASSUME IInv, AInv, NEW p \in Procs, CreateTables(p)
  PROVE  AInv'
<1>1. pc[p] = "tables" /\ StepTo(p, "tables", "scoped")
  BY DEF CreateTables, Step, StepTo, Goto
<1>2. pc[p] \in Gated
  BY <1>1 DEF Gated
<1>3. /\ tx'.rows = tx.rows /\ tx'.typed = tx.typed /\ tx'.fts = tx.fts
      /\ tx'.catalogSynced = tx.catalogSynced
      /\ tx'.table = IF tx.table # "absent" THEN tx.table
                     ELSE IF Version[p] >= CompositeAt THEN "composite" ELSE "single"
  BY <1>2, InsideFacts DEF CreateTables, Step, Database
<1>4. /\ tx.rows = db.rows /\ tx.typed = db.typed /\ tx.catalogSynced = db.catalogSynced
      /\ tx.fts = Reindexed(db, db.rows, IndexVersion(p))
      /\ tx.table = IF Version[p] >= CompositeAt /\ db.table # "absent" THEN "composite" ELSE db.table
  BY <1>1, <1>2, PartFacts DEF Part, TableOf, Scoped
<1>5. pc'[p] = "scoped" /\ UNCHANGED <<db, current>>
  BY <1>1, <1>2, PartFacts DEF StepTo
<1>6. tx'.table = TableOf(p)'
  <2>1. TableOf(p)' = CASE Version[p] >= CompositeAt -> "composite"
                        [] Version[p] < CompositeAt /\ db.table = "absent" -> "single"
                        [] OTHER -> db.table
    BY <1>5 DEF TableOf, Atomic!Migrated, Atomic!CompositeAt, CompositeAt
  <2>2. Version[p] >= CompositeAt \/ Version[p] < CompositeAt
    BY <1>2, PartFacts DEF CompositeAt
  <2>3. ~(Version[p] >= CompositeAt /\ Version[p] < CompositeAt)
    BY <1>2, PartFacts DEF CompositeAt
  <2> QED
    BY <1>3, <1>4, <2>1, <2>2, <2>3
<1>7. IndexVersion(p)' = IndexVersion(p)
  BY <1>1, <1>5 DEF IndexVersion
<1>8. Part(p)'
  BY <1>3, <1>4, <1>5, <1>6, <1>7 DEF Part, Scoped
<1> QED
  BY <1>1, <1>8, OnePart DEF Gated

LEMMA ScopedCatalogPart ==
  ASSUME IInv, AInv, NEW p \in Procs, MigrateAssistScopedCatalog(p)
  PROVE  AInv'
<1>1. pc[p] = "scoped" /\ StepTo(p, "scoped", "content")
  BY DEF MigrateAssistScopedCatalog, Step, StepTo, Goto
<1>2. pc[p] \in Gated
  BY <1>1 DEF Gated
<1> DEFINE gate == Version[p] >= ScopedAt /\ current < ScopedAt
           kept == Atomic!Kept(db.rows, Version[p])
<1>3. /\ tx.rows = db.rows /\ tx.typed = db.typed /\ tx.catalogSynced = db.catalogSynced
      /\ tx.fts = Reindexed(db, db.rows, IndexVersion(p)) /\ tx.table = TableOf(p)
  BY <1>1, <1>2, PartFacts DEF Part, Scoped
<1>4. pc'[p] = "content" /\ UNCHANGED <<db, current>>
  BY <1>1, <1>2, PartFacts DEF StepTo
<1>5. IndexVersion(p)' = IndexVersion(p) /\ TableOf(p)' = TableOf(p)
  BY <1>1, <1>4 DEF IndexVersion, TableOf
<1>6. /\ kept = IF Version[p] >= ScopedAt THEN db.rows \ LegacyRows ELSE db.rows
      /\ Atomic!Kept(db.typed, Version[p])
           = IF Version[p] >= ScopedAt THEN db.typed \ LegacyRows ELSE db.typed
  BY DEF Atomic!Kept, Atomic!ScopedAt, ScopedAt
<1>7. CASE gate
  <2>1. /\ tx'.rows = tx.rows \ LegacyRows /\ tx'.typed = tx.typed \ LegacyRows
        /\ tx'.table = tx.table /\ tx'.catalogSynced = FALSE
        /\ tx'.fts = [r \in Rows |-> IF r \in CatalogRows THEN 0 ELSE tx.fts[r]]
    BY <1>2, <1>7, InsideFacts DEF MigrateAssistScopedCatalog, Step, Database
  <2>2. tx'.fts = Reindexed(db, kept, IndexVersion(p))
    <3>1. \A r \in Rows : r \in CatalogRows => r \notin kept
      BY <1>2, <1>3, <1>6, <1>7, PartFacts DEF ScopeFree
    <3>2. \A r \in Rows : r \notin CatalogRows => (r \in kept <=> r \in db.rows)
      BY <1>6, <1>7, RowsAssumption
    <3> QED
      BY <1>3, <2>1, <3>1, <3>2 DEF Index, Reindexed
  <2>3. Part(p)'
    BY <1>2, <1>3, <1>4, <1>5, <1>6, <1>7, <2>1, <2>2, PartFacts DEF Part, Scoped
  <2> QED
    BY <1>1, <2>3, OnePart DEF Gated
<1>8. CASE ~gate
  <2>1. tx' = tx
    BY <1>8 DEF MigrateAssistScopedCatalog, Step
  <2>2. kept = db.rows /\ Atomic!Kept(db.typed, Version[p]) = db.typed
    BY <1>2, <1>6, <1>8, PartFacts DEF NoLegacy, ScopedAt
  <2>3. ~(Version[p] >= ScopedAt /\ db.version < ScopedAt)
    BY <1>2, <1>8, PartFacts
  <2>4. Part(p)'
    BY <1>3, <1>4, <1>5, <2>1, <2>2, <2>3 DEF Part, Scoped
  <2> QED
    BY <1>1, <2>4, OnePart DEF Gated
<1> QED
  BY <1>7, <1>8

LEMMA FTSContentPart ==
  ASSUME IInv, AInv, NEW p \in Procs, MigrateResourcesFTSContent(p)
  PROVE  AInv'
<1>1. pc[p] = "content" /\ StepTo(p, "content", "stamp")
  BY DEF MigrateResourcesFTSContent, Step, StepTo, Goto
<1>2. pc[p] \in Gated
  BY <1>1 DEF Gated
<1> DEFINE gate == Version[p] >= ContentAt /\ current < ContentAt
           before == IF Version[p] >= CompositeAt /\ current <= CompositeAt THEN Version[p] ELSE current
<1>3. tx' = IF gate THEN RebuildFTS(tx, p) ELSE tx
  BY DEF MigrateResourcesFTSContent, Step
<1>4. /\ tx.typed = Atomic!Kept(db.typed, Version[p]) /\ tx.table = TableOf(p)
      /\ tx.rows = Atomic!Kept(db.rows, Version[p])
      /\ tx.fts = Reindexed(db, tx.rows, before)
      /\ tx.catalogSynced = IF Version[p] >= ScopedAt /\ db.version < ScopedAt THEN FALSE ELSE db.catalogSynced
  BY <1>1, <1>2, PartFacts DEF Part, IndexVersion, Scoped
<1>5. pc'[p] = "stamp" /\ UNCHANGED <<db, current>>
  BY <1>1, <1>2, PartFacts DEF StepTo
<1>6. /\ tx'.rows = tx.rows /\ tx'.typed = tx.typed /\ tx'.catalogSynced = tx.catalogSynced
      /\ tx'.table = tx.table
      /\ tx'.fts = IF gate THEN Index(tx.rows, Version[p]) ELSE Reindexed(db, tx.rows, before)
  BY <1>2, <1>3, <1>4, PartFacts, Rebuilt, RebuildIndex
<1>7. IndexVersion(p)' = Version[p] /\ TableOf(p)' = TableOf(p)
  BY <1>1, <1>5 DEF IndexVersion, TableOf
<1>11. gate => Reindexed(db, tx.rows, Version[p]) = Index(tx.rows, Version[p])
  BY <1>2, PartFacts, GateLayout
<1>8. gate \/ LayoutOf(before) = LayoutOf(Version[p])
  BY <1>2, PartFacts DEF LayoutOf, CompositeAt, ContentAt
<1>9. tx'.fts = Reindexed(db, tx'.rows, Version[p])
  BY <1>6, <1>8, <1>11, IndexLayout
<1>10. Part(p)'
  BY <1>4, <1>5, <1>6, <1>7, <1>9 DEF Part, Scoped
<1> QED
  BY <1>1, <1>10, OnePart DEF Gated

LEMMA StampPart ==
  ASSUME IInv, AInv, NEW p \in Procs, StampUserVersion(p)
  PROVE  AInv'
<1>1. pc[p] = "stamp" /\ StepTo(p, "stamp", "commit")
  BY DEF StampUserVersion, Step, StepTo, Goto
<1>2. pc[p] \in Gated
  BY <1>1 DEF Gated
<1>3. /\ tx'.rows = tx.rows /\ tx'.typed = tx.typed /\ tx'.fts = tx.fts
      /\ tx'.table = tx.table /\ tx'.catalogSynced = tx.catalogSynced
  BY <1>2, InsideFacts DEF StampUserVersion, Step, Database
<1>4. pc'[p] = "commit" /\ UNCHANGED <<db, current>>
  BY <1>1, <1>2, PartFacts DEF StepTo
<1>5. IndexVersion(p)' = IndexVersion(p) /\ TableOf(p)' = TableOf(p)
  BY <1>1, <1>4 DEF IndexVersion, TableOf
<1>6. Part(p)'
  BY <1>1, <1>2, <1>3, <1>4, <1>5, PartFacts DEF Part, Scoped
<1> QED
  BY <1>1, <1>6, OnePart DEF Gated

\* How a step of p looks from outside when it ends its open in some way.
LEMMA Settles ==
  ASSUME IInv, NEW p \in Procs, pc[p] \notin Settled, NEW s \in Settled, pc' = [pc EXCEPT ![p] = s]
  PROVE  Atomic!Ends(p, s)
<1>1. Handle[p] = "opening"
  BY DEF Handle
<1>2. Handle' = [Handle EXCEPT ![p] = s]
  BY DEF Handle, IInv, TypeOK
<1> QED
  BY <1>1, <1>2 DEF Atomic!Ends

LEMMA StaysOpening ==
  ASSUME IInv, NEW p \in Procs, pc[p] \notin Settled, NEW s \in Stages \ Settled,
         pc' = [pc EXCEPT ![p] = s]
  PROVE  UNCHANGED Handle
BY DEF Handle, IInv, TypeOK

\* What begins, gives up or is turned away leaves the file alone.
LEMMA OutsideAtomic ==
  ASSUME IInv, AInv, NEW p \in Procs,
         \/ PreRead(p) \/ Timeout(p) \/ Reopen(p)
         \/ Abort(p) \/ ReReadTooNew(p) \/ BeginImmediate(p) \/ ReRead(p)
  PROVE  AInv' /\ [Atomic!Next]_Atomic!vars
<1> USE DEF IInv, TypeOK
<1>1. UNCHANGED db
  BY DEF PreRead, Timeout, Reopen, Abort, ReReadTooNew, BeginImmediate, ReRead, Rollback
<1>2. FileWhole'
  BY <1>1 DEF AInv, FileWhole
<1>3. CASE PreRead(p) \/ Timeout(p) \/ Reopen(p) \/ Abort(p) \/ ReReadTooNew(p)
  <2>1. PICK s \in Stages \ (InTx \cup {"open"}) : pc' = [pc EXCEPT ![p] = s] /\ UNCHANGED <<tx, current>>
    BY <1>3 DEF PreRead, Timeout, Reopen, Abort, ReReadTooNew, Rollback, Goto, Stages, InTx, Gated, Settled
  <2>2. \A q \in Procs : pc'[q] \in InTx => pc'[q] = pc[q]
    BY <2>1
  <2>3. ImagePart'
    BY <1>1, <2>1, <2>2 DEF AInv, ImagePart, Part, TableOf, IndexVersion, InTx
  <2>4. CASE PreRead(p)
    <3>1. CASE db.version > Version[p]
      <4>1. Atomic!Ends(p, "rejected")
        BY <2>4, <3>1, Settles DEF PreRead, Goto, Settled
      <4> QED
        BY <1>1, <1>2, <2>3, <3>1, <4>1 DEF AInv, Atomic!Next, Atomic!Reject
    <3>2. CASE ~(db.version > Version[p])
      <4>1. UNCHANGED Handle
        BY <2>4, <3>2, StaysOpening DEF PreRead, Goto, Stages, Settled, InTx, Gated
      <4> QED
        BY <1>1, <1>2, <2>3, <4>1 DEF AInv, Atomic!vars
    <3> QED
      BY <3>1, <3>2
  <2>5. CASE Timeout(p) \/ Abort(p)
    <3>1. Atomic!Ends(p, "failed")
      BY <2>5, Settles DEF Timeout, Abort, Rollback, Goto, Settled, InTx, Gated
    <3> QED
      BY <1>1, <1>2, <2>3, <3>1 DEF AInv, Atomic!Next, Atomic!Fail
  <2>6. CASE ReReadTooNew(p)
    <3>1. Atomic!Ends(p, "rejected")
      BY <2>6, Settles DEF ReReadTooNew, Rollback, Goto, Settled
    <3>2. db.version > Version[p]
      BY <2>6 DEF ReReadTooNew, ImageOfFile
    <3> QED
      BY <1>1, <1>2, <2>3, <3>1, <3>2 DEF AInv, Atomic!Next, Atomic!Reject
  <2>7. CASE Reopen(p)
    <3>1. pc[p] \in {"failed", "rejected"} /\ pc' = [pc EXCEPT ![p] = "preread"]
      BY <2>7 DEF Reopen, Goto
    <3>2. Handle[p] \in {"failed", "rejected"} /\ Handle' = [Handle EXCEPT ![p] = "opening"]
      BY <3>1 DEF Handle, Settled
    <3> QED
      BY <1>1, <1>2, <2>3, <3>2 DEF AInv, Atomic!Next, Atomic!Reopen
  <2> QED
    BY <1>3, <2>4, <2>5, <2>6, <2>7
<1>4. CASE BeginImmediate(p)
  <2>1. UNCHANGED Handle
    BY <1>4, StaysOpening DEF BeginImmediate, Goto, Stages, Settled, InTx
  <2>2. \A q \in Procs : pc'[q] \notin Gated \cup {"commit"}
    BY <1>4, NoProcAssumption DEF BeginImmediate, Goto, LockHeld, InTx, Gated
  <2> QED
    BY <1>1, <1>2, <2>1, <2>2 DEF AInv, ImagePart, Atomic!vars
<1>5. CASE ReRead(p)
  <2>1. UNCHANGED Handle
    BY <1>5, StaysOpening DEF ReRead, Goto, Stages, Settled, InTx, Gated
  <2>2. /\ tx = db /\ tx' = db' /\ current' = db.version /\ pc'[p] = "composite"
        /\ \A q \in Procs : q # p => pc'[q] = pc[q] /\ pc'[q] \notin InTx
    BY <1>1, <1>5, NoProcAssumption DEF ReRead, Goto, ImageOfFile, LockHeld, InTx
  <2>5. FileWhole /\ Reindexed(db, db.rows, db.version) = db.fts
    BY OwnIndex DEF AInv
  <2>3. Part(p)'
    BY <1>1, <2>2, <2>5 DEF Part, TableOf, IndexVersion, Scoped
  <2>4. ImagePart'
    BY <2>2, <2>3 DEF ImagePart, InTx
  <2> QED
    BY <1>1, <1>2, <2>1, <2>4 DEF AInv, Atomic!vars
<1> QED
  BY <1>3, <1>4, <1>5

\* Nobody is inside the transaction when the lock is free, nor after it is given back.
LEMMA NobodyInside ==
  ASSUME IInv, AInv, \A p \in Procs : pc'[p] \notin InTx, FileWhole'
  PROVE  AInv'
BY DEF AInv, ImagePart, InTx

\* A commit is the migration, at once.
LEMMA CommitAtomic ==
  ASSUME IInv, AInv, NEW p \in Procs, Commit(p)
  PROVE  AInv' /\ Atomic!Migrate(p)
<1> USE DEF IInv, TypeOK
<1>1. /\ pc[p] = "commit" /\ db' = tx /\ pc' = [pc EXCEPT ![p] = "open"]
  BY DEF Commit, Goto
<1>2. /\ tx.version = Version[p] /\ db.version <= Version[p]
      /\ Version[p] \in Nat /\ db.version \in Nat
  BY <1>1, VersionAssumption DEF CurrentVersion, Database
<1>3. /\ tx.rows = Atomic!Kept(db.rows, Version[p])
      /\ tx.typed = Atomic!Kept(db.typed, Version[p])
      /\ tx.fts = Reindexed(db, tx.rows, Version[p])
      /\ tx.table = Atomic!Migrated(db, Version[p]).table
      /\ tx.catalogSynced = IF Version[p] >= ScopedAt /\ db.version < ScopedAt THEN FALSE ELSE db.catalogSynced
  BY <1>1 DEF AInv, ImagePart, Part, IndexVersion, TableOf, Scoped
<1>4. tx = Atomic!Migrated(db, Version[p])
  <2> DEFINE m == Atomic!Migrated(db, Version[p])
  <2>1. m.version = tx.version /\ m.rows = tx.rows /\ m.typed = tx.typed /\ m.table = tx.table
    BY <1>2, <1>3 DEF Atomic!Migrated
  <2>2. m.fts = tx.fts
    BY <1>3, SameIndex DEF Atomic!Migrated
  <2>3. m.catalogSynced = tx.catalogSynced
    <3>1. m.catalogSynced = (db.catalogSynced /\ (Version[p] >= ScopedAt => db.version >= ScopedAt))
      BY DEF Atomic!Migrated, Atomic!ScopedAt, ScopedAt
    <3>2. db.catalogSynced \in BOOLEAN
      BY DEF Database
    <3>3. db.version < ScopedAt <=> ~(db.version >= ScopedAt)
      BY <1>2 DEF ScopedAt
    <3> QED
      BY <1>3, <3>1, <3>2, <3>3, Zenon
  <2>4. m = [version |-> m.version, table |-> m.table, rows |-> m.rows, typed |-> m.typed,
             fts |-> m.fts, catalogSynced |-> m.catalogSynced]
    BY DEF Atomic!Migrated
  <2>5. tx = [version |-> tx.version, table |-> tx.table, rows |-> tx.rows, typed |-> tx.typed,
              fts |-> tx.fts, catalogSynced |-> tx.catalogSynced]
    BY DEF Database
  <2> HIDE DEF m
  <2>6. m = tx
    BY <2>1, <2>2, <2>3, <2>4, <2>5, Zenon
  <2> QED
    BY <2>6 DEF m
<1>5. Atomic!Ends(p, "open")
  BY <1>1, Settles DEF Settled
<1>6. FileWhole'
  <2>1. tx.table # "absent"
    BY <1>2, <1>3 DEF Atomic!Migrated, Atomic!CompositeAt, CompositeAt
  <2>2. tx.typed \subseteq tx.rows
    BY <1>3 DEF AInv, FileWhole, Atomic!Kept
  <2>3. \A r \in Rows \ tx.rows : tx.fts[r] = 0
    BY <1>3 DEF Reindexed, Index
  <2> QED
    BY <1>1, <2>1, <2>2, <2>3 DEF FileWhole
<1>7. \A q \in Procs : pc'[q] \notin InTx
  BY <1>1, NoProcAssumption DEF LockHeld, InTx, Gated
<1>8. AInv'
  BY <1>6, <1>7, NobodyInside
<1> QED
  BY <1>1, <1>2, <1>4, <1>5, <1>8 DEF Atomic!Migrate

LEMMA WriteAtomic ==
  ASSUME IInv, AInv, NEW p \in Procs, NEW r \in Rows, Write(p, r)
  PROVE  AInv' /\ Atomic!Write(p, r)
<1> USE DEF IInv, TypeOK
<1>1. /\ pc[p] = "open" /\ Version[p] >= ScopedAt /\ lock = NoProc /\ r \notin LegacyRows
      /\ UNCHANGED pc
  BY DEF Write
<1>2. Version[p] \in Nat /\ db.version \in Nat
  BY VersionAssumption DEF Database
<1>3. db.version >= ScopedAt
  BY <1>1, <1>2 DEF OpenHandleSupported, ScopedAt
<1>4. LayoutOf(Version[p]) = 4 /\ Atomic!LayoutOf(db.version) = 4
  BY <1>1, <1>2, <1>3, LayoutType, SameLayout DEF ScopedAt, ContentAt
<1>5. FileWhole'
  <2>1. /\ db'.version = db.version /\ db'.table = db.table /\ db'.rows = db.rows \cup {r}
        /\ db'.typed = db.typed \/ db'.typed = db.typed \cup {r}
    BY WriteFile
  <2>2. PICK entry \in {4, db.fts[r], 0} : db'.fts = [db.fts EXCEPT ![r] = entry]
    BY WriteFile
  <2>3. \A s \in Rows \ db'.rows : db'.fts[s] = 0
    BY <2>1, <2>2 DEF AInv, FileWhole, Database
  <2>4. db.table = "composite"
    BY <1>2, <1>3 DEF StampMeansMigrated, ScopedAt, CompositeAt
  <2> QED
    BY <2>1, <2>3, <2>4 DEF AInv, FileWhole
<1>6. \A q \in Procs : pc'[q] \notin InTx
  BY <1>1, NoProcAssumption DEF LockHeld
<1>7. AInv'
  BY <1>5, <1>6, NobodyInside
<1>8. Handle[p] = "open" /\ UNCHANGED Handle
  BY <1>1 DEF Handle, Settled
<1>9. PICK indexed \in BOOLEAN, cleared \in BOOLEAN, projected \in BOOLEAN :
        db' = [db EXCEPT !.rows = @ \cup {r},
                         !.typed = IF projected THEN @ \cup {r} ELSE @,
                         !.fts[r] = IF indexed THEN LayoutOf(Version[p])
                                    ELSE IF cleared THEN 0 ELSE @,
                         !.catalogSynced = @ \/ r \in CatalogRows]
  BY DEF Write
<1> DEFINE entry == IF indexed THEN 4 ELSE IF cleared THEN 0 ELSE db.fts[r]
<1>10. db' = [db EXCEPT !.rows = @ \cup {r},
                        !.typed = IF projected THEN @ \cup {r} ELSE @,
                        !.fts[r] = entry,
                        !.catalogSynced = @ \/ r \in CatalogRows]
  BY <1>4, <1>9 DEF Database
<1>11. entry \in {Atomic!LayoutOf(db.version), db.fts[r], 0}
  BY <1>4
<1> HIDE DEF entry
<1> QED
  BY <1>1, <1>3, <1>7, <1>8, <1>10, <1>11 DEF Atomic!Write, Atomic!ScopedAt, ScopedAt

\* Every step is a step of AtomicMigration, or none.
LEMMA NextAtomic ==
  ASSUME IInv, AInv, [Next]_vars
  PROVE  AInv' /\ [Atomic!Next]_Atomic!vars
<1>1. CASE UNCHANGED vars
  <2>1. AInv'
    BY <1>1 DEF vars, AInv, FileWhole, ImagePart, Part, TableOf, IndexVersion
  <2>2. UNCHANGED Atomic!vars
    BY <1>1 DEF vars, Atomic!vars, Handle
  <2> QED
    BY <2>1, <2>2
<1>2. ASSUME NEW p \in Procs, Commit(p) PROVE AInv' /\ [Atomic!Next]_Atomic!vars
  BY <1>2, CommitAtomic DEF Atomic!Next
<1>3. ASSUME NEW p \in Procs, NEW r \in Rows, Write(p, r) PROVE AInv' /\ [Atomic!Next]_Atomic!vars
  BY <1>3, WriteAtomic DEF Atomic!Next
<1>4. ASSUME NEW p \in Procs,
             \/ PreRead(p) \/ Timeout(p) \/ Reopen(p) \/ Abort(p)
             \/ ReReadTooNew(p) \/ BeginImmediate(p) \/ ReRead(p)
      PROVE  AInv' /\ [Atomic!Next]_Atomic!vars
  BY <1>4, OutsideAtomic
<1>5. ASSUME NEW p \in Procs,
             \/ MigrateResourcesCompositeKey(p) \/ MigrateResourcesFTSRowIDs(p)
             \/ CreateTables(p) \/ MigrateAssistScopedCatalog(p)
             \/ MigrateResourcesFTSContent(p) \/ StampUserVersion(p)
      PROVE  AInv' /\ [Atomic!Next]_Atomic!vars
  <2>1. AInv'
    BY <1>5, CompositeKeyPart, RowIDsPart, CreateTablesPart, ScopedCatalogPart, FTSContentPart, StampPart
  <2>2. PICK from \in Gated, to \in Gated \cup {"commit"} : StepTo(p, from, to)
    BY <1>5 DEF MigrateResourcesCompositeKey, MigrateResourcesFTSRowIDs, CreateTables,
                MigrateAssistScopedCatalog, MigrateResourcesFTSContent, StampUserVersion,
                Step, StepTo, Goto, Gated
  <2>3. from \notin Settled /\ to \in Stages \ Settled
    BY DEF Gated, Settled, Stages, InTx
  <2>4. UNCHANGED Handle
    BY <2>2, <2>3, StaysOpening DEF StepTo
  <2> QED
    BY <2>1, <2>2, <2>4 DEF StepTo, Atomic!vars
<1> QED
  BY <1>1, <1>2, <1>3, <1>4, <1>5 DEF Next, Open

\* For any mix of releases, and any interleaving of their opens, aborts and writes:
\* an open that succeeds is one atomic step to the file its release would have written.
THEOREM AtomicOpensHolds == Spec => AtomicOpens
<1>1. Init => Atomic!Init
  <2> SUFFICES ASSUME Init PROVE Atomic!Init
    OBVIOUS
  <2>1. db \in Database /\ WellFormed(db)
    BY DEF Init
  <2>2. db \in Atomic!Database /\ Atomic!WellFormed(db)
    BY <2>1, SameLayout DEF Database, Atomic!Database, Layouts, Atomic!Layouts, WellFormed, Atomic!WellFormed,
       CompositeAt, Atomic!CompositeAt, ScopedAt, Atomic!ScopedAt
  <2>3. Handle = [p \in Procs |-> "opening"]
    BY DEF Init, Handle, Settled
  <2> QED
    BY <2>2, <2>3 DEF Atomic!Init
<1>2. Init => AInv
  BY DEF Init, AInv, FileWhole, WellFormed, ImagePart, Gated
<1>3. IInv /\ AInv /\ [Next]_vars => AInv' /\ [Atomic!Next]_Atomic!vars
  BY NextAtomic
<1> QED
  BY <1>1, <1>2, <1>3, Invariance, PTL DEF Spec, AtomicOpens, Atomic!Spec

=============================================================================
