--------------------------- MODULE StoreMigration ---------------------------
(***************************************************************************)
(* Opening the SQLite store (internal/store/store.go, Open / migrate).     *)
(*                                                                         *)
(* Every CLI invocation that needs the store opens it read-write, and every *)
(* such open migrates: it reads PRAGMA user_version, takes the write lock   *)
(* with BEGIN IMMEDIATE, reads user_version again, applies the rewrites     *)
(* gated on the old version, stamps its own version and commits.  Binaries  *)
(* of different ages (Version[p]) may open one file at the same moment,     *)
(* give up on SQLITE_BUSY, be cancelled or die half-way.                    *)
(*                                                                         *)
(* db is the committed file.  tx is the uncommitted image the holder of the *)
(* write lock works on: SQLite discards it on ROLLBACK and when its process *)
(* dies, and publishes it on COMMIT.                                        *)
(***************************************************************************)
EXTENDS StoreFile

CONSTANTS
  Procs,        \* processes that open the store
  Version,      \* Version[p]: the StoreSchemaVersion compiled into p's binary
  NoProc,       \* nobody holds the write lock
  MaxRestarts   \* bound: how often a process retries a failed open

ASSUME VersionAssumption     == Versions \subseteq Nat /\ Version \in [Procs -> Versions]
ASSUME NoProcAssumption      == NoProc \notin Procs
ASSUME MaxRestartsAssumption == MaxRestarts \in Nat

VARIABLES
  db,        \* the committed database
  tx,        \* the lock holder's uncommitted image of it
  lock,      \* holder of SQLite's write lock
  current,   \* user_version as the lock holder re-read it
  pc,        \* where each process is in OpenWithContext
  restarts,  \* failed opens retried so far, over all processes
  missed     \* history: rows whose own full-text insert failed when last stored

vars == <<db, tx, lock, current, pc, restarts, missed>>

Gated   == {"composite", "rowids", "tables", "scoped", "content", "stamp"}
InTx    == Gated \cup {"reread", "commit"}
Settled == {"open", "rejected", "failed"}
Stages  == {"preread", "begin"} \cup InTx \cup Settled

TypeOK ==
  /\ db \in Database
  /\ tx \in Database
  /\ lock \in Procs \cup {NoProc}
  /\ current \in Versions
  /\ pc \in [Procs -> Stages]
  /\ restarts \in 0..MaxRestarts
  /\ missed \subseteq Rows

-----------------------------------------------------------------------------
Init ==
  /\ db \in {d \in Database : WellFormed(d)}
  /\ tx = db
  /\ lock = NoProc
  /\ current = db.version
  /\ pc = [p \in Procs |-> "preread"]
  /\ restarts = 0
  /\ missed = {r \in db.rows : db.version >= ContentAt /\ db.fts[r] = 0}

Goto(p, stage) == pc' = [pc EXCEPT ![p] = stage]

\* The version check before the lock: an older binary rejects a newer file.
PreRead(p) ==
  /\ pc[p] = "preread"
  /\ Goto(p, IF db.version > Version[p] THEN "rejected" ELSE "begin")
  /\ UNCHANGED <<db, tx, lock, current, restarts, missed>>

\* BEGIN IMMEDIATE succeeds once nobody else holds the write lock.
BeginImmediate(p) ==
  /\ pc[p] = "begin"
  /\ lock = NoProc
  /\ lock' = p
  /\ tx' = db
  /\ Goto(p, "reread")
  /\ UNCHANGED <<db, current, restarts, missed>>

\* retryOnBusy's deadline passes while connecting, reading or waiting to begin.
Timeout(p) ==
  /\ pc[p] \in {"preread", "begin"}
  /\ Goto(p, "failed")
  /\ UNCHANGED <<db, tx, lock, current, restarts, missed>>

\* The deferred ROLLBACK of withMigrationLock.
Rollback(p, stage) ==
  /\ lock' = NoProc
  /\ Goto(p, stage)
  /\ UNCHANGED <<db, tx, current, restarts, missed>>

\* Variant: a file too new is taken for a busy one, and tried again.
ReReadTooNewRetries(p) ==
  /\ pc[p] = "reread"
  /\ tx.version > Version[p]
  /\ Rollback(p, "begin")

\* The second read of user_version, inside the lock: "leave this read in".
ReReadTooNew(p) ==
  /\ pc[p] = "reread"
  /\ tx.version > Version[p]
  /\ Rollback(p, "rejected")

\* Variant: without the check inside the lock.
ReReadUnchecked(p) ==
  /\ pc[p] = "reread"
  /\ current' = tx.version
  /\ Goto(p, "composite")
  /\ UNCHANGED <<db, tx, lock, restarts, missed>>

ReRead(p) ==
  /\ pc[p] = "reread"
  /\ tx.version <= Version[p]
  /\ current' = tx.version
  /\ Goto(p, "composite")
  /\ UNCHANGED <<db, tx, lock, restarts, missed>>

\* DROP and CREATE resources_fts, then rebuildResourcesFTS from every row.
RebuildFTS(d, p) ==
  [d EXCEPT !.fts = Index(d.rows, Version[p])]

\* A rewrite gated on the version found: p runs it only if its binary has it.
Step(p, from, to, gate, result) ==
  /\ pc[p] = from
  /\ tx' = IF gate THEN result ELSE tx
  /\ Goto(p, to)
  /\ UNCHANGED <<db, lock, current, restarts, missed>>

\* Variant: the old table is dropped before its rows are copied.
CompositeKeyWithoutCopy(p) ==
  Step(p, "composite", "rowids",
       Version[p] >= CompositeAt /\ current < CompositeAt /\ tx.table # "absent",
       RebuildFTS([tx EXCEPT !.table = "composite", !.rows = {}], p))

\* resources_v2 receives every row before the old table is dropped.
MigrateResourcesCompositeKey(p) ==
  Step(p, "composite", "rowids",
       Version[p] >= CompositeAt /\ current < CompositeAt /\ tx.table # "absent",
       RebuildFTS([tx EXCEPT !.table = "composite"], p))

MigrateResourcesFTSRowIDs(p) ==
  Step(p, "rowids", "tables",
       Version[p] > CompositeAt /\ current = CompositeAt /\ tx.table # "absent",
       RebuildFTS(tx, p))

\* backfillColumns, CREATE TABLE/INDEX IF NOT EXISTS and migrateExtras.
CreateTables(p) ==
  Step(p, "tables", "scoped", tx.table = "absent",
       [tx EXCEPT !.table = IF Version[p] >= CompositeAt THEN "composite" ELSE "single"])

\* Variant: the sync state of the catalogs that went stays.
ScopedCatalogKeepsSyncState(p) ==
  Step(p, "scoped", "content",
       Version[p] >= ScopedAt /\ current < ScopedAt,
       [tx EXCEPT !.typed = @ \ LegacyRows,
                  !.rows = @ \ LegacyRows,
                  !.fts = [r \in Rows |-> IF r \in CatalogRows THEN 0 ELSE @[r]]])

\* Unscoped catalog rows go, with every catalog full-text entry and sync state.
MigrateAssistScopedCatalog(p) ==
  Step(p, "scoped", "content",
       Version[p] >= ScopedAt /\ current < ScopedAt,
       [tx EXCEPT !.typed = @ \ LegacyRows,
                  !.rows = @ \ LegacyRows,
                  !.fts = [r \in Rows |-> IF r \in CatalogRows THEN 0 ELSE @[r]],
                  !.catalogSynced = FALSE])

\* Variant: an off-by-one in the gate.
FTSContentGateOffByOne(p) ==
  Step(p, "content", "stamp",
       Version[p] >= ContentAt /\ current < ContentAt - 1, RebuildFTS(tx, p))

MigrateResourcesFTSContent(p) ==
  Step(p, "content", "stamp",
       Version[p] >= ContentAt /\ current < ContentAt, RebuildFTS(tx, p))

StampUserVersion(p) ==
  Step(p, "stamp", "commit", TRUE, [tx EXCEPT !.version = Version[p]])

Commit(p) ==
  /\ pc[p] = "commit"
  /\ db' = tx
  /\ lock' = NoProc
  /\ Goto(p, "open")
  /\ UNCHANGED <<tx, current, restarts, missed>>

\* A statement fails, COMMIT stays BUSY, the context is cancelled or the
\* process dies: nothing of the transaction survives.
Abort(p) ==
  /\ pc[p] \in InTx
  /\ Rollback(p, "failed")

Reopen(p) ==
  /\ pc[p] \in {"failed", "rejected"}
  /\ restarts < MaxRestarts
  /\ restarts' = restarts + 1
  /\ Goto(p, "preread")
  /\ UNCHANGED <<db, tx, lock, current, missed>>

\* An open handle of this release stores a row (a catalog row with its scope);
\* its statements wait for the write lock like everyone else's.  The full-text
\* delete and insert, and the typed insert in its savepoint, may fail with a
\* warning: the row is committed with no entry or the one it had.
Write(p, r) ==
  /\ pc[p] = "open" /\ Version[p] >= ScopedAt
  /\ lock = NoProc
  /\ r \notin LegacyRows
  /\ \E indexed \in BOOLEAN, cleared \in BOOLEAN, projected \in BOOLEAN :
       /\ db' = [db EXCEPT !.rows = @ \cup {r},
                           !.typed = IF projected THEN @ \cup {r} ELSE @,
                           !.fts[r] = IF indexed THEN LayoutOf(Version[p])
                                      ELSE IF cleared THEN 0 ELSE @,
                           !.catalogSynced = @ \/ r \in CatalogRows]
       /\ missed' = IF indexed THEN missed \ {r} ELSE missed \cup {r}
  /\ UNCHANGED <<tx, lock, current, pc, restarts>>

Open(p) ==
  \/ PreRead(p) \/ BeginImmediate(p) \/ Timeout(p)
  \/ ReReadTooNew(p) \/ ReRead(p)
  \/ MigrateResourcesCompositeKey(p) \/ MigrateResourcesFTSRowIDs(p)
  \/ CreateTables(p) \/ MigrateAssistScopedCatalog(p)
  \/ MigrateResourcesFTSContent(p) \/ StampUserVersion(p) \/ Commit(p)

Next ==
  \E p \in Procs :
    \/ Open(p) \/ Abort(p) \/ Reopen(p)
    \/ \E r \in Rows : Write(p, r)

\* A process that has begun to open keeps running; nothing forces it to retry.
Fairness == \A p \in Procs : WF_vars(Open(p))

Spec == Init /\ [][Next]_vars /\ Fairness

-----------------------------------------------------------------------------
\* The second version read is load-bearing: no interleaving of an older and a
\* newer binary lowers user_version (store.go, comment at the re-read).
NeverDowngraded == [][db'.version >= db.version]_vars

\* A handle that opened with version v works on a schema of at least v, for as
\* long as it stays open and whatever other binaries open the file meanwhile.
OpenHandleSupported == \A p \in Procs : pc[p] = "open" => db.version >= Version[p]

\* The stamp is written last and commits with the rewrites, so a file that says
\* v has every rewrite up to v behind it: composite key, every row in the content
\* index unless its own insert there failed since, no entry of an older layout, and
\* no catalog row whose institution/year is unknown.
StampMeansMigrated ==
  /\ db.version >= CompositeAt => db.table = "composite"
  /\ db.version >= ContentAt   => \A r \in db.rows :
                                    db.fts[r] = 4 \/ (db.fts[r] = 0 /\ r \in missed)
  /\ db.version >= ScopedAt    => (db.rows \cup db.typed) \cap LegacyRows = {}

\* Rebuilding the table loses no row that can still be used, not even one a
\* concurrent process stored while this one waited for the lock.
UsableRowsKept == [][db.rows \ LegacyRows \subseteq db'.rows]_vars

\* Opening is one atomic step of AtomicMigration, for whoever reads the file or
\* holds a handle: each gated rewrite, run or skipped, from whatever release the
\* file comes, adds up to the file this binary's release would have written.
Handle == [p \in Procs |-> IF pc[p] \in Settled THEN pc[p] ELSE "opening"]
Atomic == INSTANCE AtomicMigration WITH file <- db, handle <- Handle
AtomicOpens == Atomic!Spec

\* Open always returns: the lock is given back on every path, and a process
\* that cannot get it stops at its deadline.
OpenReturns == \A p \in Procs : pc[p] = "preread" ~> pc[p] \in Settled
=============================================================================
