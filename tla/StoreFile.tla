------------------------------ MODULE StoreFile ------------------------------
(***************************************************************************)
(* The SQLite file as one release or another writes it: its version stamp,  *)
(* the resources table, the typed catalog tables and the full-text index.   *)
(***************************************************************************)
EXTENDS Naturals

CONSTANTS
  Versions,     \* schema versions a file or a binary can have
  Rows,         \* rows of the resources table
  CatalogRows,  \* those of type courses, departments or prefixes
  LegacyRows    \* catalog rows written before rows carried _assistScope

ASSUME RowsAssumption == LegacyRows \subseteq CatalogRows /\ CatalogRows \subseteq Rows

\* Versions at which the gated rewrites came in.
CompositeAt == 2    \* primary key (resource_type, id)
ContentAt   == 4    \* resourcesFTSContentSchemaVersion
ScopedAt    == 10   \* catalog rows carry their institution/year scope

\* The layout of a full-text entry: 0 none, 1 rowid from the id alone,
\* 2 the first (type, id) rowids, 3 today's rowids, 4 searchable content.
Layouts  == 0..4
LayoutOf(v) == IF v < CompositeAt THEN 1 ELSE IF v < ContentAt THEN v ELSE 4

Database == [version : Versions, table : {"absent", "single", "composite"},
             rows : SUBSET Rows, typed : SUBSET Rows, fts : [Rows -> Layouts],
             catalogSynced : BOOLEAN]

\* The entries release v makes for these rows.
Index(rows, v) == [r \in Rows |-> IF r \in rows THEN LayoutOf(v) ELSE 0]

\* The entries file d has for these rows once release v has opened it: made anew
\* if the layout changed, as they were if not.
Reindexed(d, rows, v) ==
  IF LayoutOf(v) = LayoutOf(d.version)
  THEN [r \in Rows |-> IF r \in rows THEN d.fts[r] ELSE 0]
  ELSE Index(rows, v)

\* A file some earlier release left behind, or no file yet.  A row whose full-text
\* or typed insert failed has been stored without it.
WellFormed(d) ==
  /\ d.table = "absent" => d.rows = {} /\ d.version = 0
  /\ d.version >= CompositeAt => d.table = "composite"
  /\ d.version < ScopedAt  => d.rows \cap (CatalogRows \ LegacyRows) = {}
  /\ d.version >= ScopedAt => d.rows \cap LegacyRows = {}
  /\ d.typed \subseteq d.rows
  /\ \A r \in Rows : d.fts[r] \in IF r \in d.rows THEN {0, LayoutOf(d.version)} ELSE {0}
=============================================================================
