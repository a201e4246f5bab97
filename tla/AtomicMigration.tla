-------------------------- MODULE AtomicMigration ---------------------------
(***************************************************************************)
(* What opening the store promises: a process that opens the file finds it   *)
(* as its own release would have written it, at once and for everybody, or   *)
(* it is turned away, or the open fails and the file is as it was.           *)
(* StoreMigration, with its lock, its rewrites and its aborts, implements it. *)
(***************************************************************************)
EXTENDS StoreFile

CONSTANTS Procs, Version

VARIABLES
  file,   \* the committed file
  handle  \* what each process has: "opening", "open", "rejected" or "failed"

vars == <<file, handle>>

Init ==
  /\ file \in {d \in Database : WellFormed(d)}
  /\ handle = [p \in Procs |-> "opening"]

Ends(p, how) == handle[p] = "opening" /\ handle' = [handle EXCEPT ![p] = how]

\* The rows a release keeps: one that scopes its catalogs has no others.
Kept(rows, v) == IF v >= ScopedAt THEN rows \ LegacyRows ELSE rows

\* The file of release v with the content of d.  A catalog whose rows had no
\* scope has not been synced.
Migrated(d, v) ==
  [version |-> v,
   table   |-> CASE v >= CompositeAt -> "composite"
                 [] v < CompositeAt /\ d.table = "absent" -> "single"
                 [] OTHER -> d.table,
   rows    |-> Kept(d.rows, v),
   typed   |-> Kept(d.typed, v),
   fts     |-> Reindexed(d, Kept(d.rows, v), v),
   catalogSynced |-> d.catalogSynced /\ (v >= ScopedAt => d.version >= ScopedAt)]

Migrate(p) ==
  /\ file.version <= Version[p]
  /\ Ends(p, "open") /\ file' = Migrated(file, Version[p])

Reject(p) ==
  /\ file.version > Version[p]
  /\ Ends(p, "rejected") /\ UNCHANGED file

Fail(p) == Ends(p, "failed") /\ UNCHANGED file

Reopen(p) ==
  /\ handle[p] \in {"failed", "rejected"}
  /\ handle' = [handle EXCEPT ![p] = "opening"] /\ UNCHANGED file

\* A row is stored, with the full-text entry and the typed projection that its
\* inserts could make: under the index of the file's own release, or none.
Write(p, r) ==
  /\ handle[p] = "open" /\ file.version >= ScopedAt /\ r \notin LegacyRows
  /\ \E entry \in {LayoutOf(file.version), file.fts[r], 0}, projected \in BOOLEAN :
       file' = [file EXCEPT !.rows = @ \cup {r},
                          !.typed = IF projected THEN @ \cup {r} ELSE @,
                          !.fts[r] = entry,
                          !.catalogSynced = @ \/ r \in CatalogRows]
  /\ UNCHANGED handle

Next ==
  \E p \in Procs :
    \/ Migrate(p) \/ Reject(p) \/ Fail(p) \/ Reopen(p)
    \/ \E r \in Rows : Write(p, r)

Spec == Init /\ [][Next]_vars
=============================================================================
