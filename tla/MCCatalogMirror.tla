-------------------------- MODULE MCCatalogMirror ---------------------------
(***************************************************************************)
(* Two clients on one mirror, in two instances: every kind of writer on the *)
(* catalog of one year, and offline readers over the catalogs of two years. *)
(***************************************************************************)
EXTENDS CatalogMirror, TLC

CONSTANTS one, two, y75, y76, algebra, biology

MCClients == {one, two}
OneYear   == {y75}
TwoYears  == {y75, y76}
TwoIds    == {algebra, biology}
OneId     == {algebra}

\* The list endpoint is asked for everything, or with a filter flag.
OneFilter  == {Ids}
TwoFilters == {Ids, {algebra}}

Run(op, scope, other, filter, capped) ==
  [op |-> op, scope |-> scope, other |-> other, filter |-> filter, capped |-> capped]

Plain(op, scope) == Run(op, scope, scope, Ids, FALSE)

\* Whatever can write the one scope.
WriterJobs ==
  {Plain(op, y75) : op \in {"sync", "full", "auto"}}
  \cup {Run("full", y75, y75, Ids, TRUE), Run("full", y75, y75, {algebra}, FALSE),
        Run("auto", y75, y75, {algebra}, FALSE)}

\* Offline readers, and enough writers to give them something to read.
ReaderJobs ==
  {Plain(op, y75) : op \in {"full", "auto", "live", "local"}}
  \cup {Plain("auto", y76), Run("diff", y75, y76, Ids, FALSE)}

\* Plain runs: no filter, no cap, nothing but synchronisation.
SyncJobs == {Plain(op, y75) : op \in {"sync", "full"}}

\* Reads of a catalog, with and without a filter flag.
FilteredReads == {Plain("auto", y75), Run("auto", y75, y75, {algebra}, FALSE)}

Symmetric == Permutations(MCClients)
=============================================================================
