---------------------------- MODULE CatalogMirror ----------------------------
(***************************************************************************)
(* The local mirror of the ASSIST catalogs.                                *)
(*                                                                         *)
(* A catalog (courses, departments or prefixes) is kept per scope, an       *)
(* institution in an academic year.  Client processes share one SQLite file *)
(* and one directory of cached responses:                                   *)
(*   sync   syncResource (internal/cli/sync.go): fetch, UpsertBatch,        *)
(*          SaveAssistCatalogSnapshot;                                      *)
(*   full   sync --full, which also prunes with ReconcilePartition;         *)
(*   auto   resolveAssistScopedCatalogRead (cli/assist_scoped_read.go):     *)
(*          a read through the five-minute response cache that writes what  *)
(*          it got through to the store, and falls back to local rows;      *)
(*   live   the same read without the write-through;                        *)
(*   local  the same read from the store alone;                             *)
(*   diff   catalog diff (cli/catalog_diff.go): two scopes from the store.  *)
(* Each store call is one SQLite transaction; between two of them, and      *)
(* between the network and any of them, another client may run, and a       *)
(* client may fail or be killed.  sync_state, which none of these reads      *)
(* consults, is left to the freshness check.                                *)
(***************************************************************************)
EXTENDS Naturals

CONSTANTS
  Clients,     \* processes
  Scopes,      \* (institution, year) partitions of one resource type
  Ids,         \* bare API ids of catalog rows
  Filters,     \* for each combination of filter flags, the ids it lets through
  Jobs,        \* the runs a user may start
  NoEntry,     \* no cached response
  MaxRuns,     \* bound: how many runs are started
  MaxChanges,  \* bound: how often the published catalog changes
  MaxLost      \* bound: how many batches lose a typed row or an index entry

Ops == {"sync", "full", "auto", "live", "local", "diff"}

\* capped: --max-pages 1 (or --latest-only, or the dogfood limit).
JobRecord == [op : Ops, scope : Scopes, other : Scopes, filter : Filters, capped : BOOLEAN]

ASSUME JobsAssumption    == Jobs \subseteq JobRecord /\ Jobs # {}
ASSUME FiltersAssumption == Filters \subseteq SUBSET Ids
ASSUME BoundsAssumption  == {MaxRuns, MaxChanges, MaxLost} \subseteq Nat

VARIABLES
  upstream,  \* upstream[s]: the ids ASSIST publishes now
  rows,      \* rows[s]: rows of the resources table whose _assistScope is s
  typed,     \* typed[s]: those with a row in the catalog's own table
  fts,       \* fts[s]: those with an entry in resources_fts
  stray,     \* a row was stored without a scope (upsertSingleObject)
  snap,      \* snap[s]: assist_catalog_snapshots has a row for s
  cache,     \* cache[s][f]: the response on disk for scope s and filter f
  client,    \* client[c]: what each client runs, where it is, what it holds
  counts,    \* counters for the bounds
  ever,      \* history: ids s has ever published
  fetched    \* history: s was fetched and the response taken for a whole page

store == <<rows, typed, fts, stray, snap>>
world == <<upstream, ever>>
vars  == <<store, world, cache, client, counts, fetched>>

\* A 200 body: an array of records; JSON that is not a list and is stored as a
\* single object; an envelope that reports failure with null data; not JSON.
\* whole is history: everything the scope published at that moment.
Kinds    == {"list", "single", "failure", "nonjson"}
Response == [kind : Kinds, ids : SUBSET Ids, whole : SUBSET Ids]
NoResp   == [kind |-> "nonjson", ids |-> {}, whole |-> {}]
Nothing  == [s \in Scopes |-> {}]

Stages == {"idle", "fetch", "store", "reconcile", "snapshot", "get",
           "through", "record", "check", "checkOther", "load", "loadOther", "answered"}

\* answer[s]: the rows of s a local read or a diff has loaded.
\* clean is history: nobody else wrote the scope since this --full run began.
Client == [pc : Stages, job : Jobs, resp : Response,
           answer : [Scopes -> SUBSET Ids], clean : BOOLEAN]

TypeOK ==
  /\ {upstream, rows, typed, fts, ever} \subseteq [Scopes -> SUBSET Ids]
  /\ stray \in BOOLEAN
  /\ snap \in [Scopes -> BOOLEAN] /\ fetched \in [Scopes -> BOOLEAN]
  /\ cache \in [Scopes -> [Filters -> Response \cup {NoEntry}]]
  /\ client \in [Clients -> Client]
  /\ counts \in [runs : 0..MaxRuns, changes : 0..MaxChanges, lost : 0..MaxLost]

Idle == [pc |-> "idle", job |-> CHOOSE j \in Jobs : TRUE, resp |-> NoResp,
         answer |-> Nothing, clean |-> TRUE]

\* The mirror is as earlier runs left it, partial writes included; the cached
\* responses have expired.
Init ==
  /\ upstream \in [Scopes -> SUBSET Ids]
  /\ rows \in [Scopes -> SUBSET Ids]
  /\ typed \in [Scopes -> SUBSET Ids] /\ \A s \in Scopes : typed[s] \subseteq rows[s]
  /\ fts \in [Scopes -> SUBSET Ids] /\ \A s \in Scopes : fts[s] \subseteq rows[s]
  /\ snap \in [Scopes -> BOOLEAN]
  /\ stray = FALSE
  /\ cache = [s \in Scopes |-> [f \in Filters |-> NoEntry]]
  /\ client = [c \in Clients |-> Idle]
  /\ counts = [runs |-> 0, changes |-> 0, lost |-> 0]
  /\ ever = [s \in Scopes |-> upstream[s] \cup rows[s]]
  /\ fetched = snap

-----------------------------------------------------------------------------
At(c, stage) == client[c].pc = stage
Job(c)    == client[c].job
Op(c)     == Job(c).op
Scope(c)  == Job(c).scope
Resp(c)   == client[c].resp

GotoWith(c, stage, r) ==
  client' = [client EXCEPT ![c] = IF stage = "idle" THEN Idle
                                  ELSE [@ EXCEPT !.pc = stage, !.resp = r]]
Goto(c, stage) == GotoWith(c, stage, Resp(c))
Return(c)      == Goto(c, "idle")

\* c wrote the rows of its scope: --full runs on that scope are not alone.
GotoAfterWrite(c, stage) ==
  client' = [d \in Clients |->
    IF d = c THEN [client[c] EXCEPT !.pc = stage]
    ELSE IF Op(d) = "full" /\ Scope(d) = Scope(c) /\ ~At(d, "idle")
         THEN [client[d] EXCEPT !.clean = FALSE] ELSE client[d]]

\* ASSIST adds or withdraws records.
PublishedCatalogChanges(s) ==
  /\ counts.changes < MaxChanges
  /\ counts' = [counts EXCEPT !.changes = @ + 1]
  /\ \E ids \in SUBSET Ids :
       /\ upstream' = [upstream EXCEPT ![s] = ids]
       /\ ever' = [ever EXCEPT ![s] = @ \cup ids]
  /\ UNCHANGED <<store, cache, client, fetched>>

CacheExpires(s, f) ==
  /\ cache[s][f] # NoEntry
  /\ cache' = [cache EXCEPT ![s][f] = NoEntry]
  /\ UNCHANGED <<store, world, client, counts, fetched>>

Start(c, j) ==
  /\ client[c].pc \in {"idle", "answered"}
  /\ counts.runs < MaxRuns
  /\ counts' = [counts EXCEPT !.runs = @ + 1]
  /\ client' = [client EXCEPT ![c] = [Idle EXCEPT
        !.job = j,
        !.pc = CASE j.op \in {"sync", "full"} -> "fetch"
                 [] j.op \in {"auto", "live"} -> "get"
                 [] OTHER                     -> "check"]]
  /\ UNCHANGED <<store, world, cache, fetched>>

\* The client is killed, or its context is cancelled, between two store calls.
Crash(c) ==
  /\ client[c].pc \notin {"idle", "answered"}
  /\ Return(c)
  /\ UNCHANGED <<store, world, cache, counts, fetched>>

\* What the server may answer to a request for scope s under filter f.
Replies(s, f) ==
  {[kind |-> k, ids |-> IF k = "list" THEN upstream[s] \cap f ELSE {},
    whole |-> upstream[s]] : k \in Kinds}

-----------------------------------------------------------------------------
(* syncResource *)

Fetch(c) ==
  /\ At(c, "fetch")
  /\ \E r \in Replies(Scope(c), Job(c).filter) : GotoWith(c, "store", r)
  /\ UNCHANGED <<store, world, cache, counts, fetched>>

\* A transport or HTTP error, or an access warning: syncResource returns.
FetchFails(c) ==
  /\ At(c, "fetch")
  /\ Return(c)
  /\ UNCHANGED <<store, world, cache, counts, fetched>>

HasItems(c) == Resp(c).kind = "list" /\ Resp(c).ids # {}

\* Variant: the page cap does not count as an abnormal end.
CompleteDespiteCap(c) == Resp(c).kind # "nonjson"

\* outcome.complete: the only page was not cut by the cap and its body was JSON.
Complete(c) ==
  /\ Resp(c).kind # "nonjson"
  /\ HasItems(c) => ~Job(c).capped

AfterStore(c) ==
  IF ~Complete(c) THEN "idle" ELSE IF Op(c) = "full" THEN "reconcile" ELSE "snapshot"

\* UpsertBatch: one transaction.  A record whose typed insert fails keeps its
\* row (savepoint); one whose index insert fails keeps its row without an entry.
UpsertBatch(c) ==
  LET s == Scope(c)  ids == Resp(c).ids IN
  /\ rows' = [rows EXCEPT ![s] = @ \cup ids]
  /\ \E noType, noIndex \in SUBSET ids :
       /\ typed' = [typed EXCEPT ![s] = @ \cup (ids \ noType)]
       /\ fts' = [fts EXCEPT ![s] = (@ \cup ids) \ noIndex]
       /\ counts.lost + (IF noType \cup noIndex = {} THEN 0 ELSE 1) <= MaxLost
       /\ counts' = [counts EXCEPT !.lost = @ + (IF noType \cup noIndex = {} THEN 0 ELSE 1)]

Store(c) ==
  /\ At(c, "store")
  /\ \/ HasItems(c) /\ UpsertBatch(c) /\ GotoAfterWrite(c, AfterStore(c))
     \/ ~HasItems(c) /\ Goto(c, AfterStore(c)) /\ UNCHANGED <<rows, typed, fts, counts>>
  /\ stray' = (stray \/ Resp(c).kind = "single")
  /\ fetched' = [fetched EXCEPT ![Scope(c)] = @ \/ Complete(c)]
  /\ UNCHANGED <<snap, world, cache>>

\* The transaction fails, or the single object has no id.
StoreFails(c) ==
  /\ At(c, "store")
  /\ HasItems(c) \/ Resp(c).kind = "single"
  /\ Return(c)
  /\ UNCHANGED <<store, world, cache, counts, fetched>>

\* Variant: the victims' full-text entries stay.
ReconcilePartitionLeavesFTS(c, victims) ==
  /\ rows'  = [rows  EXCEPT ![Scope(c)] = @ \ victims]
  /\ typed' = [typed EXCEPT ![Scope(c)] = @ \ victims]
  /\ UNCHANGED fts

ReconcilePartition(c, victims) ==
  /\ rows'  = [rows  EXCEPT ![Scope(c)] = @ \ victims]
  /\ typed' = [typed EXCEPT ![Scope(c)] = @ \ victims]
  /\ fts'   = [fts   EXCEPT ![Scope(c)] = @ \ victims]

\* Variant: a typed row shields the generic row behind it.
VictimsWithTypedRow(c) == typed[Scope(c)] \ Resp(c).ids

\* The victims come from the generic table, so that a row without a typed
\* projection goes too; seenIDs is empty unless the response was a list.
Victims(c) == rows[Scope(c)] \ Resp(c).ids

Reconcile(c) ==
  /\ At(c, "reconcile")
  /\ ReconcilePartition(c, Victims(c))
  /\ GotoAfterWrite(c, "snapshot")
  /\ UNCHANGED <<stray, snap, world, cache, counts, fetched>>

\* A failed reconcile is reported as an event and the run goes on.
ReconcileFails(c) ==
  /\ At(c, "reconcile")
  /\ client' = [client EXCEPT ![c].pc = "snapshot", ![c].clean = FALSE]
  /\ UNCHANGED <<store, world, cache, counts, fetched>>

SaveAssistCatalogSnapshot(c) == snap' = [snap EXCEPT ![Scope(c)] = TRUE]

SaveSnapshot(c) ==
  /\ At(c, "snapshot")
  /\ SaveAssistCatalogSnapshot(c)
  /\ Return(c)
  /\ UNCHANGED <<rows, typed, fts, stray, world, cache, counts, fetched>>

\* Fatal for the resource.
SaveSnapshotFails(c) ==
  /\ At(c, "snapshot")
  /\ Return(c)
  /\ UNCHANGED <<store, world, cache, counts, fetched>>

-----------------------------------------------------------------------------
(* resolveAssistScopedCatalogRead *)

\* Only a list is accepted, and only auto writes it through.
AfterGet(c, r) == IF Op(c) = "auto" /\ r.kind = "list" THEN "through" ELSE "idle"

\* Variant: the cache key leaves out the path, hence the scope.
CachedUnscoped(c) == cache[CHOOSE s \in Scopes : TRUE][Job(c).filter]

\* cacheKey: the path, which names the scope, and the encoded query.
Cached(c) == cache[Scope(c)][Job(c).filter]

\* Variant: the miss reported by readCache is ignored.
GetCachedMissIgnored(c) ==
  /\ At(c, "get")
  /\ GotoWith(c, "through", Cached(c))
  /\ UNCHANGED <<store, world, cache, counts, fetched>>

GetCached(c) ==
  /\ At(c, "get")
  /\ Cached(c) # NoEntry
  /\ GotoWith(c, AfterGet(c, Cached(c)), Cached(c))
  /\ UNCHANGED <<store, world, cache, counts, fetched>>

\* The response is cached whatever its shape; the write may fail.
GetPublished(c) ==
  /\ At(c, "get")
  /\ Cached(c) = NoEntry
  /\ \E r \in Replies(Scope(c), Job(c).filter) :
       /\ cache' \in {cache, [cache EXCEPT ![Scope(c)][Job(c).filter] = r]}
       /\ GotoWith(c, AfterGet(c, r), r)
  /\ UNCHANGED <<store, world, counts, fetched>>

\* Only auto falls back to the store, and only on a network error.
GetFails(c) ==
  /\ At(c, "get")
  /\ \E stage \in {"idle"} \cup (IF Op(c) = "auto" THEN {"check"} ELSE {}) : Goto(c, stage)
  /\ UNCHANGED <<store, world, cache, counts, fetched>>

\* UpsertBatch, its three results dropped.
WriteThrough(c) ==
  /\ At(c, "through")
  /\ UpsertBatch(c)
  /\ GotoAfterWrite(c, "record")
  /\ fetched' = [fetched EXCEPT ![Scope(c)] = TRUE]
  /\ UNCHANGED <<stray, snap, world, cache>>

\* The batch fails (on to the snapshot all the same) or the store does not open.
WriteThroughFails(c) ==
  /\ At(c, "through")
  /\ \E stage \in {"record", "idle"} :
       /\ Goto(c, stage)
       /\ fetched' = [fetched EXCEPT ![Scope(c)] = @ \/ stage = "record"]
  /\ UNCHANGED <<store, world, cache, counts>>

\* SaveAssistCatalogSnapshot, its error dropped.
RecordSnapshot(c) ==
  /\ At(c, "record")
  /\ SaveAssistCatalogSnapshot(c) \/ UNCHANGED snap
  /\ Return(c)
  /\ UNCHANGED <<rows, typed, fts, stray, world, cache, counts, fetched>>

-----------------------------------------------------------------------------
(* Local reads and catalog diff *)

\* GetAssistCatalogSnapshot first: a scope nobody recorded is refused.
Check(c) ==
  /\ At(c, "check")
  /\ Goto(c, IF ~snap[Scope(c)] THEN "idle" ELSE IF Op(c) = "diff" THEN "checkOther" ELSE "load")
  /\ UNCHANGED <<store, world, cache, counts, fetched>>

\* Variant: only the first of the two snapshots is checked.
CheckOtherSkipped(c) ==
  /\ At(c, "checkOther")
  /\ Goto(c, "load")
  /\ UNCHANGED <<store, world, cache, counts, fetched>>

CheckOther(c) ==
  /\ At(c, "checkOther")
  /\ Goto(c, IF snap[Job(c).other] THEN "load" ELSE "idle")
  /\ UNCHANGED <<store, world, cache, counts, fetched>>

LoadScope(c, s, stage) ==
  /\ client' = [client EXCEPT ![c].answer[s] = rows[s], ![c].pc = stage]
  /\ UNCHANGED <<store, world, cache, counts, fetched>>

Load(c) ==
  /\ At(c, "load")
  /\ LoadScope(c, Scope(c), IF Op(c) = "diff" THEN "loadOther" ELSE "answered")

LoadOther(c) ==
  /\ At(c, "loadOther")
  /\ LoadScope(c, Job(c).other, "answered")

Sync(c) ==
  \/ Fetch(c) \/ FetchFails(c) \/ Store(c) \/ StoreFails(c)
  \/ Reconcile(c) \/ ReconcileFails(c)
  \/ SaveSnapshot(c) \/ SaveSnapshotFails(c)

Read(c) ==
  \/ GetCached(c) \/ GetPublished(c) \/ GetFails(c)
  \/ WriteThrough(c) \/ WriteThroughFails(c) \/ RecordSnapshot(c)
  \/ Check(c) \/ CheckOther(c) \/ Load(c) \/ LoadOther(c)

Next ==
  \/ \E s \in Scopes : PublishedCatalogChanges(s) \/ \E f \in Filters : CacheExpires(s, f)
  \/ \E c \in Clients : Sync(c) \/ Read(c) \/ Crash(c) \/ \E j \in Jobs : Start(c, j)

Spec == Init /\ [][Next]_vars

-----------------------------------------------------------------------------
\* Search and the typed tables never show a record the catalog does not hold:
\* pruning removes the typed row and the index entry with the generic row,
\* whatever partial write came before and whoever else is writing.
IndexesFollowRows == \A s \in Scopes : typed[s] \subseteq rows[s] /\ fts[s] \subseteq rows[s]

\* A row leaves the mirror only in a --full run over its own scope, which
\* finished its one page under no cap and read a body in JSON, and which did not
\* see the row; and if that body was the whole unfiltered list, the record was
\* not published when it was fetched, however long ago that is by now.
PruneEvidence ==
  [][\A s \in Scopes : \A i \in rows[s] \ rows'[s] :
       \E c \in Clients :
         /\ At(c, "reconcile") /\ Op(c) = "full" /\ Scope(c) = s
         /\ Resp(c).kind # "nonjson" /\ i \notin Resp(c).ids
         /\ Job(c).capped => Resp(c).ids = {}
         /\ Resp(c).kind = "list" /\ Job(c).filter = Ids => i \notin Resp(c).whole]_vars

\* Deletion mirroring: when a --full run comes to record its snapshot, and nobody
\* else wrote the scope while it ran, the scope holds exactly the records the
\* run fetched; a row whose typed projection had been lost is gone as well.
FullSyncMirrors ==
  \A c \in Clients :
    At(c, "snapshot") /\ Op(c) = "full" /\ client[c].clean => rows[Scope(c)] = Resp(c).ids

\* Scopes do not leak into each other, through the shared response cache or the
\* store: a row of an institution and year was once published for them.
RowsWerePublished == \A s \in Scopes : rows[s] \subseteq ever[s]

\* An offline answer has evidence behind it: every scope a local read or a
\* catalog diff answers for was fetched by somebody, and every record it shows
\* was once published for that institution and year.
AnswersHaveEvidence ==
  \A c \in Clients : At(c, "answered") =>
    \A s \in {Scope(c)} \cup (IF Op(c) = "diff" THEN {Job(c).other} ELSE {}) :
      fetched[s] /\ client[c].answer[s] \subseteq ever[s]

\* What the comment promises of a snapshot ("proven-complete", "so offline
\* comparisons can reject missing evidence"): it is recorded only on a response
\* that held everything the scope published at that moment.
SnapshotProvenComplete ==
  [][\A c \in Clients :
       client[c].pc \in {"snapshot", "record"} /\ client'[c] = Idle /\ snap' # snap
         => Resp(c).ids = Resp(c).whole]_vars

\* What ReconcilePartition asks of its caller ("must pass the COMPLETE,
\* successfully-enumerated seen-ID set"): a pruned record was not published
\* when the response it is pruned on was sent.
PrunedWasWithdrawn ==
  [][\A c \in Clients :
       At(c, "reconcile") /\ client'[c].pc = "snapshot"
         => (rows[Scope(c)] \ rows'[Scope(c)]) \cap Resp(c).whole = {}]_vars
=============================================================================
