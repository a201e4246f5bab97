# A formal model of assist-pp-cli

`assist-pp-cli` is a command-line client of assist.org, the site that publishes
the transfer agreements and course catalogs of the California colleges. It keeps
a local mirror in SQLite, reads the API through a small response cache, answers
offline from the mirror, and learns from its own use in an append-only journal.
Nothing in it is a server: every invocation is a process of its own, and any
number of processes share one database file, one directory of cached responses
and one journal. What can go wrong is therefore mostly *between* processes, and
between the steps of one process that another one, a failure or a kill gets into.

This directory holds TLA+ modules translated from the Go source, configurations
TLC checks them with, and proofs TLAPS checks. Paths below are relative to the
repository (`src/`).

## The system

| Component | State | Operations | Shares / calls | What is hard |
|---|---|---|---|---|
| store: open and migrate (`internal/store/store.go`) | schema, `user_version` | `Open`, `migrate` and its gated rewrites | the file, with binaries of other releases | version read before the lock, death between rewrites, busy retries |
| store: rows (`store.go`, `assist_catalog.go`) | `resources`, typed tables, `resources_fts`, `assist_catalog_snapshots`, `sync_state` | `UpsertBatch`, `Upsert`, `ReconcilePartition`, `SaveAssistCatalogSnapshot`, `SaveSyncState` | every writer below | projections that may be missing, scope of a delete |
| sync (`internal/cli/sync.go`, `assist_sync_scope.go`) | one run's cursor, seen ids, `outcome.complete` | `newSyncCmd`, `syncResource` | client, store; a pool of workers | what counts as a complete enumeration, three transactions in a row |
| scoped catalog reads (`cli/assist_scoped_read.go`) | none | `resolveAssistScopedCatalogRead` in modes auto, live, local | client with cache, store | write-through of a cached or filtered response, fallback |
| catalog diff (`cli/catalog_diff.go`) | none | two snapshot checks, two loads | store, read-only | four queries without a transaction |
| HTTP client (`internal/client/client.go`) | response cache on disk, anonymous session | `do`, `readCache`, `writeCache`, `invalidateCache` | limiter, all reads | retries of what may have been done, stale session |
| freshness (`cli/auto_refresh.go`, `cliutil/freshness.go`) | reads `sync_state` | `EnsureFresh`, `autoRefreshIfStale` | sync, store | a stamp that is not evidence of a fetch, a 30 s budget |
| generic reads (`cli/data_source.go`) | none | `resolveRead`, `resolveLocal`, `writeThroughCache` | client, store | fallback only on network errors |
| rate limiter (`cliutil/ratelimit.go`) | rate, floor, ceiling, budget | `Wait`, `ObserveHeaders`, `OnSuccess`, `OnRateLimit` | client | three clamps on one number |
| learn journal (`learn/journal.go`, `derive.go`) | dated segments, (segment, byte) offset | append, retention, `DeriveFlagCorrections` | every invocation; candidates | late append, replay after a failure, two passes at once |
| candidates and events (`store/candidates.go`, `events.go`) | `learn_candidates`, `learn_events` | derive, confirm, reject, expire, purge | derivation, teach commands | tombstones under concurrent transitions |
| lookups (`learn/lookups/store.go`) | `entity_lookups`, recorded misses | `RefreshFromSynced`, `RecordMisses` | sync, recall | a cap counted before it is filled |
| recall, teach, playbooks (`learn/*`, `store/learnings.go`, `playbooks.go`) | learnings, patterns, playbooks | match, upsert, promote, synthesize, seed | store, lookups, candidates | two normalisers of one question, rows read before they are written |
| answers (`cli/advisor_*.go`, `assist_resolution.go`, `json_diff.go`, `helpers.go`) | none | resolution, reports, diffs, `--select`, `--compact` | several reads each | ties between names, pointers, fields taken away in two ways |
| MCP server (`internal/mcp`) | none between calls | tools | the command tree | |
| the rest: config, paths, credentials, `cache`, fan-out, diagnostics, entry points | files and environment | | | sequential |

What makes each correct, in a sentence:

* **open/migrate** – a version stamp never overstates what the file holds, is
  never lowered, no usable row is lost, and an open always returns;
* **mirror** – a row goes only when a complete enumeration of its own scope did
  not show it; projections go with it; scopes never mix; an offline answer has a
  fetch behind it;
* **bodies and reads** – what sync stores, what a live read writes through and what
  an offline read finds agree; a guess about a body's shape neither hides records
  nor completes a scope that was not shown; a paged read is complete or says so;
* **sync command** – every resource is reported once, a stamp never runs ahead of
  its rows, the command ends;
* **client** – a call ends in a body or an error, and no cached response falls
  behind a mutation that completed;
* **limiter** – the pace stays between the floor and the user's cap, and within what
  the server has shown or has last refused;
* **journal** – the offset passes over nothing that was not consumed, no
  correction is lost, and none counted twice by passes that do not overlap;
* **candidates and playbooks** – a rejected signature stays rejected until it is
  purged on purpose, what was confirmed has its playbook, amendments survive;
* **recall** – a question asked as it was taught is answered, "exact" means the
  entity asked for, a refresh heals the misses it can, and no hit makes way for one
  that ranks lower;
* **answers** – a diff rebuilds, a name resolves alike in any order, and no row is
  lost, emptied or changed by a flag, but that `--compact` rounds numbers.

## Modules

| Module | Models | Runs |
|---|---|---|
| `StoreFile` | the file as one release or another writes it | extended by the next two |
| `AtomicMigration` | the promise: opening the file is one atomic migration | `store_migration`, implemented by the next |
| `StoreMigration` | opening one file by binaries of several releases | `store_migration` |
| `CatalogMirror` | sync, scoped reads and diff on the mirror of the scoped catalogs | `catalog_mirror`, `catalog_offline`, `snapshot_evidence`, `prune_evidence` |
| `ResponseBody`, `GenericRead` | what a body is taken for, by sync, write-through, the pager and the store; the generic reads and the mirror they share with sync | `generic_read` |
| `SyncCommand` | the sync command with its workers, `sync_state`, freshness and auto-refresh | `sync_command` |
| `RateLimits`, `RateLimiter` | the adaptive limiter that the calls of one client share | in `http_client` |
| `HttpClient` | calls, retries, session, cache and invalidation of one process | `http_client` |
| `LearnJournal` | the invocation journal and the derivation of flag corrections | `learn_journal` |
| `Positions` | the elements of a sequence at some of its positions, in order | extended by `LearnJournal` and `LearnRecall` |
| `LearnStore` | candidates, playbooks and the seeding of embedded playbooks | `learn_store` |
| `QueryMatch`, `LearnRecall` | normalisation, entities, matching and patterns; teach, recall, forget, lookups and events of several processes | `learn_recall` |
| `Json`, `JsonTree`, `Resolution`, `AssistAnswers`, `AssistTrees` | JSON values; diff and projection; names to identifiers; the commands that compose an answer from several reads; their walks through whole responses | `assist_answers` |
| `MC...` | an instance of each for TLC | |
| `...Proofs` | theorems for all constants: `StoreMigration`, `CatalogMirror`, `HttpClient` (with `RateLimiter` and `AssistAnswers`), `SyncCommand`, `GenericRead`, `LearnJournal`, `LearnStore`, `LearnRecall` | TLAPS |

Modules meet where components do. `HttpClient` uses `RateLimiter` through an
instance: its steps take the limiter's, and `PaceJustified` is about what the
workers make of it together. `GenericRead` puts the body rules of
`ResponseBody` under the interleaved commands, `LearnRecall` those of
`QueryMatch`, and `AssistAnswers` those of `Resolution`; `AssistTrees` gives both
the trees of `JsonTree`.
`CatalogMirror` treats a body as one of four kinds, which `ResponseBody` tells
apart; `SyncCommand` treats the rows of `CatalogMirror` as one answer with an
age; `LearnJournal` ends where a pair becomes a candidate, and `LearnStore`
begins there (`Observe`).

Definitions whose name or comment says *mutant* or *variant* are variants with a
plausible bug, one per property. Nothing uses them; they are kept to show that the
property it belongs to would notice.

### StoreMigration

`db` is the committed file, abstracted to what the rewrites change: the version
stamp, the shape of the `resources` table, which rows exist and have a typed
row, the layout of each row's full-text entry, and whether the catalogs count as
synced. `tx` is the uncommitted image of the process inside `BEGIN IMMEDIATE`.
Processes differ in `Version[p]`, the `StoreSchemaVersion` compiled into them:
this is how an older and a newer binary meet, as the comment at the second
`PRAGMA user_version` read describes.

One action per step of `migrate`: `PreRead`, `BeginImmediate`, `ReRead` or
`ReReadTooNew`, then `MigrateResourcesCompositeKey`, `MigrateResourcesFTSRowIDs`,
`CreateTables` (backfill, `CREATE ... IF NOT EXISTS`, extras),
`MigrateAssistScopedCatalog`, `MigrateResourcesFTSContent`, `StampUserVersion`
and `Commit`, in the order and under the gates of the code. `Abort` is any
failing statement, an exhausted COMMIT retry, a cancelled context or a dead
process: SQLite rolls back. `Timeout` is the shared deadline of `retryOnBusy`.
`Write` is an open handle of version 10 or later storing a row while others
open. The delete and the insert of its full-text entry are warnings when they fail
(`store.go:1075-1086`), and a typed insert rolls back to its savepoint, so a row may
be committed without either; the history variable `missed` keeps these rows, and
`StampMeansMigrated` lets them, and no others, be missing from the index. A file starts as any release left it (`WellFormed`), including one without
a stamp; `StoreFile` says what that is for every version, and is shared with
`AtomicMigration`. There a successful open is one step, `Migrate`, to
`Migrated(file, Version[p])`: the file with the same content as the release of
the binary would have written it. `AtomicOpens` says that `StoreMigration`
implements it, with the committed file as `file` and `Handle` hiding where in the
transaction a process is. Since the abstract step is a function of the old file
and the new version alone, this rules out a rewrite that one upgrade path skips,
that leaves part of the file behind (the mutant forgets `sync_state` of the
catalogs it purges), or that shows before the commit. External to the code, and trusted: SQLite's atomic commit and its single
write lock.

### CatalogMirror

A catalog is partitioned by scope, `institution:year`. Per scope the model keeps
what ASSIST publishes (`upstream`), the rows of the generic table (`rows`), those
with a typed row (`typed`) and a full-text entry (`fts`), whether a snapshot is
recorded (`snap`), and the cached response per combination of filter flags
(`cache`). A row is its id: contents, titles and timestamps are left out.
`client[c]` is one process and its place in the code:

```
sync, full : fetch -> store -> [reconcile] -> snapshot -> idle
auto, live : get -> [through -> record] -> idle,  get -> check -> load (auto, network error)
local      : check -> load -> answered
diff       : check -> checkOther -> load -> loadOther -> answered
```

Each action is one SQLite transaction, one request, or one file of the cache,
with its failure as an action beside it (`StoreFails`, `ReconcileFails`, ...);
`Crash` is a kill between any two. What the body of a 200 was is one of four
kinds: a list (possibly empty), a document stored as a single object, a failure
envelope, or no JSON at all, as `extractPageItems`, `isEmptyPageResponse` and
`isJSONResponse` tell them apart. `Complete` is `outcome.complete`. Batches may
lose a typed row (its savepoint rolls back) or an index entry (a warning). The
catalogs have no pagination, so a run has one page and the cap can only be hit
on it. `ever`, `fetched`, `whole` and `clean` are history variables: they record
what happened and no guard reads them.

### ResponseBody and GenericRead

Four pieces of code read the same bodies with tables of their own:
`extractPageItems` and `isEmptyPageResponse` (sync), `extractWriteThroughItems`
and its neighbours (`data_source.go`), the page walker (`helpers.go`), and the
store's `ExtractResourceID`. Comments ask them to agree. `ResponseBody`
translates each as an operator on JSON values, with the order in which paths,
envelope keys, fallbacks and id fields are tried.

In `GenericRead` commands run one after the other on one mirror: an endpoint read
(auto, live, local; answered, refused or unreachable) or the sync of a resource,
with or without `--full`. A command is one step, since each stores its rows in one
transaction. The write-through is best effort: `LiveRead` shows the reply whether the
store took it (`cached`) or not, and `OfflineKeepsWhatWasShown` is about the replies
it took; `SyncFails` is a batch that is not stored, which ends the resource in an
error. `Walk` is `paginatedGet` (reached only from `resolvePaginatedRead`, which no
command of this commit calls), one request per step, over a server that
pages a collection of known items by cursor, page or offset and declares its end
in the ways endpoints do. The history variables `shown` and `batch` keep what was
displayed and what the last sync concluded.

### SyncCommand

A process is its main goroutine (`proc`) and the goroutines that run
`syncResource` (`unit`). `sync` feeds the resources to a channel, the workers
take them, fetch, store, stamp and send; the main goroutine counts the results
and picks the exit code (`Exit`, with `--strict`). A reading command decides by
`EnsureFresh` (`Decide`) and refreshes one resource after the other inside the
thirty-second budget (`Expire`). The stamp of `SaveSyncState` carries two things:
when it was written, and, as history, when the answer behind it was fetched;
`answered` is the age of what the store holds. `Kill` may come between any two
steps.

### RateLimiter and HttpClient

`RateLimiter` is the limiter on its own: rate, ceiling, best budget, successes in
a row. Each method holds the mutex, so it is one action: headers, a success, a
429. Rates are integers of a unit `Unit`; the sleep of `Wait` changes nothing.

`HttpClient` is one process with any number of workers on one `Client`: the
session bootstrap behind `publicSessionMu`, the retry loop of `doInternal` with
its ways out, cancellation, the response cache with `writeCache` in its two steps
(truncate, write), and `invalidateCache` of every verb that is not GET. The
server answers, refuses, throttles, breaks, or its answer is lost on the way, and
a POST may have been applied all the same. `version` counts the mutations the
resource has seen; `mark` is what the last completed one left.

### LearnJournal

Dated segments are sequences of tokens: an entry, a newline, or the fragment a
torn write leaves; the look back for a recall takes the last unfinished piece for a
line too (`Pieces`), and a segment it cannot read, which it skips, is not modelled.
Every file operation of a command is an action: the repair of
the tail and the open (`Begin`, `Fix`), the append (`Write`, `WriteTorn`), the
removals of retention (`RemoveSegment`), then the derivation pass: `Load` of the
offset and the listing, `Read` of each segment, `Decide` (hold the batch, or pair
failures with corrections), `Derive` of each pair in its own transaction, and
`StoreOffset`. A segment deleted under an open file takes the entry with it
(`unlinked`). There is no lock anywhere, as in the code. `Scripts` lists the orders
in which commands are started; processes interleave freely within them.

### LearnStore

One query family: its two candidates (a flag correction and a synthesized
playbook), its playbook row under the current key and under the key an older
version used, and the sentinel of the seeding. Each store call is one transaction;
a command is several, so what it read may be stale when it writes: `teach` with
its promotion (`List`, `Check`, `Promote`) and its synthesis (`Gate`,
`Synthesize`, `ReadBack`, `Refresh`), `learnings confirm`, `reject` and `purge`,
`playbook amend`, `teach-playbook`, the pass over the journal (`Observe`), the
seeding (`SeedStart` to `SeedMark`), and the lookup that moves an old key
(`Lookup`, `Rekey`). `Stop` is a kill or a failing call anywhere, and `LogAndGoOn`
the failing calls that `teach` only logs; a seeding that cannot read the sentinel or
a playbook goes on as if there were none. The row id of a purged candidate may be
given out again, and `ConfirmCandidate` confirms whatever its id names by then. The
seeding is modelled for embedded playbooks that have a query to be keyed by; this
commit embeds only `*.md` (`playbooks/embed.go:26`), so its own binary seeds none and
writes the sentinel alone, and a playbook without examples is likewise skipped with
the sentinel written. `SeedComplete` and the seeding half of `MarksKept` are about
binaries that embed one.

### QueryMatch and LearnRecall

`QueryMatch` has the two normalisers that key a question (`store/learnings.go`
when it is taught, `learn/normalize.go` when it is recalled), entity lookups,
scoring and verdicts of a stored row, and the inference and application of
patterns. A question is a sequence of words with their capitals; a score is a
fraction. An id is a prefix, a value and further parts; the two relations
`LikeMatches` and `LikeBegins` say which parts SQLite's LIKE takes for others, in
another case, through a wildcard or because more text follows. `LearnRecall` runs
commands on it: a teach (row by row, then its event and the pattern extraction), a
recall (its reads are one step, the event another), forget, taught lookups and
patterns, the pruning of events, and the refresh of lookups that ends a sync,
statement by statement. An answer is cut to `Limit` hits, the patterns' among
themselves first, and hits that tie are kept in any way. A failing statement ends a
teach, a collection (`Fails`) or a refresh with what it has still to insert; misses
and events may go unrecorded. Ids of rows are never reused (`AUTOINCREMENT`), which
is what `ReuseIsOfTheRow` rests on.

### Json, JsonTree, Resolution, AssistAnswers and AssistTrees

`JsonTree` has `json_diff.go`, `--select`, `--compact` and the envelopes of
`helpers.go` on JSON trees whose keys are sequences of pieces, so that a "/" or
"~" in a key matters, and whose numbers are numerals: 3.0 is not 3, until `--compact`
takes an answer through maps of any and float64 (`AsFloats`); a diff, `--select` and
the envelopes leave them as they were read. `Resolution` is how institutions, years, courses and
partners are found by name, code or id, what is refused before any record is looked
at, and which record of a course is kept (`Texts` orders them). `AssistAnswers` is the commands: each
read is a step, and what it returns does not depend on what an earlier one
returned, since ASSIST may publish and a sync may store in between.

What is recursive on a whole tree (the record list of a response, the terms of a
names field, the diff, the projection) is an operator constant of these two modules,
so that they can be proved about. `AssistTrees` defines the walks, and
`AssistAnswers.cfg` gives the constants their values from there and from `JsonTree`.
The names of the state and of the specification (`step`, `AnswersSpec`) differ from
those of `HttpClient`, so that one module of proofs can extend both.

## Runs

| Run | Instance | Shows |
|---|---|---|
| `store_migration` | binaries 9, 10, 11; files of versions 0, 2, 3, 9, 10, 11; three rows (plain, unscoped and scoped catalog row); one retried open | `OpenHandleSupported`, `StampMeansMigrated`, `NeverDowngraded`, `UsableRowsKept`; the refinement `AtomicOpens`; `OpenReturns` under fairness |
| `catalog_mirror` | two clients, two runs in all, one scope, two ids, two filters, one change upstream, one damaged batch; jobs: sync, full, full with cap, full with filter, auto, auto with filter | types; `IndexesFollowRows`, `FullSyncMirrors`, `PruneEvidence` |
| `catalog_offline` | two clients, two runs, two scopes, one id, one change; jobs: full, auto in either year, live, local, diff | `RowsWerePublished`, `AnswersHaveEvidence` across scopes |
| `generic_read` | two commands over some hundred bodies (lists, items with every kind of key, envelopes with a second field beside the list, nested envelopes); paginators of three types over 0 to 5 items in pages of 1 or 2 | a full sync spares its own rows; no body with one list counts as empty; sync takes that list; offline answers keep what was shown; a complete walk has every item once |
| `sync_command` | a process that runs `sync --full` of two resources or a dry run naming one twice, with two workers; one that reads and refreshes; a kill, two ticks | `StampAfterRows`, `ReportedOnce`; `CommandsEnd` under fairness |
| `http_client` | two workers, two calls of any kind, one retry, one mutation, three header budgets, live and verifier | `CacheFollowsMutations`; `PaceJustified`; `CallsEnd` under fairness |
| `learn_journal` | two processes, three invocations in five orders, three days, segments kept for a day within five tokens, one fault | types; `NothingSkipped`, `CorrectionsCounted`, `CountedOnceAlone`, `AnchoredToLastRecall` |
| `learn_store` | two processes, five commands of fifteen kinds, three initial stores | `ConfirmedHasArtifact`, `SeedComplete`, `TombstonesStay`, `FreshSurvivesPurge`, `MarksKept` |
| `learn_recall` | two processes, four commands (at most two teaches, two recalls, two syncs, a forget, another), three questions, a synonym, a seeded and a taught lookup, a taught pattern, two catalog rows, one of which only begins as a template does, one result, cap 1, two events kept | `VerbatimRecall`, `ExactMeansSameEntity`, `ReuseIsOfTheRow`, `RefreshHeals` |
| `assist_answers` | every command over responses chosen to collide: shared names of different rank, codes that only compact alike, keys with "/" and "~", 3.0 beside 3, records that are no objects, uneven rows; six sets of output flags | `DiffRebuilds`, `ResolutionIgnoresOrder`, `AnswerSurvives` |
| `snapshot_evidence` | reads with and without a filter | **violated**: a filtered read records a snapshot |
| `prune_evidence` | plain sync and full sync | **violated**: a body that is no list prunes the scope |

**Bounds.** Two processes are what every race in this code needs, since all of
them are between one read and one write; the third of the migration gives a binary
on either side of this release.

* *Mirror.* `MaxRuns = 2` lets two runs overlap at every step, and the initial
  states already include any mirror earlier runs leave behind (partial
  projections, snapshots, rows no longer published), so a third run adds no new
  starting point. Two ids separate "kept" from "pruned" in one batch, two filters
  "all" from "some", two scopes "mine" from "theirs". `MaxChanges = 1` makes the
  response a client holds differ from what is published; `MaxLost = 1` damages
  one batch.
* *Generic reads.* The first command sees every body, the second a few: what a
  later command can meet is rows of the first. Five items in pages of two give a
  full, a short and a missing last page; `MaxPages = 4` is hit by pages of one.
* *Sync command.* `StaleAfter = 1` and `MaxTime = 1` put a stamp on either side of
  the staleness budget. A list naming a resource twice makes "exactly once" mean
  as often as it is named.
* *Client.* `MaxRetries = 1` has a first, a middle and a last attempt; the rates
  (4, floor 2) reach both clamps by one header, one success or one 429. The
  proofs have no such bounds.
* *Journal.* Three invocations are the shortest correction with something in
  between; three days put a live, a pruned and a next segment beside one another;
  five tokens are two lines and a half, so that retention acts.
* *Candidates.* Five commands: derive, reject, derive again, purge and one to race
  with. Payloads of one or two steps make a later episode shorter or longer.
* *Recall.* Questions differ in one respect each from the taught ones (capital,
  synonym, stopword, entity). `Cap = 1`, `MaxEvents = 2` and `Limit = 1` are reached:
  one question is taught two resources, and a row and a pattern compete for another.

Processes are interchangeable in `catalog_*`, `learn_journal`, `learn_store` and
`learn_recall`, hence the symmetry; only safety is checked under it.

**Deadlock** is not checked: processes stop when they have returned and the
bounds on retries, runs and commands are used up.

**Fairness.** Three liveness properties need some, and each only of steps the code
takes by itself:

* `OpenReturns`: `WF(Open(p))`, a process that has begun to open the store keeps
  executing. `retryOnBusy` checks its deadline after every attempt, so the wait
  for the lock ends by `BeginImmediate` or by `Timeout`.
* `CallsEnd`: `WF(Step(w))` for each worker. A request ends by its answer or by the
  timeout of the `http.Client`, a sleep ends, and Go hands a mutex to a waiter
  eventually. The server may answer as it likes for ever; that retries are
  bounded is what makes the call end.
* `CommandsEnd`: weak fairness of each process as a whole: some goroutine that can
  run does. It is the closing of the work channel, and workers that go on after a
  failure, that make the command end.

Nothing is assumed of kills, cancellations, expiries, ticks or the user. The other
properties are safety properties: nothing in that code promises progress against
an unavailable server.

## What the models found

Two disagreements between the code and its own text are runs.

*snapshot_evidence.* `sync.go:819` calls ASSIST catalogs "complete
institution/year snapshots" and records "every proven-complete snapshot ... so
offline comparisons can reject missing evidence". A snapshot is also recorded by
`assist_scoped_read.go:93` after any list read in auto mode, and when that read
carried a filter (`courses list --prefix ...`) only the filtered courses have been
stored. `catalog diff` then finds its snapshot and reports the others as added
or removed. The counterexample is one client: start, get, write through, record.

*prune_evidence.* `ReconcilePartition` asks (`store.go:2669`) that "the caller
must pass the COMPLETE, successfully-enumerated seen-ID set for the partition".
In `syncResource` a 200 body that yields no items but is JSON, such as
an object or `{"success": false, "data": null}`, ends the run as complete with no
seen ids; `--full` then deletes every row of the institution and year although
they are all still published. `PruneEvidence` states the guarantee that does
hold: the scope, the cap, and a body that was JSON.

More came up while modelling; the models contain the behaviour, and the
property stated is the weaker one that holds.

* *A correction may be counted twice.* `derive.go:90` says a correction is
  "counted exactly once". Two commands that end together load the same offset, pair
  the same lines and each call `DeriveCandidate`; so does a pass killed between
  that call and `StoreJournalOffset` and the one after it. `CorrectionsCounted`
  (never lost) and `CountedOnceAlone` (once, unless passes overlap or fail) hold.
* *A correction may be confirmed without its note.* `candidates.go:217` leaves the
  materialization to the caller and has it happen before `ConfirmCandidate`.
  `promoteCandidateOnTeach` (`learnings_candidates.go:570`) passes the id of a
  playbook candidate it listed two calls earlier. When that row has been purged in
  between, its id, of a table without `AUTOINCREMENT`, may belong to a flag
  correction, which is then confirmed although nobody wrote its note.
  `ConfirmedHasArtifact` names this one case and excludes every other.
* *A failing read drops amendments.* `playbook_init.go:222` wants notes of `playbook
  amend` to "survive binary upgrades". When `GetPlaybookByFamily` fails (line 235)
  `preserve` stays false and the upsert puts the seeded notes over them; so does an
  amendment made between the read and the upsert. `MarksKept` is what holds.
* *A playbook under an older key may be stranded.* `learn/playbooks.go:145` says
  "no stored row is ever stranded under a pre-fold key". `Rekey` moves the older
  row at the first recall, unless the family has a row under its new key by then:
  an amendment, a teach or a seeding before that recall makes one, and nothing
  reads the older row again.
* *A variant in two words is folded on one side.* `store/learnings.go:230`: "folding
  at the write path here plus the read path's entities.Config fold is what keeps
  teach and recall keyed alike". The write side splits the default variant "to-day"
  at its hyphen before it folds, the read side does not. "open to day students" is
  stored as "open today students" and asked for as "open", "day", "students": two of
  four tokens are common, below the floor of 0.6, and there is no hit.
* *Numbers are left out on one side.* `entities/extract.go:24` says that what is left
  of a question "after entities, tickers, and stopwords are removed" is "used for
  token-set Jaccard against the corresponding field on stored learnings". Recall
  rebuilds the stored side from the pattern and takes out entities and stopwords,
  but not tickers (`recall.go:349`), which in this CLI are numbers. "agreements 113
  75" misses the row taught in the same words. `VerbatimRecall` states, and
  `VerbatimIsFound` proves, that a question is found where these two and the smaller
  differences named below do not show (`Plain`).
* *A pattern's "exact" may be a namesake.* `learn/patterns/apply.go:160` marks every
  pattern hit "exact" because "substitution binding guarantees this". It does for a
  template that names one id. The prefix strategy takes the first stored id LIKE the
  template with anything behind it, so a question about "math" may be answered with
  "mathed", in any case and through a `_` or `%`. `ExactMeansSameEntity` allows this
  to prefix patterns and to nothing else.
* *A compacted diff may show a change from 3 to 3.* `agreements_diff.go` and
  `catalog_diff.go` decode with `UseNumber`, and `json_diff.go:20` describes a change
  as "a value that exists on both sides but differs". Under `--compact`, and so under
  `--agent`, `compactFields` (`helpers.go:1287`) decodes the finished diff into maps of
  any: 3.0 against 3 is printed before 3, after 3, and large integers are rounded.
  `DiffRebuilds` is exact without the flag and up to float64 with it.
* *An object may be emptied.* `compactListFields` keeps a row none of whose keys
  would be left, "so `--agent` does not silently emit {}" (`helpers.go:1318`); for a
  single object of nothing but `description`, `comments` and `attachments`,
  `compactObjectFields` prints `{}`. `AnswerSurvives` allows this case only.
* *Fresh does not mean fetched.* `sync --full` stamps every resource as synced now
  before it fetches anything (`sync.go:159`), and `freshness.go:22` treats the
  stamp as the last successful sync. A reading command beside such a sync, or
  after it was killed, decides "fresh" with no answer in the store, for up to 168
  hours. `StampAfterRows` is about the stamps written when a resource was done.

Observations of lesser weight, each visible in the model named:

* `ResponseBody`: sync takes a detail object with an id and an empty wrapper list
  for an empty page, where `data_source.go` caches it as one row; a body with two
  lists of records and one empty one counts as empty; `_embedded` is known to sync
  only; an envelope with an id of its own is stored as a row by write-through; a
  null `id` beside a `name` fails the typed upsert where the batch uses the name;
  `has_more: null` counts as false and `success: null` as failure.
* `GenericRead`: an offline detail read uses the last path segment as id, which
  may be the id of another endpoint's row; the offset walker advances by the page
  size it asked for, so a server that caps pages lower loses items
  (`WalkComplete` assumes it does not); a client timeout is not a network error to
  `isNetworkError`, though its comment names timeouts.
* `HttpClient`: a GET in flight across an invalidation writes its older body into
  the emptied cache (the exemption in `CacheFollowsMutations`); a mutation whose
  answer is lost never invalidates, and is sent again; `publicSessionReady` is
  never reset.
* `RateLimiter`: a 429 at the floor makes the floor the ceiling, after which the
  blind ramp cannot climb.
* `SyncCommand`: a refresh refused for lack of access counts as refreshed
  (`result.Warn` is not looked at).
* `LearnRecall`: verbatim questions also miss with punctuation inside a word, words
  written with and without a capital, or stopwords only one side knows (`Plain`
  names each difference: `Unbroken`, `Unnumbered`, `OneReading`, `WholeVariants`);
  forget leaves the patterns
  inferred from a teach, which still return its resource; two refreshes at once
  may exceed `PerKindCap`; forget of one resource drops the events of its whole
  family; a question with more than ten hits of one rank loses some of them.
* `JsonTree` and `AssistAnswers`: text behind the first JSON value of a coded
  string is dropped before a diff; a null result becomes `[]` under `--compact`;
  two records of one institution make it ambiguous with itself; "CHEM 25" and
  "CHEM2 5" are one text once compacted; an institution whose code is another's
  name wins over it without a word; two departments with one `parentId` make
  `catalog diff` fail; the sections of an advisor report may stem from different
  publications.

## Proofs

`StoreMigrationProofs` proves, for every set of processes, every assignment of
versions and every set of rows: `Spec => []StampMeansMigrated`,
`Spec => []OpenHandleSupported`, `Spec => NeverDowngraded`,
`Spec => UsableRowsKept`, the types, and `Spec => AtomicOpens`. Assumed are `VersionAssumption`, `RowsAssumption`,
`NoProcAssumption` and `MaxRestartsAssumption`, which only give the constants
their types (and place legacy rows among the catalog rows).

None of the first four is inductive: they speak of `db`, and `Commit` replaces `db` by
`tx`. `IInv` therefore says what the image owes to the file at each stage:

* `LockHeld` – whoever is inside the transaction holds the lock, so there is one
  image and no committed write while it exists;
* `ImageOfFile` – it starts as the file and keeps its usable rows;
* `CurrentVersion` – the version the gates test is the file's, at most the
  binary's (this is what the second read gives, and where a model without it
  fails);
* `TableStage`, `IndexStage`, `ScopeStage` – what the image has gained once a
  gate has been passed, whether its rewrite ran or was not needed;
* `Unscoped` – before version 10 nobody stored scoped catalog rows.

The refinement needs equality where `IInv` has bounds. `FileWhole` says that the
committed file is one its release has written; `ImagePart` gives every field of
the image at every stage as a function of the file, of the version found and of
the binary's, skipped rewrites included (`IndexVersion`, `TableOf`). At `commit`
that function is `Migrated`, so `Commit` maps to `Migrate`; each other step maps
to its namesake or to no step.

There is one lemma per action, `NextStep` puts them together, and `Invariance` is
`Spec => []IInv`. The action properties follow from `IInv` and the two actions
that change `db`, `Commit` and `Write`.

`CatalogMirrorProofs` proves, for all clients, scopes, ids, filters and jobs and
any values of the three bounds, every safety property the passing runs check of the
mirror: `TypeOK`, `IndexesFollowRows`, `RowsWerePublished`, `FullSyncMirrors`,
`AnswersHaveEvidence` and the action property `PruneEvidence`. Assumed are
`JobsAssumption`, `FiltersAssumption` and `BoundsAssumption`, which type the
constants. The response a client holds has to be related to the scope it will be
stored under, steps before that happens, so the inductive invariant is

* `FilesOK` – the store, the published catalogs and the cache agree with the
  history: each cached response is `Honest` for the scope and filter of its key,
  and a scope with a snapshot was fetched;
* `Holds` – each client's response is `Honest` for its own job: only records the
  scope has published, nothing unless it is a list, and everything published then
  if nothing was filtered; what it has loaded was published too;
* `Evidence` – a client past a check or a page has what that check or page
  showed: the scope was fetched, or the page ended `Complete`;
* `Mirroring` – an undisturbed `--full` run first has everything it saw stored
  and, once reconciled, nothing else.

`OthersOK` and `OthersDisturbed` carry the other clients over a step of one
client, so that each action's lemma is about the client that moves.
`OnlyReconcilePrunes` shows that no other action takes a row away.

`HttpClientProofs` first proves `PaceJustified` of the limiter by itself, for all
rates, caps and headers: the brake spends less than the refill rate, clamping
raises nothing but to the floor (`ClampBounds`), half of a rate is below nine tenths
of it, and a refusal leaves the refill rate alone once headers are seen. Every step
of the client is a call of one method of the limiter or leaves it alone (the lemma
`LimiterStep`, which holds by the shape of the client's actions and is no result),
so the client keeps it too (`ClientPaceJustified`). For the cache, what matters is the answer a worker still
carries: `FlightOK` says that it is no older than the last invalidating mutation
unless the invalidation came after it was answered, and `VersionsOK` that no
mark is ahead of the server; with them `CacheFollowsMutations` is inductive.
`ErrorsOK`, an attempt that is to be retried has its error, gives `NeverEmpty`.

The same module proves `ResolutionIgnoresOrder` of `AssistAnswers`, the commands that
compose several reads of the client (`NamesStandInAnyOrder`). `BestsMove` is the
reason: matches moved by a bijection of their positions have their best ones moved,
so there is none, one or several of them as before (`BestMoves`), and the least as
text among those of one course is the same record (`LeastMoves`; `TextsAssumption`
says that records that are one text are one record). The invariant `AnswersInv` keeps
what was resolved with the records and the names it was resolved from: reads that
come later only add to `got`, and none begins before its turn (`InTurn`). The theorem
holds for any operators in the place of the walks: it needs nothing of what they
find in a response.

`SyncCommandProofs` proves `StampAfterRows` for any processes, pools, lists and
kills. It is inductive together with `Carried`: a worker that is about to stamp
has, since it stored, an answer at least as new in the store; `answered` only
grows, so another command that syncs the same resource cannot undo it. `Staged`
says which goroutines may be running at which stage of their command.
`ReportsAreComplete` proves `ReportedOnce`. Its invariant `Accounted` follows every
resource through the pool: the places of a resource in the part of the list that
the feeder has passed are as many as its outcomes counted so far, those under way
in the channels, and the workers that hold it, of whom none is left when the pool
is done (`Staffed`, `Balanced`). The sum over workers is a cardinality (`HeldBy`),
so each action's lemma moves one resource from one term to the next.

`LearnStoreProofs` proves every property of `learn_store`. Playbooks never
disappear under the family's key, so it is enough to know what a command saw:
`Found` (a playbook a command found is still there), `Marked` (a seeding that is
about to write the sentinel has written its playbook), `Expired` (an expired
candidate has not been seen since, which is what `DeriveCandidate` reopening it
ensures) and `IdsApart` (an id names one candidate at a time, so that an id which
names another class by now is one that came back). One lemma per group of actions
carries the invariant and the four action properties together.

`GenericReadProofs` proves five properties for any bodies, paginators and page
sizes.

* `WalksAreComplete`: `OnTrack` says that the items taken so far are exactly the
  first so many of the collection, and that the request about to be sent asks for
  the page that begins behind them, whichever of cursor, page and offset it is
  written in. A page is then the next stretch (`PageTakenApart`), and a walk that
  ends `complete` has reached the end.
* `FullSyncSpares`: the id each stored row has is among the ids the same run has
  seen (`ItemRowSeen`, `BodyRowSeen`), although the two are extracted by different
  code from an item that sync has annotated in between.
* `SyncTakesLists`: wherever a body with one list has it (in the body, under an
  envelope key, under one of the five paths, under any other key), the order in
  which sync tries the places leads there (`WhereTheListIs`), and nothing makes
  sync take the body for a document (`NoDocument`).
* `EmptyPagesHideNothing`: if `isEmptyPageResponse` calls a body empty whose only
  list is in one place, that list is empty: each of the four tries counts the list
  it finds (`FourPlaces`), and the only one there is is found (`OnlyListIsFound`).
* `OfflineKeeps`: write-through finds the same one list by tables of its own
  (`WriteThroughFinds`), so every record that was displayed and taken by the store is a row
  (`ShownIsStored`), and no command takes it away.

`LearnJournalProofs` proves the types and all four safety invariants of the journal,
for any number of processes, days and entries. Offsets are stored by whoever
finishes, and may go back; what keeps `NothingSkipped` inductive is

* `Settled` – every offset, stored or held, lies at the end of a line of a segment
  that exists, or at the end of what the segment held when a newer one was there
  already. A line completed behind it is therefore in a segment that is not the
  newest, which is what `late` excuses;
* `Safe` – what a pass has behind its next offset is handled or in its batch, and
  the segments it has still to read are all those in between;
* `Shape` – what a process holds at each stage; a segment about to be cleaned has
  a newer one, so the newest is never deleted.

`CountsOnce` needs to know who an id belongs to. `Numbered` says that every id has
one writer or one place in the journal, `Counting` that alone a pass never meets a
failure that has been counted, since its line is behind the offset. A first attempt
failed at `RemoveSegment`: the model let a command that had written its line keep
the mark of an unlinked segment into its next invocation. The mark is now dropped
when the command is done, as the file handle is.

`OfTheLastRecall` needs the order of the batch. `Whole` says that no offset lies
within a line, `Gathered` that a batch is exactly the lines between where the pass
began and where it got, in the order of the journal, and `Finished` that an entry
that was read is complete and comes up in no later line. The last recall in the
batch, or else the last one in front of the offset (`FamilyIsLast`, `SeedIsLast`),
is then the last one in front of the failure, and `Tied` that stays so, because
lines come up behind those that are there.

`NoCorrectionIsLost` (of `CorrectionsCounted`) turns on the failures nobody has
decided about, `Open`: those not counted whose window may still bring a correction,
or whose correction is on disk.

* None is behind the stored offset.
* `Following` – up to its decision a pass has none in front of where it began, and
  what it has not read was written since it looked at the clock. A failure it gives
  up because the window is over therefore has no correction that was in time;
  `crossed` excuses the one case left, a window that closes while the pass reads.
* `Owing` – from the decision on, the open failures in front of its next offset
  are among the pairs it will count, so it may store that offset when none is left.
* `Sweeping` – cleanup deletes no segment and leaves an older one with lines, so
  nothing that was decided opens again because what came first is gone.
* `Aligned` – an offset is at the end of a line, unless its segment is deleted and
  refilled with late lines only.

TLC checked this invariant on the instance of `learn_journal` before it was proved.

`LearnRecallProofs` proves that ids name one learning for good
(`IdsNameOneLearning`), with the ids below `AUTOINCREMENT`'s next one the only ones
mentioned by a row, an event or a command, and from it `ReuseHolds`: the reuse a
recall records is of the row it was shown. Three action properties follow.

* `ExactAnswersMeanIt`: for either source of a hit, the verdict `exact` leads back
  to an entity of the question. For a row it survives the demotions of
  `validateResource` only if an entity is equal, contains the other or has a name in
  common with it (`Shares`); for a pattern the resource has a value the lookups give
  an entity in the template's slot, or begins with it where the template is a prefix
  (`Substituted`).
* `RefreshesHeal`: `Keyed` says that the primary key of `entity_lookups` holds, so
  that counting rows counts entities; `Keeps`, that what a refresh saw missed
  resolves by now, is still to be inserted by it, or belongs to a kind that is full
  of rows derived or in line to be. What a failing insert leaves in line is all that
  can be missing then. The other half of the refresh may be cut in two by
  any command, a lookup taught by hand included: it may take the place of a claim,
  which is why the property counts those equal to their canonical name as well
  (`Derived`). What `Candidates` claims is a recursion over the entities of the
  catalog, proved with induction over an interval written out once (`EveryStep`).
* `VerbatimIsFound`: both normalisers fold, each by its own form of the synonyms, on
  words and on pieces of words. For a `Plain` question the same variants begin at
  each word (`RulesAlike`), the longest is the same one (`LongestAlike`), and so the
  same words come out (`FoldsAlike`, from the last word to the first). Which of them
  are entities differs: the pattern does not know, the row and the question do. The
  pattern without the entities and the stopwords is still exactly what the question
  is asked with (`ReadAlike`), the row scores in full (`SameScore`), and no resource
  turns it into a mismatch (`NotMismatched`). So the row is among the hits, and what
  the limit leaves of those holds it or is full without it (`CutKeepsTheBest`).

Assumed everywhere are only the named `ASSUME`s of the modules; the passing runs
evaluate all of them. They type the constants and keep the limiter's rates
positive, with four that say more. `BodiesAssumption` describes ASSIST's JSON: the
keys are names, a list inside an object is empty or begins with an object, no list
stands under a key that is metadata or an id, and no record carries the keys sync
adds to rows. `PagingAssumption` describes the endpoints: pages have a positive
size, the body that carries a signal is an object (a bare array has no room for
one), and its list is not called `errors`. `SeedsAssumption` says that the lookups
the binary seeds respect the primary key, and `SynonymsAssumption` that synonyms
come from a map: words on both sides, one canonical per variant. Only proved, and
in no run, are the type invariants of `HttpClient`, `SyncCommand` and `LearnStore`,
`SuccessAnswered` and `IdsNameOneLearning`.

tlapm knows nothing of `SelectSeq`, `SortSeq` and folds. Where a proof needs what
they compute the modules say it with sets of positions (`Positions`, `FirstAt`), or
with a recursive function that interval induction reaches (`EveryStep`).

Left to TLC are

* liveness: `OpenReturns`, `CallsEnd`, `CommandsEnd`;
* `DiffRebuilds` and `AnswerSurvives` of `AssistTrees`, whose operators are recursive
  on JSON trees.

## Not modelled, and why

* `cliutil/fanout.go`: `FanoutRun` has no caller outside its tests. The pool the
  program runs is the one in `SyncCommand`.
* `internal/mcp`: the tools forward one call to the CLI. The pager of `bound` is
  not reached, because every tool passes it an empty page configuration.
* `learn/preseed.go` has no scanners, and `store.Apply`, `store.Recall`,
  `patterns.Forget`, `resolvePaginatedRead` and `writeMutationResponseToStore` no
  callers.
* Full-text search and its ranking, tables, CSV and plain output: formatting and
  SQL, with no state of their own.
* Configuration, paths, saved profiles, the file cache no core command uses, entry
  points and diagnostics: files read once per process and written by commands a
  person types. Two such commands at once may lose one of the writes; nothing in
  the code promises otherwise.
* `workflow archive` runs the modelled sync of one resource in a loop.
* Cursors of paginated resources in sync: ASSIST's resources have one page, so
  `--latest-only` and `--since` change nothing that is modelled.
* The exit path of a query POST that failed in part, a nil limiter, a dry run of
  the client, and the branch for placeholder credentials.

External to the code, and trusted: SQLite's atomic commit and single write lock,
atomic rename, and `O_APPEND` writes that do not interleave. Collisions of 63-bit
row ids are ignored. In `LearnRecall` the window of 50 rows for extraction is not
reached; in `AssistAnswers` the order of entries of a diff is abstracted to a set, and
every number fits a float64, if not exactly (one out of its range would make
`compactFields` return the answer as it was).

## Plan

A composition of `SyncCommand` with the rows of `CatalogMirror`, to state which
stamps a pruned scope may carry.
