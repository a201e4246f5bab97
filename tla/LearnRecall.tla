----------------------------- MODULE LearnRecall -----------------------------
(***************************************************************************)
(* The recall loop: teach, recall, learnings forget, teach-lookup,         *)
(* teach-pattern, learnings stats, and the lookup refresh that ends a      *)
(* sync, run by several processes on one store.  Every command is a        *)
(* sequence of statements of its own, so commands interleave between them. *)
(* What a teach does to playbooks and candidates is in LearnStore.         *)
(*                                                                         *)
(* of, in an event, is history: the learning the row id stood for then.    *)
(***************************************************************************)
EXTENDS QueryMatch

CONSTANTS
    Procs,      \* commands that may be running
    Questions,  \* the questions asked
    Teaches,    \* [q, resources] records: what may be taught
    Seeds,      \* the lookups the binary seeds
    NewLookups, \* the lookups that may be taught
    NewPatterns,\* the patterns that may be taught
    Catalog,    \* what the API holds, in (type, id) order: [id, kind, entities]
    Limit,      \* results of a recall (defaultRecallLimit)
    Cap,        \* synced lookups per kind (DefaultSyncedPerKindCap)
    MaxEvents,  \* events kept (DefaultLearnEventMaxRows)
    MaxOps,     \* commands of each name; bound of the check
    MaxCommands \* commands in all; bound of the check

ASSUME RecallAssumption == {Cap, MaxEvents, MaxCommands} \subseteq Nat /\ Limit \in Nat \ {0}
ASSUME QuestionsAssumption == \A q \in Questions : q \in Seq(ToSet(q))
ASSUME CatalogAssumption ==
    Catalog \in Seq(ToSet(Catalog)) /\ \A i \in DOMAIN Catalog : Catalog[i].entities \in Seq(ToSet(Catalog[i].entities))
\* The primary key of entity_lookups.
SameLookup(a, b) == a.kind = b.kind /\ a.canonical = b.canonical /\ a.value = b.value
ASSUME SeedsAssumption == IsFiniteSet(Seeds) /\ \A a, b \in Seeds : SameLookup(a, b) => a = b

VARIABLES
    learnings, \* search_learnings
    lastId,    \* its AUTOINCREMENT counter
    lookups,   \* entity_lookups
    misses,    \* learn_recall_misses
    patterns,  \* search_patterns
    events,    \* learn_events, oldest first
    synced,    \* indexes of Catalog that are in the store
    proc,      \* the command each process is in
    ops        \* commands started, by name

vars == <<learnings, lastId, lookups, misses, patterns, events, synced, proc, ops>>

Idle   == [pc |-> "idle"]
Stored == {Catalog[i].id : i \in synced}
Now    == ops["teach"] + ops["recall"] + ops["forget"] + ops["sync"] + ops["other"]

Init ==
    /\ learnings = {} /\ lastId = 0 /\ lookups = Seeds /\ misses = {} /\ patterns = {}
    /\ events = <<>> /\ synced = {}
    /\ proc = [p \in Procs |-> Idle]
    /\ ops = [name \in DOMAIN MaxOps |-> 0]

Start(p, name) ==
    /\ proc[p] = Idle /\ ops[name] < MaxOps[name] /\ Now < MaxCommands
    /\ ops' = [ops EXCEPT ![name] = @ + 1]
At(p, pc) == proc[p].pc = pc /\ UNCHANGED ops
Goto(p, to) == proc' = [proc EXCEPT ![p] = to]

\* InsertLearnEvent is best effort: a busy store loses the event, not the command.
EventOf(event, family, row, exact, of) == [event |-> event, family |-> family, row |-> row, exact |-> exact, of |-> of]
Recorded(to, e) == events' \in {to, Append(to, e)}

-----------------------------------------------------------------------------
(***************************************************************************)
(* teach                                                                   *)
(***************************************************************************)
TeachPromote(p, t) ==
    /\ Start(p, "teach")
    /\ NormalizeQuery(t.q) # <<>>
    /\ Goto(p, [pc |-> "upsert", q |-> t.q, n |-> Understood(t.q, lookups), left |-> t.resources, rows |-> <<>>])
    /\ UNCHANGED <<learnings, lastId, lookups, misses, patterns, events, synced>>

Same(pattern, resource) == {l \in learnings : l.pattern = pattern /\ l.resource = resource}
\* mutant
NextIdReused            == Max({0} \cup {l.id : l \in learnings}) + 1
NextId                  == lastId + 1

\* UpsertLearning: a known learning gains confidence, a new one starts at 2.
Bumped(l) == (learnings \ {l}) \cup {[l EXCEPT !.confidence = @ + 1, !.at = Now]}
NewRow(pattern, entities, resource) ==
    [id |-> NextId, pattern |-> pattern, entities |-> entities, resource |-> resource, confidence |-> 2, at |-> Now]

Taught(id, pattern, resource) == [id |-> id, of |-> <<pattern, resource>>]

TeachUpsert(p) ==
    LET c == proc[p]
        pattern == NormalizeQuery(c.q)
        Told(id) == Goto(p, [c EXCEPT !.left = Tail(@), !.rows = Append(@, Taught(id, pattern, Head(c.left)))])
    IN  /\ At(p, "upsert") /\ c.left # <<>>
        /\ \/ \E l \in Same(pattern, Head(c.left)) : learnings' = Bumped(l) /\ lastId' = lastId /\ Told(l.id)
           \/ /\ Same(pattern, Head(c.left)) = {}
              /\ learnings' = learnings \cup {NewRow(pattern, c.n.entities, Head(c.left))}
              /\ lastId' = NextId /\ Told(NextId)
        /\ UNCHANGED <<lookups, misses, patterns, events, synced>>

TeachEvent(p) ==
    LET c == proc[p] IN
    /\ At(p, "upsert") /\ c.left = <<>> /\ c.rows # <<>>
    /\ Recorded(events, EventOf("teach", QueryFamily(c.n), Head(c.rows).id, FALSE, Head(c.rows).of))
    /\ Goto(p, [c EXCEPT !.rows = Tail(@)])
    /\ UNCHANGED <<learnings, lastId, lookups, misses, patterns, synced>>

\* patterns.Upsert: unique by the two templates and the strategy.
SameTemplate(a, b) == a.structure = b.structure /\ a.pre = b.pre /\ a.kind = b.kind /\ a.suf = b.suf /\ a.prefix = b.prefix
UpsertPatterns(held, new) ==
    {IF \E n \in new : SameTemplate(h, n) THEN [h EXCEPT !.confidence = @ + 1, !.at = Now] ELSE h : h \in held}
    \cup {n @@ [confidence |-> 2, at |-> Now] : n \in {m \in new : \A h \in held : ~ SameTemplate(h, m)}}

TeachExtract(p) ==
    /\ At(p, "upsert") /\ proc[p].left = <<>> /\ proc[p].rows = <<>>
    /\ patterns' = UpsertPatterns(patterns, ExtractPatterns(learnings))
    /\ Goto(p, Idle)
    /\ UNCHANGED <<learnings, lastId, lookups, misses, events, synced>>

TeachPattern(p, new) ==
    /\ Start(p, "other")
    /\ patterns' = UpsertPatterns(patterns, {new})
    /\ UNCHANGED <<learnings, lastId, lookups, misses, events, synced, proc>>

\* INSERT OR IGNORE: the first source stays.
WithLookup(l)    == IF \E k \in lookups : SameLookup(k, l) THEN lookups ELSE lookups \cup {l}

TeachLookup(p, l) ==
    /\ Start(p, "other")
    /\ lookups' = WithLookup(l)
    /\ UNCHANGED <<learnings, lastId, misses, patterns, events, synced, proc>>

-----------------------------------------------------------------------------
(***************************************************************************)
(* recall: the match reads the store, then an event is written.            *)
(***************************************************************************)
AllMatches(n) == UNION {RowMatch(l, n, lookups, StoredEntities(l, lookups), Stored) : l \in learnings}
RowHits(n)    == {m \in AllMatches(n) : m.match # "mismatch"}

\* The first Limit of a list sorted by before, a set of pairs: ties fall either way.
Cut(list, before) ==
    IF Cardinality(list) <= Limit THEN {list}
    ELSE {kept \in SUBSET list : /\ Cardinality(kept) = Limit
                                 /\ \A h \in kept, left \in list \ kept : <<left, h>> \notin before}
Ordered(list, Before(_, _)) == {r \in list \X list : Before(r[1], r[2])}

\* The best-scored patterns' hits follow, each for a resource that none before it names.
AppliedBefore(g, h) ==
    \/ ~ AtLeast(h.score, g.score)
    \/ AtLeast(g.score, h.score) /\ g.confidence > h.confidence
    \/ AtLeast(g.score, h.score) /\ g.confidence = h.confidence /\ g.at > h.at
Applied(n) == LET all == ApplyPatterns(patterns, n, lookups, Stored) IN Cut(all, Ordered(all, AppliedBefore))
FirstOfEach(applied) ==
    {first \in SUBSET applied :
        /\ {h.resource : h \in first} = {h.resource : h \in applied}
        /\ \A g, h \in first : g.resource = h.resource => g = h
        /\ \A g \in first, h \in applied : g.resource = h.resource => ~ AppliedBefore(h, g)}
HitsAfter(rows, n) ==
    {rows \cup {h \in first : \A r \in rows : h.resource # r.resource} :
        first \in UNION {FirstOfEach(applied) : applied \in Applied(n)}}

Unresolved(n) == {e \in ToSet(n.entities) : Resolve(lookups, e) = {}}
Unasked(n)    == n.entities = <<>> /\ n.tokens = <<>> /\ n.tickers = <<>>

\* sortHits: match, source, confidence, score, time.
MatchRank(h)  == CASE h.match = "exact" -> 0 [] h.match = "partial" -> 1 [] OTHER -> 2
SourceRank(h) == IF h.source = "pattern" THEN 1 ELSE 0
SortsBefore(g, h) ==
    \/ MatchRank(g) < MatchRank(h)
    \/ MatchRank(g) = MatchRank(h) /\ SourceRank(g) < SourceRank(h)
    \/ /\ MatchRank(g) = MatchRank(h) /\ SourceRank(g) = SourceRank(h)
       /\ \/ g.confidence > h.confidence
          \/ g.confidence = h.confidence /\ ~ AtLeast(h.score, g.score)
          \/ g.confidence = h.confidence /\ AtLeast(h.score, g.score) /\ AtLeast(g.score, h.score) /\ g.at > h.at
\* The answers a recall may give.
Hits(n)    == UNION {Cut(all, Ordered(all, SortsBefore)) : all \in HitsAfter(RowHits(n), n)}
Tops(hits) == {h \in hits : \A g \in hits : ~ SortsBefore(g, h)}

RecallQuery(p, q) ==
    LET n == Understood(q, lookups) IN
    /\ Start(p, "recall") /\ ~ Unasked(Normalize(q))
    /\ \E told \in SUBSET Unresolved(n) : misses' = misses \cup told  \* best effort
    /\ \E hits \in Hits(n) : Goto(p, [pc |-> "answered", q |-> q, n |-> n, hits |-> hits])
    /\ UNCHANGED <<learnings, lastId, lookups, patterns, events, synced>>

RecallEvents(p) ==
    LET c == proc[p] IN
    /\ At(p, "answered")
    /\ \/ \E top \in Tops(c.hits) :
            Recorded(events, EventOf("hit", QueryFamily(c.n), top.row, top.match = "exact", top.of))
       \/ c.hits = {} /\ Recorded(events, EventOf("miss", QueryFamily(c.n), 0, FALSE, <<>>))
    /\ Goto(p, Idle)
    /\ UNCHANGED <<learnings, lastId, lookups, misses, patterns, synced>>

-----------------------------------------------------------------------------
(***************************************************************************)
(* forget: the rows of the pattern go, of one resource or of all; then the *)
(* family the lookups give now loses its events, but for one that says so. *)
(* A forget that finds no row changes nothing.                             *)
(***************************************************************************)
Taughts          == UNION {ToSet(t.resources) : t \in Teaches}
Forgotten(q, of) == {l \in learnings : l.pattern = NormalizeQuery(q) /\ l.resource \in of}

ForgetRows(p, q, of) ==
    /\ Start(p, "forget")
    /\ Forgotten(q, of) # {}
    /\ learnings' = learnings \ Forgotten(q, of)
    /\ Goto(p, [pc |-> "cascade", q |-> q])
    /\ UNCHANGED <<lastId, lookups, misses, patterns, events, synced>>

\* DeleteLearnEventsByFamilyHash: the empty family names no event.
Cascaded(f) == Picked(events, {i \in DOMAIN events : f = <<>> \/ events[i].family # f})

ForgetEvents(p) ==
    LET f == QueryFamily(Understood(proc[p].q, lookups)) IN
    /\ At(p, "cascade")
    /\ \E kept \in {events, Cascaded(f)} : Recorded(kept, EventOf("forget", f, 0, FALSE, <<>>))
    /\ Goto(p, Idle)
    /\ UNCHANGED <<learnings, lastId, lookups, misses, patterns, synced>>

\* PruneLearnEvents, called by learnings stats alone: the newest stay.
Stats(p) ==
    /\ Start(p, "other")
    /\ Len(events) > MaxEvents
    /\ events' = SubSeq(events, Len(events) - MaxEvents + 1, Len(events))
    /\ UNCHANGED <<learnings, lastId, lookups, misses, patterns, synced, proc>>

\* LearnEventStats: a taught row is reused once a later hit names its row id.
Reuses     == {r \in (DOMAIN events) \X (DOMAIN events) :
                 /\ r[1] < r[2] /\ events[r[1]].event = "teach" /\ events[r[2]].event = "hit"
                 /\ events[r[1]].row = events[r[2]].row}
ReusedRows == {events[r[1]].row : r \in Reuses}

-----------------------------------------------------------------------------
(***************************************************************************)
(* sync: resources arrive, then RefreshFromSynced turns the entities that  *)
(* a recall missed into lookups: it collects rows, then inserts each.      *)
(***************************************************************************)
Sync(p, i) ==
    /\ Start(p, "sync")
    /\ synced' = synced \cup {i}
    /\ Goto(p, [pc |-> "refresh"])
    /\ UNCHANGED <<learnings, lastId, lookups, misses, patterns, events>>

MatchesMiss(e)   == \E m \in misses : e = m \/ <<e, m>> \in Within \/ <<m, e>> \in Within
ResolvableForms  == {l.canonical : l \in lookups} \cup {l.value : l \in lookups}
SyncedCount(k)   == Cardinality({l \in lookups : l.source = "synced" /\ l.kind = k})
SelfLookup(k, e) == [kind |-> k, canonical |-> e, value |-> e, source |-> "synced"]

\* No room for another claim of this kind, after those in out.
FullFor(kind, out) == SyncedCount(kind) + Cardinality({l \in ToSet(out) : l.kind = kind}) >= Cap

\* mutant
ClaimWithin(out, kind, e) ==
    IF FullFor(kind, out) \/ ~ MatchesMiss(e)
       \/ \E f \in ResolvableForms \cup {l.value : l \in ToSet(out)} : e = f \/ <<e, f>> \in Within
    THEN out ELSE Append(out, SelfLookup(kind, e))
\* One entity of one stored resource, after the rows already claimed.
Claim(out, kind, e) ==
    IF FullFor(kind, out) \/ ~ MatchesMiss(e) \/ e \in ResolvableForms \cup {l.value : l \in ToSet(out)}
    THEN out ELSE Append(out, SelfLookup(kind, e))

Scanned == FlattenSeq([i \in DOMAIN Catalog |->
    IF i \in synced THEN [k \in DOMAIN Catalog[i].entities |-> [kind |-> Catalog[i].kind, e |-> Catalog[i].entities[k]]]
    ELSE <<>>])
Candidates ==
    LET claimed[i \in 0..Len(Scanned)] ==
          IF i = 0 THEN <<>> ELSE Claim(claimed[i - 1], Scanned[i].kind, Scanned[i].e)
    IN  claimed[Len(Scanned)]

RefreshCollect(p) ==
    /\ At(p, "refresh")
    /\ Goto(p, [pc |-> "insert", left |-> Candidates,
                saw |-> {x \in ToSet(Scanned) : x.e \in misses}])
    /\ UNCHANGED <<learnings, lastId, lookups, misses, patterns, events, synced>>

\* An insert that fails ends the refresh, and what it had not inserted is dropped; the
\* sync goes on with a warning.
RefreshInsert(p) ==
    LET c == proc[p] IN
    /\ At(p, "insert")
    /\ \/ /\ c.left # <<>>
          /\ lookups' = WithLookup(Head(c.left)) /\ Goto(p, [c EXCEPT !.left = Tail(@)])
       \/ lookups' = lookups /\ Goto(p, Idle)
    /\ UNCHANGED <<learnings, lastId, misses, patterns, events, synced>>

\* A failing statement ends a teach with what it has done so far, and a refresh that
\* has still to collect.
Fails(p) ==
    /\ proc[p].pc \in {"upsert", "refresh"} /\ UNCHANGED ops
    /\ Goto(p, Idle)
    /\ UNCHANGED <<learnings, lastId, lookups, misses, patterns, events, synced>>

-----------------------------------------------------------------------------
Next ==
    \E p \in Procs :
        \/ \E t \in Teaches : TeachPromote(p, t)
        \/ TeachUpsert(p) \/ TeachEvent(p) \/ TeachExtract(p)
        \/ \E new \in NewPatterns : TeachPattern(p, new)
        \/ \E l \in NewLookups : TeachLookup(p, l)
        \/ \E q \in Questions : RecallQuery(p, q)
        \/ RecallEvents(p)
        \/ \E q \in Questions :
             \E of \in {Taughts} \cup {{r} : r \in Taughts} : ForgetRows(p, q, of)
        \/ ForgetEvents(p) \/ Stats(p)
        \/ \E i \in DOMAIN Catalog : Sync(p, i)
        \/ RefreshCollect(p) \/ RefreshInsert(p) \/ Fails(p)

Spec == Init /\ [][Next]_vars

-----------------------------------------------------------------------------
(***************************************************************************)
(* Properties.                                                             *)
(***************************************************************************)
\* What makes the two normalisers read a question differently: punctuation inside a
\* word; numbers; a word that only the write side drops, or that stands in it both as
\* an entity and as a token; a variant of a synonym that the write side splits.
Unbroken(q)   == \A i \in DOMAIN q : Pieces(q[i].w) = <<q[i].w>>
Unnumbered(q) == \A i \in DOMAIN FoldSynonyms(q) : FoldSynonyms(q)[i].w \notin Numbers
OneReading(q) ==
    LET f == FoldSynonyms(q) IN
    \A i \in DOMAIN f : /\ f[i].w \in QueryStop => f[i].w \in Stop
                       /\ \A j \in DOMAIN f : f[j].w = f[i].w => f[j].cap = f[i].cap \/ f[i].w \in Stop
WholeVariants(q) ==
    \A r \in Synonyms, i \in DOMAIN q :
        Split(r.from) # <<>> /\ StartsAt(Split(r.from), Spelled(q), i) => Split(r.from) = r.from /\ Split(r.to) = r.to

\* The recall that p begins finds what was taught with the words it asks, unless a
\* lookup taught since reads them differently.
Answers(p)    == proc'[p].pc = "answered" /\ proc[p].pc = "idle"
FoundAgain(p) ==
    \A l \in learnings :
        /\ l.pattern = NormalizeQuery(proc'[p].q) /\ StoredEntities(l, lookups) = ToSet(proc'[p].n.entities)
        => \E m \in RowHits(proc'[p].n) :
              /\ m.row = l.id
              /\ \/ m \in proc'[p].hits
                 \/ Cardinality(proc'[p].hits) = Limit /\ \A h \in proc'[p].hits : ~ SortsBefore(m, h)

\* A question asked in the words it was taught in finds what it was taught, whatever
\* else the store holds, where none of these differences shows (the two normalisers
\* of store/learnings.go and learn/normalize.go key alike): it is in the answer, or the
\* answer is full of hits that rank no lower (recall.go truncates the sorted list).
Plain(q) == Unbroken(q) /\ Unnumbered(q) /\ OneReading(q) /\ WholeVariants(q)
VerbatimRecall == [][\A p \in Procs : Answers(p) /\ Plain(proc'[p].q) => FoundAgain(p)]_vars

\* What the lookups may put for e into a template.
Values(e) == {e} \cup {l.value : l \in {k \in lookups : k.canonical = e}}
\* The id has that value where the template has its slot; under a prefix template it may
\* be any value that LIKE takes to begin with it.
Substituted(h, e) ==
    /\ h.resource \in Stored
    /\ \E v \in Values(e) : h.resource.val = v \/ (h.by.prefix /\ LikeStart(h.resource.val, v))
TaughtFor(row, e) ==
    \E l \in learnings : l.id = row /\ \E f \in ToSet(l.entities) \cup ToSet(l.pattern) :
        e = f \/ {<<e, f>>, <<f, e>>} \intersect Within # {} \/ Resolve(lookups, e) \intersect Resolve(lookups, f) # {}

\* An exact hit, on which an agent skips discovery, was taught for an entity of the
\* question, or for one the lookups call by the same name, or was substituted from one
\* and is in the store (recall.go, validateResource and the cross-alias promotion).
\* Only a prefix pattern may answer with an id that merely begins as the entity does.
ExactMeansSameEntity ==
    [][\A p \in Procs : proc'[p].pc = "answered" /\ proc[p].pc = "idle" =>
         \A h \in proc'[p].hits : h.match = "exact" =>
            \E e \in ToSet(proc'[p].n.entities) :
               IF h.source = "pattern" THEN Substituted(h, e) ELSE TaughtFor(h.row, e)]_vars

\* A taught row counted as reused was answered with: the hit and the teach joined by
\* row id are of one learning, though rows are forgotten and events of commands in
\* flight land after that (events.go, LearnEventStats).
ReuseIsOfTheRow == \A r \in Reuses : events[r[1]].of = events[r[2]].of

\* The lookups a refresh derived, or would have if they had not been taught.
Derived(ls, k) == {l \in ls : l.kind = k /\ (l.source = "synced" \/ l.canonical = l.value)}

\* When a refresh ends, every missed entity it found in the store resolves, unless its
\* kind is full, whatever other commands added meanwhile; and one that a failing insert
\* ended lacks nothing but the lookups it had still to insert (lookups.RefreshFromSynced).
RefreshHeals ==
    [][\A p \in Procs : proc[p].pc = "insert" /\ proc'[p].pc = "idle" =>
         LET due == lookups \cup ToSet(proc[p].left)
         IN  \A x \in proc[p].saw : Resolve(due, x.e) # {} \/ Cardinality(Derived(due, x.kind)) >= Cap]_vars
=============================================================================
