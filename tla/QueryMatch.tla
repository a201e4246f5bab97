----------------------------- MODULE QueryMatch -----------------------------
(***************************************************************************)
(* How a question finds what was taught for it: the two normalisers that   *)
(* key a question when it is taught and when it is recalled, the entity    *)
(* lookups, the scoring of a stored row, and the patterns generalised from *)
(* several rows.                                                           *)
(*                                                                         *)
(* A question is a sequence of words [w |-> token, cap |-> BOOLEAN], w in  *)
(* lower case, cap telling whether it was written with a capital.  Once    *)
(* extracted, entities are compared without case, so they are tokens.      *)
(* A score is a fraction <<n, d>>.                                         *)
(***************************************************************************)
EXTENDS Integers, Sequences, FiniteSets, SequencesExt, FiniteSetsExt, Positions

CONSTANTS
    Stop,        \* the read side's stopwords (entities.Config)
    QueryStop,   \* the write side's (store.queryStopwords)
    Numbers,     \* tokens that match the ticker pattern
    Pieces(_),   \* what the write side's character filter makes of a token
    Synonyms,    \* [from, to] records: a variant's words and its canonical's
    Within,      \* pairs of different tokens, the first a substring of the second
    LikeMatches, \* pairs of different parts of ids, the first LIKE the second: another
                 \* case, or a second with % or _ in it
    LikeBegins   \* those whose first is LIKE the second with more text after it

\* Synonyms come from a map: one canonical per variant.
ASSUME SynonymsAssumption ==
    /\ \A r \in Synonyms : /\ r.from \in Seq(ToSet(r.from)) \ {<<>>} /\ r.to \in Seq(ToSet(r.to)) \ {<<>>}
                          /\ r = [from |-> r.from, to |-> r.to]
                          /\ \A w \in ToSet(r.from) \cup ToSet(r.to) : Pieces(w) \in Seq(ToSet(Pieces(w)))
    /\ \A r, s \in Synonyms : r.from = s.from => r = s

\* A sequence without its elements in S, and with those alone.
Dropping(s, S) == Picked(s, {i \in DOMAIN s : s[i] \notin S})
Keeping(s, S)  == Picked(s, {i \in DOMAIN s : s[i] \in S})

(***************************************************************************)
(* Normalisation.                                                          *)
(***************************************************************************)
StartsAt(from, s, i)   == i + Len(from) - 1 <= Len(s) /\ \A k \in 1..Len(from) : s[i + k - 1] = from[k]
RulesAt(rules, s, i)   == {r \in rules : StartsAt(r.from, s, i)}
Longest(rules)         == CHOOSE r \in rules : \A o \in rules : Len(o.from) <= Len(r.from)

\* Left to right, the longest variant first.
FoldWith(rules, words, q) ==
    LET folded[i \in 1..Len(words) + 1] ==
          IF i > Len(words) THEN <<>>
          ELSE IF RulesAt(rules, words, i) = {} THEN <<q[i]>> \o folded[i + 1]
          ELSE Longest(RulesAt(rules, words, i)).to \o folded[i + Len(Longest(RulesAt(rules, words, i)).from)]
    IN  folded[1]

\* The read side folds words; what replaces them has no capital.
Spelled(q)      == [i \in DOMAIN q |-> q[i].w]
Uncapital(s)    == [i \in DOMAIN s |-> [w |-> s[i], cap |-> FALSE]]
ReadSynonyms    == {[from |-> r.from, to |-> Uncapital(r.to)] : r \in Synonyms}
FoldSynonyms(q) == FoldWith(ReadSynonyms, Spelled(q), q)

\* Extract: a capital makes an entity, unless it only starts the sentence with a stopword.
Kind(q, i) ==
    CASE q[i].w \in Numbers -> "ticker"
      [] q[i].w \notin Numbers /\ q[i].w \in Stop /\ (~ q[i].cap \/ i = 1) -> "stop"
      [] OTHER -> IF q[i].cap THEN "entity" ELSE "token"

OfKind(q, kind) == Picked(Spelled(q), {i \in DOMAIN q : Kind(q, i) = kind})
Extract(q)      == [entities |-> OfKind(q, "entity"), tokens |-> OfKind(q, "token"), tickers |-> OfKind(q, "ticker")]
Normalize(q)    == Extract(FoldSynonyms(q))

\* The write side: characters, then synonyms, then stopwords and repetitions.
Split(s)        == FlattenSeq([i \in DOMAIN s |-> Pieces(s[i])])
WriteSynonyms   == {r \in {[from |-> Split(s.from), to |-> Split(s.to)] : s \in Synonyms} : r.from # <<>> /\ r.to # <<>>}
FoldTokens(s)   == FoldWith(WriteSynonyms, s, s)
Unrepeated(s)   == Picked(s, {i \in DOMAIN s : \A j \in 1..i - 1 : s[j] # s[i]})
NormalizeQuery(q) == Unrepeated(Dropping(FoldTokens(Split(Spelled(q))), QueryStop))

(***************************************************************************)
(* Lookups: rows [kind, canonical, value, source].  The family of a        *)
(* question is the bag of its tokens that are no entities.                 *)
(***************************************************************************)
Resolve(lookups, t)     == {l.canonical : l \in {k \in lookups : t \in {k.canonical, k.value}}}
ResolveSet(lookups, es) == UNION {Resolve(lookups, e) : e \in es}

PromoteEntities(n, lookups) ==
    LET known == {t \in ToSet(n.tokens) : Resolve(lookups, t) # {}}
    IN  [n EXCEPT !.entities = @ \o Keeping(n.tokens, known), !.tokens = Dropping(@, known)]
Understood(q, lookups) == PromoteEntities(Normalize(q), lookups)
QueryFamily(n)         == [t \in ToSet(n.tokens) |-> Cardinality({i \in DOMAIN n.tokens : n.tokens[i] = t})]

(***************************************************************************)
(* Scores.                                                                 *)
(***************************************************************************)
JaccardMin    == <<6, 10>>
CrossAliasMin == <<3, 10>>
Jaccard(A, B) == IF A = {} \/ B = {} THEN <<0, 1>> ELSE <<Cardinality(A \intersect B), Cardinality(A \union B)>>
AtLeast(x, y) == x[1] * y[2] >= y[1] * x[2]
Larger(x, y)  == IF AtLeast(x, y) THEN x ELSE y

ClassifyEntityMatch(A, B) ==
    IF A = {} \/ B = {} THEN "partial"
    ELSE IF \E a \in A, b \in B : a = b \/ <<a, b>> \in Within \/ <<b, a>> \in Within THEN "exact"
    ELSE "mismatch"

(***************************************************************************)
(* A stored row [id, pattern, entities, resource, confidence, at] against  *)
(* a question understood as n.  A row without entities takes those of its  *)
(* tokens that the lookups resolve today.                                  *)
(***************************************************************************)
StoredEntities(row, lookups) ==
    IF row.entities # <<>> THEN ToSet(row.entities)
    ELSE {t \in ToSet(row.pattern) \ Stop : Resolve(lookups, t) # {}}
\* mutant
StoredTokensWhole(row, entities) == ToSet(row.pattern) \ Stop
StoredTokens(row, entities) == (ToSet(row.pattern) \ entities) \ Stop

\* The score, with the entity-only fallback for questions that are nothing but entities.
OwnScore(tokens, stored, entities, held) ==
    IF tokens = {} /\ stored = {} THEN Jaccard(entities, held) ELSE Jaccard(tokens, stored)

\* Below the floor a row of other entities may stay: as an alias, or as a similar question.
Admitted(own, canonical, entities, held) ==
    \/ AtLeast(own, JaccardMin)
    \/ /\ entities # {} /\ held # {} /\ entities \intersect held = {}
       /\ AtLeast(Larger(own, canonical), CrossAliasMin)

\* A fallback score counts only below the floor.
FinalScore(own, canonical) == IF AtLeast(own, JaccardMin) THEN own ELSE Larger(own, canonical)

\* validateResource: no entity fields are configured, so a row whose resource is stored is partial.
\* mutant
VerdictWithoutEntities(row, entities, held, overlap, stored) ==
    IF row.resource \in stored THEN "partial" ELSE IF entities = {} /\ held = {} THEN "unknown" ELSE "exact"
Verdict(row, entities, held, overlap, stored) ==
    IF row.resource \in stored THEN "partial"
    ELSE IF entities = {} /\ held = {} THEN "unknown"
    ELSE IF overlap /\ ClassifyEntityMatch(entities, held) = "mismatch" THEN "exact"
    ELSE ClassifyEntityMatch(entities, held)

RowHit(row, match, score) ==
    [row |-> row.id, resource |-> row.resource, match |-> match, confidence |-> row.confidence,
     score |-> score, source |-> "taught", at |-> row.at, of |-> <<row.pattern, row.resource>>]

ScoredRow(row, n, held, canonical, overlap, stored) ==
    LET own == OwnScore(ToSet(n.tokens), StoredTokens(row, held), ToSet(n.entities), held)
    IN  IF Admitted(own, canonical, ToSet(n.entities), held)
        THEN {RowHit(row, Verdict(row, ToSet(n.entities), held, overlap, stored), FinalScore(own, canonical))}
        ELSE {}

RowMatch(row, n, lookups, held, stored) ==
    ScoredRow(row, n, held,
              Jaccard(ResolveSet(lookups, ToSet(n.entities)), ResolveSet(lookups, held)),
              ResolveSet(lookups, ToSet(n.entities)) \intersect ResolveSet(lookups, held) # {},
              stored)

(***************************************************************************)
(* Patterns.  A resource id is [pre, kind, val, suf]: the value val spelled *)
(* as kind says between a prefix and a sequence suf of further parts.      *)
(***************************************************************************)
Spellings == <<"lowercase", "uppercase">>
QueryStructural(row) == Dropping(row.pattern, ToSet(row.entities))
BagOf(s)             == [t \in ToSet(s) |-> Cardinality({i \in DOMAIN s : s[i] = t})]
Generalisable(rows)  == {r \in rows : r.entities # <<>> /\ QueryStructural(r) # <<>>}
Groups(rows)         == {{r \in rows : BagOf(QueryStructural(r)) = BagOf(QueryStructural(g))} : g \in rows}

\* Every member's resource spells its entity as kind says, after the same prefix.
Bound(kind, members) ==
    \A a, b \in members : a.resource.pre = b.resource.pre /\ a.resource.kind = kind
                          /\ a.resource.val = a.entities[1]
CommonSuffix(members) ==
    LET shared == {k \in 0..2 : \A a, b \in members :
                      /\ k <= Len(a.resource.suf) /\ k <= Len(b.resource.suf)
                      /\ SubSeq(a.resource.suf, 1, k) = SubSeq(b.resource.suf, 1, k)}
        one == CHOOSE m \in members : TRUE
    IN  SubSeq(one.resource.suf, 1, Max(shared))
SameSuffix(members) == \A a, b \in members : a.resource.suf = b.resource.suf

PatternOf(kind, members, prefix) ==
    LET one == CHOOSE m \in members : TRUE
    IN  [structure |-> BagOf(QueryStructural(one)), pre |-> one.resource.pre, kind |-> kind,
         suf |-> CommonSuffix(members), prefix |-> prefix]

\* The patterns one group supports: an exact template, or a prefix if only that is shared.
InferPattern(members) ==
    {PatternOf(kind, members, ~ SameSuffix(members)) :
        kind \in {k \in ToSet(Spellings) : Bound(k, members) /\ (SameSuffix(members) \/ CommonSuffix(members) # <<>>)}}

ExtractPatterns(rows) ==
    UNION {InferPattern(g) : g \in {h \in Groups(Generalisable(rows)) :
               Cardinality(h) >= 2 /\ \A m \in h : Len(m.entities) = 1}}

\* Lookup: a computed kind spells the entity, another one takes its best row's value.
Priority(l) == CASE l.source = "taught" -> 0 [] l.source = "inferred" -> 1
                 [] l.source = "synced" -> 2 [] l.source = "seeded" -> 3 [] OTHER -> 4
Lookup(kind, e, lookups) ==
    LET rows == {l \in lookups : l.kind = kind /\ l.canonical = e}
    IN  IF kind \in ToSet(Spellings) THEN {<<kind, e>>}
        ELSE IF rows = {} THEN {}
        ELSE {<<"lowercase", (CHOOSE l \in rows : \A o \in rows : Priority(l) <= Priority(o)).value>>}

\* Substitution and verification: the candidate must be a stored resource.  A template
\* names its id; a prefix is looked up with LIKE, which takes every id that begins with
\* it, whatever its case, and reads a % or a _ of the prefix as a wildcard.
LikePart(a, b)  == a = b \/ <<a, b>> \in LikeMatches
LikeStart(a, b) == LikePart(a, b) \/ <<a, b>> \in LikeBegins
TailLike(suf, prefix) ==
    /\ Len(prefix) <= Len(suf)
    /\ \A k \in DOMAIN prefix : IF k < Len(prefix) THEN LikePart(suf[k], prefix[k]) ELSE LikeStart(suf[k], prefix[k])
Searched(r, p, val) ==
    /\ LikePart(r.pre, p.pre)
    /\ \/ p.suf = <<>> /\ LikeStart(r.val, val)
       \/ LikePart(r.val, val) /\ TailLike(r.suf, p.suf)
Fits(r, p, spelled) ==
    IF p.prefix THEN \E s \in spelled : Searched(r, p, s[2])
    ELSE r.pre = p.pre /\ <<r.kind, r.val>> \in spelled /\ r.suf = p.suf
Verified(p, e, lookups, stored) == {r \in stored : Fits(r, p, Lookup(p.kind, e, lookups))}

\* LIMIT 1: one of the resources that fit.  The first entity that binds to one decides.
BoundAt(p, n, lookups, stored) ==
    {i \in DOMAIN n.entities : /\ Verified(p, n.entities[i], lookups, stored) # {}
                               /\ \A j \in 1..i - 1 : Verified(p, n.entities[j], lookups, stored) = {}}

PatternHit(p, n, resource) ==
    [row |-> 0, resource |-> resource, match |-> "exact",
     confidence |-> p.confidence, score |-> Jaccard(ToSet(n.tokens), DOMAIN p.structure),
     source |-> "pattern", at |-> p.at, of |-> <<>>, by |-> p]

PatternHitsOf(p, n, lookups, stored) ==
    {PatternHit(p, n, CHOOSE r \in Verified(p, n.entities[i], lookups, stored) : TRUE) :
        i \in BoundAt(p, n, lookups, stored)}

ApplyPatterns(patterns, n, lookups, stored) ==
    UNION {PatternHitsOf(p, n, lookups, stored) :
               p \in {k \in patterns : AtLeast(Jaccard(ToSet(n.tokens), DOMAIN k.structure), JaccardMin)}}
=============================================================================
