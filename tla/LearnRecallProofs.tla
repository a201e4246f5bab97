-------------------------- MODULE LearnRecallProofs --------------------------
(***************************************************************************)
(* LearnRecall for any processes, questions and lengths of the event log:   *)
(* a row id names one learning for ever; an exact answer leads back to an   *)
(* entity of the question; a refresh heals the misses it saw; and a         *)
(* question that both normalisers read alike is found again.                *)
(*                                                                         *)
(* An id is mentioned by the learning itself, by the commands that carry it *)
(* from one statement to the next, and by the events.  A learning may be    *)
(* forgotten while it is mentioned, so the property of the events needs the *)
(* counter: no mention is above it, and a new learning goes above it.       *)
(***************************************************************************)
EXTENDS LearnRecall, FiniteSetTheorems, SequenceTheorems, WellFoundedInduction, TLAPS

Mention(x)    == [id |-> x.row, of |-> x.of]
Nothing       == [id |-> 0, of |-> <<>>]
OfLearnings   == {Taught(l.id, l.pattern, l.resource) : l \in learnings}
Told(r)       == [id |-> r.id, of |-> r.of]
OfCommand(c)  == IF c.pc = "upsert" THEN {Told(r) : r \in ToSet(c.rows)}
                 ELSE IF c.pc = "answered" THEN {Mention(h) : h \in c.hits} ELSE {}
OfEvents      == {Mention(e) : e \in {f \in ToSet(events) : f.event \in {"teach", "hit"}}}
Mentions      == {Nothing} \cup OfLearnings \cup (UNION {OfCommand(proc[p]) : p \in Procs}) \cup OfEvents

IsSequence(s) == s \in Seq(ToSet(s))

\* What the steps rely on of the shape of their data.
Shape ==
    /\ proc \in [Procs -> {proc[p] : p \in Procs}]
    /\ \A p \in Procs : proc[p].pc = "upsert" =>
         {"pc", "left", "rows"} \subseteq DOMAIN proc[p] /\ IsSequence(proc[p].rows)
    /\ \A p \in Procs : proc[p].pc = "insert" => {"pc", "left"} \subseteq DOMAIN proc[p]
    /\ \A l \in learnings : {"id", "pattern", "resource"} \subseteq DOMAIN l
    /\ IsSequence(events)
    /\ lastId \in Nat

Counted  == \A m \in Mentions : m.id \in 0..lastId
OneOf    == \A m, n \in Mentions : m.id = n.id => m.of = n.of
Inv      == Shape /\ Counted /\ OneOf

-----------------------------------------------------------------------------
(***************************************************************************)
(* Sequences.                                                              *)
(***************************************************************************)
LEMMA SequenceOfAny ==
    ASSUME NEW S, NEW s \in Seq(S)
    PROVE  IsSequence(s) /\ ToSet(s) = {s[i] : i \in 1..Len(s)} /\ ToSet(s) \subseteq S
<1>1. s \in [1..Len(s) -> S] /\ Len(s) \in Nat
  BY LenProperties
<1>2. s \in [1..Len(s) -> ToSet(s)]
  BY <1>1 DEF ToSet
<1> QED  BY <1>1, <1>2 DEF IsSequence, ToSet

LEMMA SequenceAppend ==
    ASSUME NEW s, IsSequence(s), NEW e
    PROVE  IsSequence(Append(s, e)) /\ ToSet(Append(s, e)) = ToSet(s) \cup {e}
<1>1. s \in Seq(ToSet(s) \cup {e})
  BY SeqMonotonic DEF IsSequence
<1>2. /\ Append(s, e) \in Seq(ToSet(s) \cup {e}) /\ Len(Append(s, e)) = Len(s) + 1
      /\ \A i \in 1..Len(s) : Append(s, e)[i] = s[i]
      /\ Append(s, e)[Len(s) + 1] = e
  BY <1>1, AppendProperties
<1>3. ToSet(s) = {s[i] : i \in 1..Len(s)} /\ Len(s) \in Nat
  BY <1>1, SequenceOfAny, LenProperties
<1>4. ToSet(Append(s, e)) = {Append(s, e)[i] : i \in 1..Len(s) + 1}
  BY <1>2, SequenceOfAny
<1>5. IsSequence(Append(s, e))
  BY <1>2, SequenceOfAny
<1> DEFINE a == Append(s, e)
           n == Len(s)
<1>6. a[n + 1] = e /\ n \in Nat /\ \A i \in 1..n : a[i] = s[i]
  BY <1>2, <1>3
<1> HIDE DEF a, n
<1>7. {a[i] : i \in 1..n + 1} = {s[i] : i \in 1..n} \cup {e}
  <2>1. ASSUME NEW i \in 1..n + 1  PROVE  a[i] \in {s[j] : j \in 1..n} \cup {e}
    BY <1>6, i \in 1..n \/ i = n + 1
  <2>2. \A i \in 1..n : s[i] \in {a[j] : j \in 1..n + 1}
    <3> TAKE i \in 1..n
    <3>1. i \in 1..n + 1 /\ a[i] = s[i]
      BY <1>6
    <3> QED  BY <3>1
  <2>3. e \in {a[j] : j \in 1..n + 1}
    <3>1. n + 1 \in 1..n + 1
      BY <1>6
    <3> QED  BY <3>1, <1>6
  <2> QED  BY <2>1, <2>2, <2>3
<1> QED  BY <1>3, <1>4, <1>5, <1>7 DEF a, n

LEMMA SequenceHeadTail ==
    ASSUME NEW s, IsSequence(s), s # <<>>
    PROVE  Head(s) \in ToSet(s) /\ IsSequence(Tail(s)) /\ ToSet(Tail(s)) \subseteq ToSet(s)
BY HeadTailProperties, SequenceOfAny DEF IsSequence

LEMMA SequenceEnd ==
    ASSUME NEW s, IsSequence(s), NEW k \in 1..Len(s) + 1
    PROVE  IsSequence(SubSeq(s, k, Len(s))) /\ ToSet(SubSeq(s, k, Len(s))) \subseteq ToSet(s)
<1>1. s \in Seq(ToSet(s)) /\ Len(s) \in Nat /\ \A i \in k..Len(s) : s[i] \in ToSet(s)
  BY LenProperties, ElementOfSeq DEF IsSequence
<1>2. SubSeq(s, k, Len(s)) \in Seq(ToSet(s))
  BY <1>1, SubSeqProperties
<1> QED  BY <1>2, SequenceOfAny

\* The positions of a set are ranked one by one.
Rank(at, i) == Cardinality({j \in at : j <= i})

LEMMA Ranks ==
    ASSUME NEW n \in Nat, NEW at \in SUBSET (1..n)
    PROVE  /\ Cardinality(at) \in Nat
           /\ \A i \in at : Rank(at, i) \in 1..Cardinality(at)
           /\ \A i, j \in at : Rank(at, i) = Rank(at, j) => i = j
<1> DEFINE upto(i) == {j \in at : j <= i}
<1>1. IsFiniteSet(at) /\ Cardinality(at) \in Nat /\ at \subseteq Nat
  <2>1. IsFiniteSet(1..n)
    BY FS_Interval
  <2>2. IsFiniteSet(at)
    BY <2>1, FS_Subset
  <2> QED  BY <2>2, FS_CardinalityType
<1>2. ASSUME NEW i \in at  PROVE  Rank(at, i) \in 1..Cardinality(at) /\ IsFiniteSet(upto(i))
  <2>1. IsFiniteSet(upto(i)) /\ Cardinality(upto(i)) <= Cardinality(at)
    BY <1>1, FS_Subset
  <2>2. Cardinality(upto(i)) \in Nat /\ upto(i) # {}
    BY <2>1, <1>1, FS_CardinalityType
  <2>3. Cardinality(upto(i)) # 0
    BY <2>1, <2>2, FS_EmptySet
  <2> QED  BY <1>1, <2>1, <2>2, <2>3 DEF Rank
<1>3. ASSUME NEW i \in at, NEW j \in at, i < j  PROVE  Rank(at, i) # Rank(at, j)
  <2>0. i \in Nat /\ j \in Nat /\ j <= j /\ ~(j <= i) /\ \A x \in Nat : x <= i => x <= j
    BY <1>1, <1>3
  <2>1. upto(i) \subseteq upto(j) /\ j \in upto(j) /\ j \notin upto(i)
    BY <1>1, <2>0, Zenon
  <2>2. upto(i) # upto(j)
    BY <2>1
  <2> QED  BY <1>2, <2>1, <2>2, FS_Subset DEF Rank
<1>4. \A i, j \in at : Rank(at, i) = Rank(at, j) => i = j
  <2> SUFFICES ASSUME NEW i \in at, NEW j \in at, i # j  PROVE Rank(at, i) # Rank(at, j)
    OBVIOUS
  <2>1. i < j \/ j < i
    BY <1>1
  <2> QED  BY <1>3, <2>1
<1> QED  BY <1>1, <1>2, <1>4

\* Every rank up to the size of a finite set of positions is taken.
LEMMA NthExists ==
    ASSUME NEW n \in Nat, NEW at \in SUBSET (1..n), NEW k \in 1..Cardinality(at)
    PROVE  Nth(at, k) \in at
<1> DEFINE m == Cardinality(at)
           rank == [i \in at |-> Rank(at, i)]
<1>1. m \in Nat /\ \A i \in at : Rank(at, i) \in 1..m
  BY Ranks
<1>2. \A i, j \in at : Rank(at, i) = Rank(at, j) => i = j
  BY Ranks
<1>3. rank \in Injection(at, 1..m)
  <2>1. rank \in [at -> 1..m] /\ \A i, j \in at : rank[i] = rank[j] => i = j
    <3> HIDE DEF m
    <3> QED  BY <1>1, <1>2
  <2> HIDE DEF rank
  <2> QED  BY <2>1 DEF Injection, IsInjective
<1>4. rank \in Surjection(at, 1..m)
  <2>1. IsFiniteSet(1..m) /\ Cardinality(1..m) = m
    BY <1>1, FS_Interval
  <2> HIDE DEF rank
  <2> QED  BY <1>3, <2>1, FS_Injection
<1>5. \E i \in at : rank[i] = k
  <2> HIDE DEF rank
  <2> QED  BY <1>4 DEF Surjection
<1> QED  BY <1>5 DEF Nth, Rank

LEMMA SequencePicked ==
    ASSUME NEW s, IsSequence(s), NEW at \in SUBSET (DOMAIN s)
    PROVE  IsSequence(Picked(s, at)) /\ ToSet(Picked(s, at)) \subseteq ToSet(s)
<1>1. Len(s) \in Nat /\ DOMAIN s = 1..Len(s) /\ s \in Seq(ToSet(s))
  BY LenProperties DEF IsSequence
<1>2. Cardinality(at) \in Nat
  <2>1. IsFiniteSet(1..Len(s))
    BY <1>1, FS_Interval
  <2> QED  BY <1>1, <2>1, FS_Subset, FS_CardinalityType
<1>3. \A k \in 1..Cardinality(at) : s[Nth(at, k)] \in ToSet(s)
  BY <1>1, NthExists, ElementOfSeq
<1>4. Picked(s, at) \in Seq(ToSet(s))
  BY <1>2, <1>3, IsASeq DEF Picked
<1> QED  BY <1>4, SequenceOfAny

-----------------------------------------------------------------------------
(***************************************************************************)
(* Steps.                                                                  *)
(***************************************************************************)
\* A step that mentions nothing new, or one learning under the next id.
LEMMA MentionsKeep ==
    ASSUME Inv, Shape', NEW of,
           \/ Mentions' \subseteq Mentions /\ lastId' = lastId
           \/ Mentions' \subseteq Mentions \cup {[id |-> NextId, of |-> of]} /\ lastId' = NextId
    PROVE  Inv'
<1> DEFINE old == Mentions
           new == Mentions'
           fresh == [id |-> lastId + 1, of |-> of]
<1>1. lastId \in Nat /\ (\A m \in old : m.id \in 0..lastId) /\ \A m, n \in old : m.id = n.id => m.of = n.of
  BY DEF Inv, Shape, Counted, OneOf
<1>2. fresh.id = lastId + 1
  OBVIOUS
<1>3. \/ new \subseteq old /\ lastId' = lastId
      \/ new \subseteq old \cup {fresh} /\ lastId' = lastId + 1
  BY DEF NextId
<1> HIDE DEF old, new, fresh
<1>4. (\A m \in new : m.id \in 0..lastId') /\ \A m, n \in new : m.id = n.id => m.of = n.of
  BY <1>1, <1>2, <1>3
<1> QED  BY <1>4 DEF Inv, Counted, OneOf, new

LEMMA GotoOnly ==
    ASSUME Shape, NEW p \in Procs, NEW c, Goto(p, c)
    PROVE  /\ \A q \in Procs : proc'[q] = IF q = p THEN c ELSE proc[q]
           /\ proc' \in [Procs -> {proc'[q] : q \in Procs}]
<1>1. proc \in [Procs -> {proc[q] : q \in Procs}]
  BY DEF Shape
<1> QED  BY <1>1 DEF Goto

\* What a step that moves one command mentions.
LEMMA CommandsMention ==
    ASSUME Shape, NEW p \in Procs, NEW c, Goto(p, c),
           NEW M, OfLearnings' \cup OfEvents' \cup OfCommand(c) \subseteq Mentions \cup M
    PROVE  Mentions' \subseteq Mentions \cup M
<1>1. \A q \in Procs : OfCommand(proc'[q]) \subseteq OfCommand(proc[q]) \cup OfCommand(c)
  BY GotoOnly
<1>2. (UNION {OfCommand(proc'[q]) : q \in Procs}) \subseteq (UNION {OfCommand(proc[q]) : q \in Procs}) \cup OfCommand(c)
  BY <1>1, Zenon
<1>3. Mentions' = {Nothing} \cup OfLearnings' \cup (UNION {OfCommand(proc'[q]) : q \in Procs}) \cup OfEvents'
  BY Zenon DEF Mentions, OfCommand, Told, Mention, Nothing
<1> QED  BY <1>2, <1>3, Zenon DEF Mentions

LEMMA SameMention ==
    /\ learnings' = learnings => OfLearnings' = OfLearnings
    /\ events' = events => OfEvents' = OfEvents
BY DEF OfLearnings, OfEvents

\* The shape of the command a step goes on with.
LEMMA ShapeKeeps ==
    ASSUME Shape, NEW p \in Procs, NEW c, Goto(p, c),
           c.pc = "upsert" => {"pc", "left", "rows"} \subseteq DOMAIN c /\ IsSequence(c.rows),
           c.pc = "insert" => {"pc", "left"} \subseteq DOMAIN c,
           \A l \in learnings' : {"id", "pattern", "resource"} \subseteq DOMAIN l,
           IsSequence(events'), lastId' \in Nat
    PROVE  Shape'
<1>1. \A q \in Procs : proc'[q] = IF q = p THEN c ELSE proc[q]
  BY GotoOnly
<1>2. \A q \in Procs : proc'[q].pc = "upsert" =>
        {"pc", "left", "rows"} \subseteq DOMAIN proc'[q] /\ IsSequence(proc'[q].rows)
  BY <1>1, Zenon DEF Shape
<1>3. \A q \in Procs : proc'[q].pc = "insert" => {"pc", "left"} \subseteq DOMAIN proc'[q]
  BY <1>1, Zenon DEF Shape
<1> QED  BY <1>2, <1>3, GotoOnly, Zenon DEF Shape, IsSequence, ToSet

LEMMA EventsMention ==
    ASSUME NEW to, IsSequence(to), ToSet(to) \subseteq ToSet(events), NEW e, Recorded(to, e),
           e.event \in {"teach", "hit"} => Mention(e) \in Mentions
    PROVE  IsSequence(events') /\ OfEvents' \subseteq Mentions
<1>1. IsSequence(events') /\ ToSet(events') \subseteq ToSet(events) \cup {e}
  BY SequenceAppend DEF Recorded
<1>2. \A f \in ToSet(events') : f.event \in {"teach", "hit"} =>
        f \in ToSet(events) \/ Mention(f) \in Mentions
  BY <1>1
<1>3. OfEvents \subseteq Mentions
  BY Zenon DEF Mentions
<1>4. \A f \in ToSet(events') : f.event \in {"teach", "hit"} => Mention(f) \in Mentions
  BY <1>2, <1>3, Zenon DEF OfEvents
<1>5. OfEvents' = {Mention(f) : f \in {g \in ToSet(events') : g.event \in {"teach", "hit"}}}
  BY Zenon DEF OfEvents, Mention
<1> QED  BY <1>1, <1>4, <1>5, Zenon

\* A step of a command that teaches and forgets no learning and writes no event.
LEMMA QuietKeeps ==
    ASSUME Inv, NEW p \in Procs, NEW c, Goto(p, c), UNCHANGED <<learnings, lastId, events>>,
           c.pc = "upsert" => {"pc", "left", "rows"} \subseteq DOMAIN c /\ IsSequence(c.rows),
           c.pc = "insert" => {"pc", "left"} \subseteq DOMAIN c,
           OfCommand(c) \subseteq Mentions
    PROVE  Inv'
<1>1. Shape'
  BY ShapeKeeps DEF Inv, Shape
<1>2. OfLearnings \cup OfEvents \subseteq Mentions
  BY Zenon DEF Mentions
<1>3. Mentions' \subseteq Mentions \cup {}
  BY <1>2, SameMention, CommandsMention, Zenon DEF Inv
<1> QED  BY <1>1, <1>3, MentionsKeep

LEMMA CommandMentions ==
    ASSUME NEW p \in Procs
    PROVE  OfCommand(proc[p]) \subseteq Mentions
<1>1. OfCommand(proc[p]) \subseteq UNION {OfCommand(proc[q]) : q \in Procs}
  BY Zenon
<1> QED  BY <1>1, Zenon DEF Mentions

LEMMA IdleMentions == Idle.pc = "idle" /\ OfCommand(Idle) = {}
BY DEF Idle, OfCommand

\* A step that keeps the commands, the learnings and, but for the oldest, the events.
LEMMA StoreKeeps ==
    ASSUME Inv, UNCHANGED <<learnings, lastId, proc>>, IsSequence(events'), ToSet(events') \subseteq ToSet(events)
    PROVE  Inv'
<1>1. Shape'
  BY DEF Inv, Shape, IsSequence
<1>2. OfEvents' \subseteq OfEvents
  BY DEF OfEvents
<1>3. Mentions' \subseteq Mentions
  BY <1>2, SameMention DEF Mentions
<1> QED  BY <1>1, <1>3, MentionsKeep

-----------------------------------------------------------------------------
LEMMA TeachPromoteKeeps ==
    ASSUME Inv, NEW p \in Procs, NEW t \in Teaches, TeachPromote(p, t)
    PROVE  Inv'
<1> DEFINE n == Understood(t.q, lookups)
           c == [pc |-> "upsert", q |-> t.q, n |-> n, left |-> t.resources, rows |-> <<>>]
<1>1. Goto(p, c) /\ UNCHANGED <<learnings, lastId, events>>
  BY DEF TeachPromote
<1> HIDE DEF n
<1>2. c.pc = "upsert" /\ {"pc", "left", "rows"} \subseteq DOMAIN c /\ c.rows = <<>>
  OBVIOUS
<1> HIDE DEF c
<1>3. IsSequence(c.rows) /\ ToSet(c.rows) = {}
  BY <1>2 DEF IsSequence, ToSet
<1> QED  BY <1>1, <1>2, <1>3, QuietKeeps DEF OfCommand

\* A known learning keeps its id, its pattern and its resource; a new one takes the next id.
LEMMA TeachUpsertKeeps ==
    ASSUME Inv, NEW p \in Procs, TeachUpsert(p)
    PROVE  Inv'
<1> DEFINE c == proc[p]
           pattern == NormalizeQuery(c.q)
           resource == Head(c.left)
           With(id) == [c EXCEPT !.left = Tail(@), !.rows = Append(@, Taught(id, pattern, resource))]
<1>1. /\ c.pc = "upsert" /\ {"pc", "left", "rows"} \subseteq DOMAIN c /\ IsSequence(c.rows)
      /\ UNCHANGED events /\ IsSequence(events) /\ lastId \in Nat
      /\ \A l \in learnings : {"id", "pattern", "resource"} \subseteq DOMAIN l
  BY DEF TeachUpsert, At, Inv, Shape
<1>2. ASSUME NEW id, NEW M, Goto(p, With(id)), lastId' \in Nat,
             \A l \in learnings' : {"id", "pattern", "resource"} \subseteq DOMAIN l,
             OfLearnings' \subseteq Mentions \cup M, Taught(id, pattern, resource) \in Mentions \cup M
      PROVE  Shape' /\ Mentions' \subseteq Mentions \cup M
  <2> DEFINE t == Taught(id, pattern, resource)
             d == With(id)
  <2>1. d.pc = "upsert" /\ {"pc", "left", "rows"} \subseteq DOMAIN d /\ d.rows = Append(c.rows, t)
    BY <1>1
  <2> HIDE DEF d
  <2>2. IsSequence(d.rows) /\ ToSet(d.rows) = ToSet(c.rows) \cup {t}
    BY <1>1, <2>1, SequenceAppend
  <2>3. OfCommand(c) \subseteq Mentions
    BY CommandMentions
  <2>9. Told(t) = t
    BY Zenon DEF Told, Taught
  <2>4. OfCommand(d) \subseteq Mentions \cup M
    BY <1>1, <1>2, <2>1, <2>2, <2>3, <2>9, Zenon DEF OfCommand
  <2>5. OfEvents' \subseteq Mentions
    BY <1>1, SameMention, Zenon DEF Mentions
  <2>6. Goto(p, d) /\ Shape
    BY <1>2 DEF d, Inv
  <2>7. Mentions' \subseteq Mentions \cup M
    BY <1>2, <2>4, <2>5, <2>6, CommandsMention, Zenon
  <2>8. Shape'
    BY <1>1, <1>2, <2>1, <2>2, <2>6, ShapeKeeps
  <2> QED  BY <2>7, <2>8
<1>3. CASE \E l \in Same(pattern, resource) : learnings' = Bumped(l) /\ lastId' = lastId /\ Goto(p, With(l.id))
  <2>1. PICK l \in learnings : /\ l.pattern = pattern /\ l.resource = resource
                               /\ learnings' = Bumped(l) /\ lastId' = lastId /\ Goto(p, With(l.id))
    BY <1>3 DEF Same
  <2> DEFINE confidence == l.confidence + 1
             m == [l EXCEPT !.confidence = confidence, !.at = Now]
  <2>2. /\ learnings' = (learnings \ {l}) \cup {m} /\ {"id", "pattern", "resource"} \subseteq DOMAIN m
        /\ m.id = l.id /\ m.pattern = l.pattern /\ m.resource = l.resource
    BY <1>1, <2>1 DEF Bumped
  <2> HIDE DEF m
  <2>3. /\ \A k \in learnings' : {"id", "pattern", "resource"} \subseteq DOMAIN k
        /\ OfLearnings' \subseteq OfLearnings
    BY <1>1, <2>2 DEF OfLearnings
  <2>4. OfLearnings \subseteq Mentions /\ Taught(l.id, pattern, resource) \in OfLearnings
    BY <2>1, Zenon DEF Mentions, OfLearnings
  <2>5. Shape' /\ Mentions' \subseteq Mentions \cup {}
    BY <1>1, <1>2, <2>1, <2>3, <2>4
  <2> QED  BY <2>1, <2>5, MentionsKeep
<1>4. CASE /\ learnings' = learnings \cup {NewRow(pattern, c.n.entities, resource)}
           /\ lastId' = NextId /\ Goto(p, With(NextId))
  <2> DEFINE m == NewRow(pattern, c.n.entities, resource)
             t == Taught(NextId, pattern, resource)
  <2>1. {"id", "pattern", "resource"} \subseteq DOMAIN m /\ Taught(m.id, m.pattern, m.resource) = t
    BY DEF NewRow
  <2> HIDE DEF m
  <2>2. /\ \A k \in learnings' : {"id", "pattern", "resource"} \subseteq DOMAIN k
        /\ OfLearnings' \subseteq OfLearnings \cup {t}
    BY <1>1, <1>4, <2>1 DEF OfLearnings, m
  <2>3. OfLearnings \subseteq Mentions /\ lastId' \in Nat
    BY <1>1, <1>4 DEF Mentions, NextId
  <2>4. Shape' /\ Mentions' \subseteq Mentions \cup {t}
    BY <1>2, <1>4, <2>2, <2>3
  <2>5. t = [id |-> NextId, of |-> <<pattern, resource>>]
    BY DEF Taught
  <2> QED  BY <1>4, <2>4, <2>5, MentionsKeep
<1> QED  BY <1>3, <1>4 DEF TeachUpsert

LEMMA TeachEventKeeps ==
    ASSUME Inv, NEW p \in Procs, TeachEvent(p)
    PROVE  Inv'
<1> DEFINE c == proc[p]
           d == [c EXCEPT !.rows = Tail(@)]
           top == Head(c.rows)
           family == QueryFamily(c.n)
           e == EventOf("teach", family, top.id, FALSE, top.of)
<1>1. /\ c.pc = "upsert" /\ {"pc", "left", "rows"} \subseteq DOMAIN c /\ IsSequence(c.rows) /\ c.rows # <<>>
      /\ UNCHANGED <<learnings, lastId>> /\ Goto(p, d) /\ Recorded(events, e)
      /\ Shape /\ IsSequence(events)
  BY DEF TeachEvent, At, Inv, Shape
<1>2. d.pc = "upsert" /\ {"pc", "left", "rows"} \subseteq DOMAIN d /\ d.rows = Tail(c.rows)
  BY <1>1
<1> HIDE DEF d, family
<1>3. top \in ToSet(c.rows) /\ IsSequence(d.rows) /\ ToSet(d.rows) \subseteq ToSet(c.rows)
  BY <1>1, <1>2, SequenceHeadTail
<1>4. OfCommand(c) \subseteq Mentions
  BY CommandMentions
<1>5. OfCommand(d) \subseteq Mentions
  BY <1>1, <1>2, <1>3, <1>4, Zenon DEF OfCommand
<1>6. Mention(e) = Told(top) /\ Told(top) \in OfCommand(c)
  BY <1>1, <1>3, Zenon DEF Mention, Told, EventOf, OfCommand
<1>7. IsSequence(events') /\ OfEvents' \subseteq Mentions
  BY <1>1, <1>4, <1>6, EventsMention
<1>8. Shape'
  BY <1>1, <1>2, <1>3, <1>7, ShapeKeeps DEF Shape
<1>9. OfLearnings' \subseteq Mentions
  BY <1>1, SameMention, Zenon DEF Mentions
<1>10. Mentions' \subseteq Mentions \cup {}
  BY <1>1, <1>5, <1>7, <1>9, CommandsMention
<1> QED  BY <1>1, <1>8, <1>10, MentionsKeep

LEMMA TeachExtractKeeps ==
    ASSUME Inv, NEW p \in Procs, TeachExtract(p)
    PROVE  Inv'
<1>1. Goto(p, Idle) /\ UNCHANGED <<learnings, lastId, events>>
  BY DEF TeachExtract
<1> QED  BY <1>1, IdleMentions, QuietKeeps

LEMMA FailsKeeps ==
    ASSUME Inv, NEW p \in Procs, Fails(p)
    PROVE  Inv'
<1>1. Goto(p, Idle) /\ UNCHANGED <<learnings, lastId, events>>
  BY DEF Fails
<1> QED  BY <1>1, IdleMentions, QuietKeeps

\* What is cut from a list is of the list.
LEMMA CutIsOfTheList ==
    ASSUME NEW list, NEW before, NEW kept \in Cut(list, before)
    PROVE  kept \subseteq list
BY DEF Cut

\* A hit of an answer was matched with a row, or is a pattern's.
LEMMA HitsComeFrom ==
    ASSUME NEW n, NEW hits \in Hits(n), NEW h \in hits, h \notin RowHits(n)
    PROVE  \E p \in patterns : h \in PatternHitsOf(p, n, lookups, Stored)
<1>1. PICK all \in HitsAfter(RowHits(n), n) : hits \in Cut(all, Ordered(all, SortsBefore))
  BY Zenon DEF Hits
<1>2. h \in all
  BY <1>1, CutIsOfTheList, Zenon
<1>3. PICK applied \in Applied(n) : \E first \in FirstOfEach(applied) : h \in first
  BY <1>1, <1>2, Zenon DEF HitsAfter
<1>4. h \in applied
  BY <1>3, Zenon DEF FirstOfEach
<1> DEFINE found == ApplyPatterns(patterns, n, lookups, Stored)
<1>5. applied \in Cut(found, Ordered(found, AppliedBefore))
  BY <1>3, Zenon DEF Applied
<1> HIDE DEF found
<1>6. h \in found
  BY <1>4, <1>5, CutIsOfTheList, Zenon
<1> QED  BY <1>6, Zenon DEF found, ApplyPatterns

\* A hit carries the learning it was matched with; a pattern's hit carries none.
LEMMA HitsMention ==
    ASSUME NEW n, NEW hits \in Hits(n), NEW h \in hits
    PROVE  Mention(h) \in Mentions
<1>1. CASE h \in RowHits(n)
  <2>1. PICK l \in learnings : h \in RowMatch(l, n, lookups, StoredEntities(l, lookups), Stored)
    BY <1>1, Zenon DEF RowHits, AllMatches
  <2>2. h.row = l.id /\ h.of = <<l.pattern, l.resource>>
    BY <2>1 DEF RowMatch, ScoredRow, RowHit
  <2>3. Mention(h) = Taught(l.id, l.pattern, l.resource)
    BY <2>2, Zenon DEF Mention, Taught
  <2> QED  BY <2>3, Zenon DEF Mentions, OfLearnings
<1>2. CASE h \notin RowHits(n)
  <2>1. PICK p \in patterns : h \in PatternHitsOf(p, n, lookups, Stored)
    BY <1>2, HitsComeFrom
  <2>2. h.row = 0 /\ h.of = <<>>
    BY <2>1 DEF PatternHitsOf, PatternHit
  <2> QED  BY <2>2, Zenon DEF Mentions, Mention, Nothing
<1> QED  BY <1>1, <1>2

LEMMA RecallQueryKeeps ==
    ASSUME Inv, NEW p \in Procs, NEW q \in Questions, RecallQuery(p, q)
    PROVE  Inv'
<1> DEFINE n == Understood(q, lookups)
<1>1. PICK hits \in Hits(n) : /\ Goto(p, [pc |-> "answered", q |-> q, n |-> n, hits |-> hits])
                              /\ UNCHANGED <<learnings, lastId, events>>
  BY Zenon DEF RecallQuery
<1>2. \A h \in hits : Mention(h) \in Mentions
  BY HitsMention
<1> DEFINE c == [pc |-> "answered", q |-> q, n |-> n, hits |-> hits]
<1> HIDE DEF n
<1>3. c.pc = "answered" /\ c.hits = hits /\ Goto(p, c)
  BY <1>1
<1> HIDE DEF c
<1>4. OfCommand(c) \subseteq Mentions
  BY <1>2, <1>3 DEF OfCommand
<1> QED  BY <1>1, <1>3, <1>4, QuietKeeps

LEMMA RecallEventsKeeps ==
    ASSUME Inv, NEW p \in Procs, RecallEvents(p)
    PROVE  Inv'
<1> DEFINE c == proc[p]
<1>1. /\ c.pc = "answered" /\ Goto(p, Idle) /\ UNCHANGED <<learnings, lastId>> /\ Shape
      /\ IsSequence(events) /\ lastId \in Nat
      /\ \A l \in learnings : {"id", "pattern", "resource"} \subseteq DOMAIN l
  BY DEF RecallEvents, At, Inv, Shape
<1>2. PICK e : Recorded(events, e) /\ (e.event \in {"teach", "hit"} => Mention(e) \in Mentions)
  <2>1. ASSUME NEW top \in Tops(c.hits)
        PROVE  Mention(EventOf("hit", QueryFamily(c.n), top.row, top.match = "exact", top.of)) \in Mentions
    <3>1. Mention(EventOf("hit", QueryFamily(c.n), top.row, top.match = "exact", top.of)) = Mention(top)
      BY DEF Mention, EventOf
    <3>2. Mention(top) \in OfCommand(c)
      BY <1>1, Zenon DEF OfCommand, Tops
    <3> QED  BY <3>1, <3>2, CommandMentions
  <2>2. EventOf("miss", QueryFamily(c.n), 0, FALSE, <<>>).event = "miss"
    BY DEF EventOf
  <2> QED  BY <2>1, <2>2 DEF RecallEvents
<1>3. IsSequence(events') /\ OfEvents' \subseteq Mentions
  BY <1>1, <1>2, EventsMention
<1>4. Shape'
  BY <1>1, <1>3, ShapeKeeps, IdleMentions
<1>5. OfLearnings' \subseteq Mentions
  BY <1>1, SameMention, Zenon DEF Mentions
<1>6. Mentions' \subseteq Mentions \cup {}
  BY <1>1, <1>3, <1>5, IdleMentions, CommandsMention
<1> QED  BY <1>1, <1>4, <1>6, MentionsKeep

LEMMA ForgetRowsKeeps ==
    ASSUME Inv, NEW p \in Procs, NEW q, NEW of, ForgetRows(p, q, of)
    PROVE  Inv'
<1> DEFINE c == [pc |-> "cascade", q |-> q]
<1>1. Goto(p, c) /\ learnings' \subseteq learnings /\ UNCHANGED <<lastId, events>> /\ Shape
  BY DEF ForgetRows, Inv
<1>2. c.pc = "cascade"
  OBVIOUS
<1> HIDE DEF c
<1>3. Shape'
  BY <1>1, <1>2, ShapeKeeps DEF Shape
<1>4. OfLearnings' \subseteq OfLearnings /\ OfEvents' = OfEvents /\ OfCommand(c) = {}
  BY <1>1, <1>2 DEF OfLearnings, OfEvents, OfCommand
<1>5. Mentions' \subseteq Mentions \cup {}
  BY <1>1, <1>4, CommandsMention, Zenon DEF Mentions
<1> QED  BY <1>1, <1>3, <1>5, MentionsKeep

LEMMA ForgetEventsKeeps ==
    ASSUME Inv, NEW p \in Procs, ForgetEvents(p)
    PROVE  Inv'
<1> DEFINE f == QueryFamily(Understood(proc[p].q, lookups))
           e == EventOf("forget", f, 0, FALSE, <<>>)
<1>1. Goto(p, Idle) /\ UNCHANGED <<learnings, lastId>> /\ Shape /\ IsSequence(events)
  BY DEF ForgetEvents, Inv, Shape
<1>2. PICK kept \in {events, Cascaded(f)} : Recorded(kept, e)
  BY DEF ForgetEvents
<1>3. IsSequence(kept) /\ ToSet(kept) \subseteq ToSet(events)
  BY <1>1, SequencePicked DEF Cascaded
<1>4. e.event = "forget"
  BY DEF EventOf
<1> HIDE DEF e, f
<1>5. IsSequence(events') /\ OfEvents' \subseteq Mentions
  BY <1>2, <1>3, <1>4, EventsMention
<1>6. Shape'
  BY <1>1, <1>5, ShapeKeeps, IdleMentions DEF Shape
<1>7. OfLearnings' \subseteq Mentions
  BY <1>1, SameMention, Zenon DEF Mentions
<1>8. Mentions' \subseteq Mentions \cup {}
  BY <1>1, <1>5, <1>7, IdleMentions, CommandsMention
<1> QED  BY <1>1, <1>6, <1>8, MentionsKeep

LEMMA StatsKeeps ==
    ASSUME Inv, NEW p \in Procs, Stats(p)
    PROVE  Inv'
<1>1. IsSequence(events) /\ Len(events) \in Nat /\ MaxEvents \in Nat
  BY RecallAssumption, LenProperties DEF Inv, Shape, IsSequence
<1>2. Len(events) - MaxEvents + 1 \in 1..Len(events) + 1
  BY <1>1 DEF Stats
<1> QED  BY <1>1, <1>2, SequenceEnd, StoreKeeps DEF Stats

LEMMA SyncKeeps ==
    ASSUME Inv, NEW p \in Procs, NEW i, Sync(p, i)
    PROVE  Inv'
<1> DEFINE c == [pc |-> "refresh"]
<1>1. Goto(p, c) /\ UNCHANGED <<learnings, lastId, events>> /\ c.pc = "refresh"
  BY DEF Sync
<1> HIDE DEF c
<1> QED  BY <1>1, QuietKeeps DEF OfCommand

LEMMA RefreshKeeps ==
    ASSUME Inv, NEW p \in Procs, RefreshCollect(p) \/ RefreshInsert(p)
    PROVE  Inv'
<1>1. CASE RefreshCollect(p)
  <2> DEFINE left == Candidates
             saw == {x \in ToSet(Scanned) : x.e \in misses}
             c == [pc |-> "insert", left |-> left, saw |-> saw]
  <2>1. Goto(p, c) /\ UNCHANGED <<learnings, lastId, events>>
    BY <1>1 DEF RefreshCollect
  <2> HIDE DEF left, saw
  <2>2. c.pc = "insert" /\ {"pc", "left"} \subseteq DOMAIN c
    OBVIOUS
  <2> HIDE DEF c
  <2> QED  BY <2>1, <2>2, QuietKeeps DEF OfCommand
<1>2. CASE RefreshInsert(p) /\ Goto(p, Idle)
  BY <1>2, IdleMentions, QuietKeeps DEF RefreshInsert
<1>3. CASE RefreshInsert(p) /\ Goto(p, [proc[p] EXCEPT !.left = Tail(@)])
  <2> DEFINE c == [proc[p] EXCEPT !.left = Tail(@)]
  <2>1. Goto(p, c) /\ UNCHANGED <<learnings, lastId, events>>
    BY <1>3 DEF RefreshInsert
  <2>2. c.pc = "insert" /\ {"pc", "left"} \subseteq DOMAIN c
    BY <1>3 DEF RefreshInsert, At, Inv, Shape
  <2> HIDE DEF c
  <2> QED  BY <2>1, <2>2, QuietKeeps DEF OfCommand
<1> QED  BY <1>1, <1>2, <1>3 DEF RefreshInsert

-----------------------------------------------------------------------------
LEMMA InvInit == Init => Inv
<1> SUFFICES ASSUME Init  PROVE  Inv
  OBVIOUS
<1>1. \A p \in Procs : proc[p] = Idle /\ proc[p].pc = "idle"
  BY IdleMentions DEF Init
<1>2. IsSequence(events) /\ ToSet(events) = {}
  BY DEF Init, IsSequence, ToSet
<1>3. Shape
  BY <1>1, <1>2 DEF Init, Shape
<1>4. \A p \in Procs : OfCommand(proc[p]) = {}
  BY <1>1, IdleMentions
<1>5. OfLearnings = {} /\ OfEvents = {}
  BY <1>2 DEF Init, OfLearnings, OfEvents
<1>6. Mentions = {Nothing}
  BY <1>4, <1>5 DEF Mentions
<1>7. Counted /\ OneOf
  BY <1>6 DEF Counted, OneOf, Nothing, Init
<1> QED  BY <1>3, <1>7 DEF Inv

LEMMA InvNext ==
    ASSUME Inv, Next
    PROVE  Inv'
<1> PICK p \in Procs :
        \/ \E t \in Teaches : TeachPromote(p, t)
        \/ TeachUpsert(p) \/ TeachEvent(p) \/ TeachExtract(p)
        \/ \E new \in NewPatterns : TeachPattern(p, new)
        \/ \E l \in NewLookups : TeachLookup(p, l)
        \/ \E q \in Questions : RecallQuery(p, q)
        \/ RecallEvents(p)
        \/ \E q \in Questions :
             \E of \in {Taughts} \cup {{r} : r \in Taughts} : ForgetRows(p, q, of)
        \/ ForgetEvents(p) \/ Stats(p)
        \/ \E i \in DOMAIN Catalog : Sync(p, i)
        \/ RefreshCollect(p) \/ RefreshInsert(p) \/ Fails(p)
  BY Zenon DEF Next
<1>1. CASE (\E t \in Teaches : TeachPromote(p, t)) \/ TeachUpsert(p) \/ TeachEvent(p) \/ TeachExtract(p)
  BY <1>1, TeachPromoteKeeps, TeachUpsertKeeps, TeachEventKeeps, TeachExtractKeeps
<1>2. CASE (\E new \in NewPatterns : TeachPattern(p, new)) \/ (\E l \in NewLookups : TeachLookup(p, l))
  <2>1. UNCHANGED <<learnings, lastId, proc, events>>
    BY <1>2 DEF TeachPattern, TeachLookup
  <2> QED  BY <2>1, StoreKeeps DEF Inv, Shape
<1>3. CASE (\E q \in Questions : RecallQuery(p, q)) \/ RecallEvents(p)
  BY <1>3, RecallQueryKeeps, RecallEventsKeeps
<1>4. CASE \E q \in Questions : \E of \in {Taughts} \cup {{r} : r \in Taughts} : ForgetRows(p, q, of)
  BY <1>4, ForgetRowsKeeps
<1>5. CASE ForgetEvents(p) \/ Stats(p)
  BY <1>5, ForgetEventsKeeps, StatsKeeps
<1>6. CASE (\E i \in DOMAIN Catalog : Sync(p, i)) \/ RefreshCollect(p) \/ RefreshInsert(p) \/ Fails(p)
  BY <1>6, SyncKeeps, RefreshKeeps, FailsKeeps
<1> QED  BY <1>1, <1>2, <1>3, <1>4, <1>5, <1>6

LEMMA InvStep == Inv /\ [Next]_vars => Inv'
<1>1. Inv /\ UNCHANGED vars => Inv'
  <2> SUFFICES ASSUME Inv, UNCHANGED vars  PROVE  Inv'
    OBVIOUS
  <2> QED  BY StoreKeeps DEF vars, Inv, Shape
<1> QED  BY <1>1, InvNext

\* A row id, once given, names that learning in every mention: in the store, in the
\* commands in flight and in the events, also after the learning is forgotten.
THEOREM IdsNameOneLearning == Spec => [](Counted /\ OneOf)
<1>1. Inv => Counted /\ OneOf
  BY DEF Inv
<1> QED  BY InvInit, InvStep, <1>1, PTL DEF Spec

\* Counting a taught row as reused, by row id alone, counts a hit of that very learning.
THEOREM ReuseHolds == Spec => []ReuseIsOfTheRow
<1>1. Inv => ReuseIsOfTheRow
  <2> SUFFICES ASSUME Inv, NEW r \in Reuses  PROVE  events[r[1]].of = events[r[2]].of
    BY DEF ReuseIsOfTheRow
  <2>1. /\ r[1] \in DOMAIN events /\ r[2] \in DOMAIN events /\ events[r[1]].event = "teach"
        /\ events[r[2]].event = "hit" /\ events[r[1]].row = events[r[2]].row
    BY DEF Reuses
  <2>2. events[r[1]] \in ToSet(events) /\ events[r[2]] \in ToSet(events)
    BY <2>1, Zenon DEF ToSet
  <2>3. Mention(events[r[1]]) \in Mentions /\ Mention(events[r[2]]) \in Mentions
    BY <2>1, <2>2, Zenon DEF Mentions, OfEvents
  <2> QED  BY <2>1, <2>3 DEF Inv, OneOf, Mention
<1> QED  BY InvInit, InvStep, <1>1, PTL DEF Spec
-----------------------------------------------------------------------------
(***************************************************************************)
(* Exact answers.                                                          *)
(***************************************************************************)
\* A taught row that is called exact was taught for an entity of the question,
\* or for one that is the same to the lookups.
Shares(e, f) == e = f \/ {<<e, f>>, <<f, e>>} \intersect Within # {} \/ Resolve(lookups, e) \intersect Resolve(lookups, f) # {}

LEMMA ExactRowShares ==
    ASSUME NEW l, NEW n, NEW h \in RowMatch(l, n, lookups, StoredEntities(l, lookups), Stored), h.match = "exact"
    PROVE  /\ h.row = l.id
           /\ \E e \in ToSet(n.entities), f \in ToSet(l.entities) \cup ToSet(l.pattern) : Shares(e, f)
<1> DEFINE es == ToSet(n.entities)
           held == StoredEntities(l, lookups)
           overlap == ResolveSet(lookups, es) \intersect ResolveSet(lookups, held) # {}
           own == OwnScore(ToSet(n.tokens), StoredTokens(l, held), es, held)
           canonical == Jaccard(ResolveSet(lookups, es), ResolveSet(lookups, held))
           verdict == Verdict(l, es, held, overlap, Stored)
           score == FinalScore(own, canonical)
<1>1. h = RowHit(l, verdict, score)
  BY DEF RowMatch, ScoredRow
<1> HIDE DEF score
<1>2. h.row = l.id /\ verdict = "exact"
  <2> HIDE DEF verdict
  <2> QED  BY <1>1 DEF RowHit
<1>3. held \subseteq ToSet(l.entities) \cup ToSet(l.pattern)
  BY DEF StoredEntities
<1>4. CASE overlap
  <2>1. PICK c : c \in ResolveSet(lookups, es) /\ c \in ResolveSet(lookups, held)
    BY <1>4
  <2>2. PICK e \in es : c \in Resolve(lookups, e)
    BY <2>1 DEF ResolveSet
  <2>3. PICK f \in held : c \in Resolve(lookups, f)
    BY <2>1 DEF ResolveSet
  <2>4. Shares(e, f)
    BY <2>2, <2>3 DEF Shares
  <2> QED  BY <1>2, <1>3, <2>4
<1>5. CASE ~ overlap
  <2>1. ClassifyEntityMatch(es, held) = "exact"
    <3> HIDE DEF overlap, es, held
    <3> QED  BY <1>2, <1>5 DEF Verdict
  <2>2. PICK e \in es, f \in held : e = f \/ <<e, f>> \in Within \/ <<f, e>> \in Within
    BY <2>1 DEF ClassifyEntityMatch
  <2>3. Shares(e, f)
    BY <2>2 DEF Shares
  <2> QED  BY <1>2, <1>3, <2>3
<1> QED  BY <1>4, <1>5

LEMMA PriorityBounds == \A l : Priority(l) \in 0..4
BY DEF Priority

\* Of any rows, one comes first.
LEMMA BestRow ==
    ASSUME NEW rows, rows # {}
    PROVE  \E l \in rows : \A o \in rows : Priority(l) <= Priority(o)
<1> DEFINE ranks == {Priority(l) : l \in rows}
<1>1. ranks \subseteq Nat /\ ranks # {}
  BY PriorityBounds
<1> HIDE DEF ranks
<1>2. PICK x \in ranks : \A y \in ranks : ~(<<y, x>> \in OpToRel(<, Nat))
  BY <1>1, NatLessThanWellFounded, WFMin
<1>3. \A y \in ranks : y \in Nat /\ x \in Nat /\ ~(y < x)
  BY <1>1, <1>2 DEF OpToRel
<1>4. \A y \in ranks : x <= y
  BY <1>3
<1>5. PICK l \in rows : Priority(l) = x
  BY DEF ranks
<1>6. \A o \in rows : Priority(o) \in ranks
  BY DEF ranks
<1> QED  BY <1>4, <1>5, <1>6

\* What a lookup spells is the entity, or the value of a row about it.
LEMMA LookupSpells ==
    ASSUME NEW kind, NEW e, NEW s \in Lookup(kind, e, lookups)
    PROVE  \E k, v : s = <<k, v>> /\ (v = e \/ \E l \in lookups : l.canonical = e /\ l.value = v)
<1> DEFINE rows == {l \in lookups : l.kind = kind /\ l.canonical = e}
           one == CHOOSE l \in rows : \A o \in rows : Priority(l) <= Priority(o)
<1>1. CASE kind \in ToSet(Spellings)
  BY <1>1 DEF Lookup
<1>2. CASE kind \notin ToSet(Spellings) /\ rows # {}
  <2>1. one \in rows
    <3> HIDE DEF rows
    <3> QED  BY <1>2, BestRow
  <2>2. s = <<"lowercase", one.value>>
    BY <1>2 DEF Lookup
  <2> HIDE DEF one
  <2> QED  BY <2>1, <2>2
<1>3. CASE kind \notin ToSet(Spellings) /\ rows = {}
  BY <1>3 DEF Lookup
<1> QED  BY <1>1, <1>2, <1>3

\* A pattern's hit is a resource of the store that an entity of the question names.
LEMMA PatternNames ==
    ASSUME NEW p, NEW n, NEW h \in PatternHitsOf(p, n, lookups, Stored)
    PROVE  h.source = "pattern" /\ \E e \in ToSet(n.entities) : Substituted(h, e)
<1>1. PICK i \in BoundAt(p, n, lookups, Stored) :
        h = PatternHit(p, n, CHOOSE r \in Verified(p, n.entities[i], lookups, Stored) : TRUE)
  BY DEF PatternHitsOf
<1> DEFINE e == n.entities[i]
           r == CHOOSE x \in Verified(p, e, lookups, Stored) : TRUE
<1>2. i \in DOMAIN n.entities /\ Verified(p, e, lookups, Stored) # {}
  BY DEF BoundAt
<1>3. r \in Verified(p, e, lookups, Stored)
  <2> HIDE DEF e
  <2> QED  BY <1>2
<1>4. h.source = "pattern" /\ h.resource = r /\ h.by = p
  <2> HIDE DEF r
  <2>1. h = PatternHit(p, n, r)
    BY <1>1 DEF r
  <2> QED  BY <2>1 DEF PatternHit
<1>5. e \in ToSet(n.entities)
  BY <1>2 DEF ToSet
<1> HIDE DEF r, e
<1>6. r \in Stored /\ Fits(r, p, Lookup(p.kind, e, lookups))
  BY <1>3 DEF Verified
<1>7. \E v : (v = e \/ \E l \in lookups : l.canonical = e /\ l.value = v) /\ (r.val = v \/ (p.prefix /\ LikeStart(r.val, v)))
  <2>1. CASE p.prefix
    <3>1. PICK s \in Lookup(p.kind, e, lookups) : Searched(r, p, s[2])
      BY <1>6, <2>1 DEF Fits
    <3>2. PICK k, v : s = <<k, v>> /\ (v = e \/ \E l \in lookups : l.canonical = e /\ l.value = v)
      BY LookupSpells
    <3>3. s[2] = v
      BY <3>2
    <3>4. LikeStart(r.val, v)
      BY <3>1, <3>3 DEF Searched, LikeStart
    <3> QED  BY <2>1, <3>2, <3>4
  <2>2. CASE ~ p.prefix
    <3>1. <<r.kind, r.val>> \in Lookup(p.kind, e, lookups)
      BY <1>6, <2>2 DEF Fits
    <3>2. PICK k, v : <<r.kind, r.val>> = <<k, v>> /\ (v = e \/ \E l \in lookups : l.canonical = e /\ l.value = v)
      BY <3>1, LookupSpells
    <3>3. r.val = v
      BY <3>2
    <3> QED  BY <3>2, <3>3
  <2> QED  BY <2>1, <2>2
<1>8. Substituted(h, e)
  BY <1>4, <1>6, <1>7, Zenon DEF Substituted, Values
<1> QED  BY <1>4, <1>5, <1>8

\* A row's hit is not called a pattern's.
LEMMA RowsAreTaught ==
    ASSUME NEW n, NEW h \in RowHits(n)
    PROVE  h.source = "taught"
<1>1. PICK l \in learnings : h \in RowMatch(l, n, lookups, StoredEntities(l, lookups), Stored)
  BY Zenon DEF RowHits, AllMatches
<1>2. PICK verdict, score : h = RowHit(l, verdict, score)
  BY <1>1 DEF RowMatch, ScoredRow
<1> QED  BY <1>2 DEF RowHit

LEMMA ExactHits ==
    ASSUME NEW n, NEW hits \in Hits(n), NEW h \in hits, h.match = "exact"
    PROVE  \E e \in ToSet(n.entities) : IF h.source = "pattern" THEN Substituted(h, e) ELSE TaughtFor(h.row, e)
<1>1. CASE h \in RowHits(n)
  <2>1. PICK l \in learnings : h \in RowMatch(l, n, lookups, StoredEntities(l, lookups), Stored)
    BY <1>1, Zenon DEF RowHits, AllMatches
  <2>2. h.source # "pattern"
    BY <1>1, RowsAreTaught
  <2>3. PICK e \in ToSet(n.entities), f \in ToSet(l.entities) \cup ToSet(l.pattern) : h.row = l.id /\ Shares(e, f)
    BY <2>1, ExactRowShares
  <2>4. TaughtFor(h.row, e)
    BY <2>3, Zenon DEF TaughtFor, Shares
  <2> QED  BY <2>2, <2>4
<1>2. CASE h \notin RowHits(n)
  <2>1. PICK p \in patterns : h \in PatternHitsOf(p, n, lookups, Stored)
    BY <1>2, HitsComeFrom
  <2> QED  BY <2>1, PatternNames
<1> QED  BY <1>1, <1>2

\* Only a recall answers.
LEMMA AnswersAreRecalls ==
    ASSUME Shape, [Next]_vars, NEW p \in Procs, proc'[p].pc = "answered", proc[p].pc = "idle"
    PROVE  \E q \in Questions : RecallQuery(p, q)
<1>1. proc'[p] # proc[p]
  OBVIOUS
<1>2. Next
  BY <1>1 DEF vars
<1> PICK o \in Procs :
        \/ \E t \in Teaches : TeachPromote(o, t)
        \/ TeachUpsert(o) \/ TeachEvent(o) \/ TeachExtract(o)
        \/ \E new \in NewPatterns : TeachPattern(o, new)
        \/ \E l \in NewLookups : TeachLookup(o, l)
        \/ \E q \in Questions : RecallQuery(o, q)
        \/ RecallEvents(o)
        \/ \E q \in Questions :
             \E of \in {Taughts} \cup {{r} : r \in Taughts} : ForgetRows(o, q, of)
        \/ ForgetEvents(o) \/ Stats(o)
        \/ \E i \in DOMAIN Catalog : Sync(o, i)
        \/ RefreshCollect(o) \/ RefreshInsert(o) \/ Fails(o)
  BY <1>2, Zenon DEF Next
<1>3. ASSUME NEW c, Goto(o, c), o # p  PROVE FALSE
  BY <1>1, <1>3, GotoOnly
<1>4. ASSUME NEW c, Goto(o, c), c.pc # "answered"  PROVE FALSE
  <2>1. proc'[p] = IF p = o THEN c ELSE proc[p]
    BY <1>4, GotoOnly
  <2> QED  BY <1>1, <1>4, <2>1
<1>5. ASSUME NEW c, Goto(o, [c EXCEPT !.left = Tail(@)]), proc[o].pc # "idle"  PROVE FALSE
  BY <1>1, <1>3, <1>5
<1>6. CASE \E q \in Questions : RecallQuery(o, q)
  <2>1. PICK q \in Questions : RecallQuery(o, q)
    BY <1>6
  <2>2. o = p
    BY <1>3, <2>1 DEF RecallQuery
  <2> QED  BY <2>1, <2>2
<1>7. CASE \E t \in Teaches : TeachPromote(o, t)
  <2>1. PICK t \in Teaches : TeachPromote(o, t)
    BY <1>7
  <2> DEFINE c == [pc |-> "upsert", q |-> t.q, n |-> Understood(t.q, lookups), left |-> t.resources, rows |-> <<>>]
  <2>2. Goto(o, c)
    BY <2>1 DEF TeachPromote
  <2>3. c.pc # "answered"
    OBVIOUS
  <2> HIDE DEF c
  <2> QED  BY <1>4, <2>2, <2>3
<1>8. CASE TeachUpsert(o) \/ TeachEvent(o)
  <2>1. (\E c : Goto(o, c)) /\ proc[o].pc = "upsert"
    BY <1>8 DEF TeachUpsert, TeachEvent, At
  <2>2. o = p
    BY <1>3, <2>1
  <2> QED  BY <2>1, <2>2
<1>9. CASE TeachExtract(o) \/ RecallEvents(o) \/ ForgetEvents(o) \/ Fails(o)
  <2>1. Goto(o, Idle)
    BY <1>9 DEF TeachExtract, RecallEvents, ForgetEvents, Fails
  <2> QED  BY <1>4, <2>1, IdleMentions
<1>10. CASE (\E new \in NewPatterns : TeachPattern(o, new)) \/ (\E l \in NewLookups : TeachLookup(o, l)) \/ Stats(o)
  <2>1. proc' = proc
    BY <1>10 DEF TeachPattern, TeachLookup, Stats
  <2> QED  BY <1>1, <2>1
<1>11. CASE \E q \in Questions : \E of \in {Taughts} \cup {{r} : r \in Taughts} : ForgetRows(o, q, of)
  <2>1. PICK q \in Questions : Goto(o, [pc |-> "cascade", q |-> q])
    BY <1>11 DEF ForgetRows
  <2> DEFINE c == [pc |-> "cascade", q |-> q]
  <2>2. c.pc # "answered" /\ Goto(o, c)
    BY <2>1
  <2> HIDE DEF c
  <2> QED  BY <1>4, <2>2
<1>12. CASE \E i \in DOMAIN Catalog : Sync(o, i)
  <2> DEFINE c == [pc |-> "refresh"]
  <2>1. c.pc # "answered" /\ Goto(o, c)
    BY <1>12 DEF Sync
  <2> HIDE DEF c
  <2> QED  BY <1>4, <2>1
<1>13. CASE RefreshCollect(o) \/ RefreshInsert(o)
  <2>1. (\E c : Goto(o, c)) /\ proc[o].pc \in {"refresh", "insert"}
    BY <1>13 DEF RefreshCollect, RefreshInsert, At
  <2>2. o = p
    BY <1>3, <2>1
  <2> QED  BY <2>1, <2>2
<1> QED  BY <1>6, <1>7, <1>8, <1>9, <1>10, <1>11, <1>12, <1>13

\* An exact hit, on which an agent skips discovery, was taught for an entity of the
\* question, or for one the lookups call by the same name, or was substituted from one
\* and is in the store (recall.go: validateResource; patterns/apply.go).
THEOREM ExactAnswersMeanIt == Spec => ExactMeansSameEntity
<1> DEFINE Exact == \A p \in Procs : proc'[p].pc = "answered" /\ proc[p].pc = "idle" =>
         \A h \in proc'[p].hits : h.match = "exact" =>
            \E e \in ToSet(proc'[p].n.entities) :
               IF h.source = "pattern" THEN Substituted(h, e) ELSE TaughtFor(h.row, e)
<1>1. Inv /\ [Next]_vars => [Exact]_vars
  <2> SUFFICES ASSUME Inv, [Next]_vars  PROVE Exact
    OBVIOUS
  <2> SUFFICES ASSUME NEW p \in Procs, proc'[p].pc = "answered", proc[p].pc = "idle",
                      NEW h \in proc'[p].hits, h.match = "exact"
               PROVE  \E e \in ToSet(proc'[p].n.entities) :
                         IF h.source = "pattern" THEN Substituted(h, e) ELSE TaughtFor(h.row, e)
    BY Zenon
  <2>1. PICK q \in Questions : RecallQuery(p, q)
    BY AnswersAreRecalls DEF Inv
  <2> DEFINE n == Understood(q, lookups)
  <2>2. PICK hits \in Hits(n) : Goto(p, [pc |-> "answered", q |-> q, n |-> n, hits |-> hits])
    BY <2>1, Zenon DEF RecallQuery
  <2> DEFINE c == [pc |-> "answered", q |-> q, n |-> n, hits |-> hits]
  <2>3. c.n = n /\ c.hits = hits
    OBVIOUS
  <2> HIDE DEF c, n
  <2>4. proc'[p] = c
    BY <2>2, GotoOnly DEF Inv, c
  <2>5. h \in hits
    BY <2>3, <2>4
  <2>6. proc'[p].n = n
    BY <2>3, <2>4
  <2> QED  BY <2>5, <2>6, ExactHits
<1>2. Init => Inv
  BY InvInit
<1>3. Inv /\ [Next]_vars => Inv'
  BY InvStep
<1> QED  BY <1>1, <1>2, <1>3, PTL DEF Spec, ExactMeansSameEntity

-----------------------------------------------------------------------------
(***************************************************************************)
(* A refresh: what it collects.                                            *)
(***************************************************************************)
\* A set of steps that has 0 and, with each step, the next has them all.
LEMMA EveryStep ==
    ASSUME NEW n \in Nat, NEW G \in SUBSET (0..n), 0 \in G, \A k \in 0..n : k \in G /\ k < n => k + 1 \in G
    PROVE  G = 0..n
<1> DEFINE M == (0..n) \ G
<1> SUFFICES ASSUME M # {}  PROVE FALSE
  OBVIOUS
<1>1. M \subseteq Nat
  OBVIOUS
<1> HIDE DEF M
<1>2. PICK x \in M : \A y \in M : ~(<<y, x>> \in OpToRel(<, Nat))
  BY <1>1, NatLessThanWellFounded, WFMin
<1>3. x \in 0..n /\ x \notin G /\ x # 0
  BY DEF M
<1>4. x - 1 \in 0..n /\ x - 1 < n /\ x - 1 < x /\ x - 1 \in Nat /\ x \in Nat /\ x - 1 + 1 = x
  BY <1>3
<1>5. x - 1 \in G
  <2>1. x - 1 \in M => <<x - 1, x>> \in OpToRel(<, Nat)
    BY <1>4 DEF OpToRel
  <2> QED  BY <1>2, <1>4, <2>1 DEF M
<1> QED  BY <1>3, <1>4, <1>5

\* The rows claimed after each entity, in one function.
Claims(n, f) == f = [i \in 0..n |-> IF i = 0 THEN <<>> ELSE Claim(f[i - 1], Scanned[i].kind, Scanned[i].e)]

LEMMA ClaimsExist ==
    ASSUME NEW n \in Nat
    PROVE  \E f : Claims(n, f)
<1> DEFINE G == {k \in 0..n : \E f : Claims(k, f)}
<1>1. 0 \in G
  <2> DEFINE f == [i \in 0..0 |-> <<>>]
  <2>1. f = [i \in 0..0 |-> IF i = 0 THEN <<>> ELSE Claim(f[i - 1], Scanned[i].kind, Scanned[i].e)]
    BY 0..0 = {0}
  <2>2. Claims(0, f)
    BY <2>1 DEF Claims
  <2> QED  BY <2>2
<1>2. ASSUME NEW k \in 0..n, k \in G, k < n  PROVE k + 1 \in G
  <2>1. PICK f : Claims(k, f)
    BY <1>2
  <2>2. k \in Nat /\ k + 1 \in 0..n /\ 0 \in 0..k
    BY <1>2
  <2> DEFINE last == Claim(f[k], Scanned[k + 1].kind, Scanned[k + 1].e)
             g == [i \in 0..k + 1 |-> IF i = k + 1 THEN last ELSE f[i]]
             step(i) == IF i = 0 THEN <<>> ELSE Claim(g[i - 1], Scanned[i].kind, Scanned[i].e)
  <2>3. \A i \in 0..k : g[i] = f[i]
    BY <2>2
  <2>4. \A i \in 0..k : f[i] = IF i = 0 THEN <<>> ELSE Claim(f[i - 1], Scanned[i].kind, Scanned[i].e)
    BY <2>1 DEF Claims
  <2>5. g[k + 1] = last /\ DOMAIN g = 0..k + 1
    BY <2>2
  <2>6. g = [i \in 0..k + 1 |-> g[i]]
    OBVIOUS
  <2> HIDE DEF g
  <2>7. ASSUME NEW i \in 0..k + 1  PROVE g[i] = step(i)
    <3>1. CASE i = 0
      BY <2>2, <2>3, <2>4, <3>1
    <3>2. CASE i = k + 1
      <4>1. i - 1 = k /\ k \in 0..k /\ i # 0
        BY <2>2, <3>2
      <4> QED  BY <2>3, <2>5, <3>2, <4>1
    <3>3. CASE i # 0 /\ i # k + 1
      <4>1. i \in 0..k /\ i - 1 \in 0..k
        BY <2>2, <3>3
      <4> QED  BY <2>3, <2>4, <3>3, <4>1
    <3> QED  BY <3>1, <3>2, <3>3
  <2>8. g = [i \in 0..k + 1 |-> step(i)]
    <3> HIDE DEF step
    <3> QED  BY <2>6, <2>7
  <2>9. Claims(k + 1, g)
    BY <2>8 DEF Claims
  <2> QED  BY <2>2, <2>9
<1> HIDE DEF G
<1>3. G = 0..n
  <2>1. G \in SUBSET (0..n)
    BY DEF G
  <2> QED  BY <1>1, <1>2, <2>1, EveryStep
<1> QED  BY <1>3 DEF G

LEMMA CandidatesClaimed ==
    ASSUME Len(Scanned) \in Nat
    PROVE  \E f : Claims(Len(Scanned), f) /\ Candidates = f[Len(Scanned)]
<1> DEFINE n == Len(Scanned)
           claimed[i \in 0..n] == IF i = 0 THEN <<>> ELSE Claim(claimed[i - 1], Scanned[i].kind, Scanned[i].e)
<1>1. claimed = CHOOSE f : Claims(n, f)
  BY Zenon DEF Claims
<1>2. Candidates = claimed[n]
  BY Zenon DEF Candidates
<1>3. Claims(n, claimed)
  BY <1>1, ClaimsExist, Zenon
<1> QED  BY <1>2, <1>3, Zenon

\* Everything a refresh scans is a sequence.
Joins(ss, n, f) == f = [i \in 1..n |-> IF i = 1 THEN ss[i] ELSE f[i - 1] \o ss[i]]

LEMMA JoinsExist ==
    ASSUME NEW n \in Nat, NEW ss
    PROVE  \E f : Joins(ss, n, f)
<1> DEFINE G == {k \in 0..n : \E f : Joins(ss, k, f)}
<1>1. 0 \in G
  <2> DEFINE f == [i \in 1..0 |-> <<>>]
  <2>1. f = [i \in 1..0 |-> IF i = 1 THEN ss[i] ELSE f[i - 1] \o ss[i]]
    BY 1..0 = {}
  <2>2. Joins(ss, 0, f)
    BY <2>1 DEF Joins
  <2> QED  BY <2>2
<1>2. ASSUME NEW k \in 0..n, k \in G, k < n  PROVE k + 1 \in G
  <2>1. PICK f : Joins(ss, k, f)
    BY <1>2
  <2>2. k \in Nat /\ k + 1 \in 0..n /\ k + 1 \in 1..n
    BY <1>2
  <2> DEFINE last == IF k = 0 THEN ss[1] ELSE f[k] \o ss[k + 1]
             g == [i \in 1..k + 1 |-> IF i = k + 1 THEN last ELSE f[i]]
             step(i) == IF i = 1 THEN ss[i] ELSE g[i - 1] \o ss[i]
  <2>3. \A i \in 1..k : g[i] = f[i]
    BY <2>2
  <2>4. \A i \in 1..k : f[i] = IF i = 1 THEN ss[i] ELSE f[i - 1] \o ss[i]
    BY <2>1 DEF Joins
  <2>5. g[k + 1] = last /\ g = [i \in 1..k + 1 |-> g[i]]
    BY <2>2
  <2> HIDE DEF g
  <2>6. ASSUME NEW i \in 1..k + 1  PROVE g[i] = step(i)
    <3>1. CASE i = k + 1 /\ k = 0
      BY <2>5, <3>1
    <3>2. CASE i = k + 1 /\ k # 0
      <4>1. i - 1 = k /\ k \in 1..k /\ i # 1
        BY <2>2, <3>2
      <4> QED  BY <2>3, <2>5, <3>2, <4>1
    <3>3. CASE i = 1 /\ i # k + 1
      <4>1. 1 \in 1..k
        BY <2>2, <3>3
      <4> QED  BY <2>3, <2>4, <3>3, <4>1
    <3>4. CASE i # 1 /\ i # k + 1
      <4>1. i \in 1..k /\ i - 1 \in 1..k
        BY <2>2, <3>4
      <4> QED  BY <2>3, <2>4, <3>4, <4>1
    <3> QED  BY <3>1, <3>2, <3>3, <3>4
  <2>7. g = [i \in 1..k + 1 |-> step(i)]
    <3> HIDE DEF step
    <3> QED  BY <2>5, <2>6
  <2>8. Joins(ss, k + 1, g)
    BY <2>7 DEF Joins
  <2> QED  BY <2>2, <2>8
<1> HIDE DEF G
<1>3. G = 0..n
  <2>1. G \in SUBSET (0..n)
    BY DEF G
  <2> QED  BY <1>1, <1>2, <2>1, EveryStep
<1> QED  BY <1>3 DEF G

LEMMA FlattenIsSequence ==
    ASSUME NEW S, NEW ss \in Seq(Seq(S))
    PROVE  FlattenSeq(ss) \in Seq(S)
<1> DEFINE n == Len(ss)
<1>1. n \in Nat /\ \A i \in 1..n : ss[i] \in Seq(S)
  BY LenProperties, ElementOfSeq
<1>2. CASE n = 0
  <2>1. FlattenSeq(ss) = ss
    BY <1>2 DEF FlattenSeq
  <2>2. ss = <<>>
    BY <1>2, EmptySeq
  <2> QED  BY <2>1, <2>2
<1>3. CASE n # 0
  <2> DEFINE flatten[i \in 1..n] == IF i = 1 THEN ss[i] ELSE flatten[i - 1] \o ss[i]
  <2>1. FlattenSeq(ss) = flatten[n]
    BY <1>3, Zenon DEF FlattenSeq
  <2>2. flatten = CHOOSE f : Joins(ss, n, f)
    BY Zenon DEF Joins
  <2> HIDE DEF flatten
  <2>3. Joins(ss, n, flatten)
    BY <1>1, <2>2, JoinsExist, Zenon
  <2>4. \A i \in 1..n : flatten[i] = IF i = 1 THEN ss[i] ELSE flatten[i - 1] \o ss[i]
    BY <2>3 DEF Joins
  <2> DEFINE G == {k \in 0..n : k = 0 \/ flatten[k] \in Seq(S)}
  <2> HIDE DEF n
  <2>5. ASSUME NEW k \in 0..n, k \in G, k < n  PROVE k + 1 \in G
    <3>1. k \in Nat /\ k + 1 \in 0..n /\ k + 1 \in 1..n /\ k + 1 - 1 = k
      BY <1>1, <2>5
    <3>2. ss[k + 1] \in Seq(S)
      BY <1>1, <3>1
    <3>3. CASE k = 0
      <4>1. flatten[k + 1] = ss[k + 1]
        BY <2>4, <3>1, <3>3
      <4> QED  BY <3>1, <3>2, <4>1
    <3>4. CASE k # 0
      <4>1. flatten[k + 1] = flatten[k] \o ss[k + 1]
        <5> DEFINE m == k + 1
        <5>1. m # 1 /\ m \in 1..n /\ m - 1 = k
          BY <3>1, <3>4
        <5> HIDE DEF m
        <5>2. flatten[m] = flatten[k] \o ss[m]
          BY <2>4, <5>1
        <5> QED  BY <5>2 DEF m
      <4>2. flatten[k] \in Seq(S)
        BY <2>5, <3>4
      <4>3. flatten[k] \o ss[k + 1] \in Seq(S)
        BY <3>2, <4>2, ConcatProperties
      <4> QED  BY <3>1, <4>1, <4>3
    <3> QED  BY <3>3, <3>4
  <2>6. 0 \in G /\ G \in SUBSET (0..n)
    BY <1>1
  <2> HIDE DEF G
  <2>7. G = 0..n
    BY <1>1, <2>5, <2>6, EveryStep
  <2>8. n \in 0..n
    BY <1>1
  <2> QED  BY <1>3, <2>1, <2>7, <2>8 DEF G
<1> QED  BY <1>2, <1>3

LEMMA ScannedIsSequence == IsSequence(Scanned) /\ Len(Scanned) \in Nat
<1> DEFINE rows(i) == [k \in DOMAIN Catalog[i].entities |-> [kind |-> Catalog[i].kind, e |-> Catalog[i].entities[k]]]
           parts == [i \in DOMAIN Catalog |-> IF i \in synced THEN rows(i) ELSE <<>>]
           S == UNION {{rows(i)[k] : k \in DOMAIN Catalog[i].entities} : i \in DOMAIN Catalog}
<1>1. Scanned = FlattenSeq(parts)
  BY DEF Scanned
<1>2. DOMAIN Catalog = 1..Len(Catalog) /\ Len(Catalog) \in Nat
  BY CatalogAssumption, LenProperties
<1>3. ASSUME NEW i \in DOMAIN Catalog  PROVE parts[i] \in Seq(S)
  <2> DEFINE es == Catalog[i].entities
  <2>1. DOMAIN es = 1..Len(es) /\ Len(es) \in Nat
    BY CatalogAssumption, LenProperties
  <2> DEFINE r == rows(i)
  <2>2. \A k \in 1..Len(es) : r[k] \in S
    BY <2>1
  <2>3. r = [k \in 1..Len(es) |-> r[k]]
    BY <2>1
  <2> HIDE DEF S, es, r
  <2>4. r \in Seq(S)
    <3>1. [k \in 1..Len(es) |-> r[k]] \in Seq(S)
      BY <2>1, <2>2, IsASeq
    <3> QED  BY <2>3, <3>1
  <2>5. <<>> \in Seq(S)
    OBVIOUS
  <2>6. parts[i] = IF i \in synced THEN r ELSE <<>>
    BY DEF r
  <2> QED  BY <2>4, <2>5, <2>6
<1>4. parts \in Seq(Seq(S))
  <2>1. parts = [i \in 1..Len(Catalog) |-> parts[i]]
    BY <1>2
  <2> HIDE DEF parts, S
  <2>2. [i \in 1..Len(Catalog) |-> parts[i]] \in Seq(Seq(S))
    BY <1>2, <1>3, IsASeq
  <2> QED  BY <2>1, <2>2
<1> HIDE DEF parts, S
<1>5. Scanned \in Seq(S)
  BY <1>1, <1>4, FlattenIsSequence
<1> QED  BY <1>5, SequenceOfAny, LenProperties

LEMMA ElementsAreFinite ==
    ASSUME NEW s, IsSequence(s)
    PROVE  IsFiniteSet(ToSet(s))
<1> DEFINE f == [i \in 1..Len(s) |-> s[i]]
<1>1. ToSet(s) = {s[i] : i \in 1..Len(s)} /\ Len(s) \in Nat
  BY SequenceOfAny, LenProperties DEF IsSequence
<1>2. f \in Surjection(1..Len(s), ToSet(s))
  BY <1>1 DEF Surjection
<1>3. IsFiniteSet(1..Len(s))
  BY <1>1, FS_Interval
<1> QED  BY <1>2, <1>3, FS_Surjection

\* What holds of the rows claimed up to entity j: each is new and of its own, and
\* the missed entities so far are known, claimed, or of a kind without room.
OfKindIn(k, out) == {l \in ToSet(out) : l.kind = k}
Served(out, x)   == MatchesMiss(x.e) => \/ x.e \in ResolvableForms
                                        \/ \E c \in ToSet(out) : c.value = x.e
                                        \/ FullFor(x.kind, out)
Derives(out)     == /\ IsSequence(out)
                    /\ \A c \in ToSet(out) : c.canonical = c.value /\ c.source = "synced" /\ c.value \notin ResolvableForms
                    /\ \A a, b \in ToSet(out) : a.value = b.value => a = b
Claimed(out, j)  == Derives(out) /\ \A i \in 1..j : Served(out, Scanned[i])

LEMMA ClaimKeeps ==
    ASSUME IsFiniteSet(lookups), NEW j \in Nat, NEW out, Claimed(out, j)
    PROVE  Claimed(Claim(out, Scanned[j + 1].kind, Scanned[j + 1].e), j + 1)
<1> DEFINE x == Scanned[j + 1]
           kind == x.kind
           e == x.e
           c == SelfLookup(kind, e)
           new == Append(out, c)
<1>1. \A i \in 1..j + 1 : i \in 1..j \/ i = j + 1
  OBVIOUS
<1>2. Derives(out) /\ \A i \in 1..j : Served(out, Scanned[i])
  BY DEF Claimed
<1>3. CASE FullFor(kind, out) \/ ~ MatchesMiss(e) \/ e \in ResolvableForms \cup {l.value : l \in ToSet(out)}
  <2>1. Claim(out, kind, e) = out
    BY <1>3 DEF Claim
  <2>2. Served(out, x)
    BY <1>3 DEF Served
  <2> HIDE DEF x
  <2>3. \A i \in 1..j + 1 : Served(out, Scanned[i])
    BY <1>1, <1>2, <2>2 DEF x
  <2>4. Claimed(out, j + 1)
    BY <1>2, <2>3 DEF Claimed
  <2> QED  BY <2>1, <2>4 DEF x
<1>4. CASE ~ (FullFor(kind, out) \/ ~ MatchesMiss(e) \/ e \in ResolvableForms \cup {l.value : l \in ToSet(out)})
  <2>1. Claim(out, kind, e) = new
    BY <1>4 DEF Claim
  <2>2. e \notin ResolvableForms /\ \A l \in ToSet(out) : l.value # e
    BY <1>4
  <2>3. c.canonical = e /\ c.value = e /\ c.source = "synced"
    BY DEF SelfLookup
  <2> HIDE DEF c, x
  <2>4. IsSequence(new) /\ ToSet(new) = ToSet(out) \cup {c}
    BY <1>2, SequenceAppend DEF Derives
  <2> HIDE DEF new
  <2>5. Derives(new)
    BY <1>2, <2>2, <2>3, <2>4 DEF Derives
  <2>6. ASSUME NEW k, FullFor(k, out)  PROVE FullFor(k, new)
    <3>1. IsFiniteSet(OfKindIn(k, new)) /\ OfKindIn(k, out) \subseteq OfKindIn(k, new)
      <4>1. IsFiniteSet(ToSet(new))
        BY <2>4, ElementsAreFinite
      <4>2. OfKindIn(k, new) \subseteq ToSet(new)
        BY DEF OfKindIn
      <4> QED  BY <2>4, <4>1, <4>2, FS_Subset DEF OfKindIn
    <3>2. /\ Cardinality(OfKindIn(k, out)) <= Cardinality(OfKindIn(k, new))
          /\ Cardinality(OfKindIn(k, out)) \in Nat /\ Cardinality(OfKindIn(k, new)) \in Nat
      BY <3>1, FS_Subset, FS_CardinalityType
    <3>3. SyncedCount(k) \in Nat /\ Cap \in Nat
      <4>1. IsFiniteSet({l \in lookups : l.source = "synced" /\ l.kind = k})
        BY FS_Subset
      <4> QED  BY <4>1, FS_CardinalityType, RecallAssumption DEF SyncedCount
    <3>4. SyncedCount(k) + Cardinality(OfKindIn(k, out)) >= Cap
      BY <2>6 DEF FullFor, OfKindIn
    <3>5. SyncedCount(k) + Cardinality(OfKindIn(k, new)) >= Cap
      BY <3>2, <3>3, <3>4
    <3> QED  BY <3>5 DEF FullFor, OfKindIn
  <2>7. ASSUME NEW y, Served(out, y)  PROVE Served(new, y)
    BY <2>4, <2>6, <2>7 DEF Served
  <2>8. Served(new, x)
    BY <2>3, <2>4 DEF Served, c
  <2>9. \A i \in 1..j + 1 : Served(new, Scanned[i])
    BY <1>1, <1>2, <2>7, <2>8 DEF x
  <2>10. Claimed(new, j + 1)
    BY <2>5, <2>9 DEF Claimed
  <2> QED  BY <2>1, <2>10 DEF x
<1> QED  BY <1>3, <1>4

LEMMA CandidatesKeep ==
    ASSUME IsFiniteSet(lookups)
    PROVE  Claimed(Candidates, Len(Scanned))
<1> DEFINE n == Len(Scanned)
<1>1. n \in Nat
  BY ScannedIsSequence
<1>2. PICK f : Claims(n, f) /\ Candidates = f[n]
  BY <1>1, CandidatesClaimed
<1> HIDE DEF n
<1>3. \A i \in 0..n : f[i] = IF i = 0 THEN <<>> ELSE Claim(f[i - 1], Scanned[i].kind, Scanned[i].e)
  BY <1>2 DEF Claims
<1> DEFINE G == {k \in 0..n : Claimed(f[k], k)}
<1>4. 0 \in G
  <2>1. f[0] = <<>>
    BY <1>1, <1>3
  <2>2. ToSet(<<>>) = {} /\ IsSequence(<<>>)
    BY DEF ToSet, IsSequence
  <2>3. Derives(<<>>)
    BY <2>2 DEF Derives
  <2>4. 1..0 = {}
    OBVIOUS
  <2>5. Claimed(<<>>, 0)
    BY <2>3, <2>4 DEF Claimed
  <2> QED  BY <1>1, <2>1, <2>5
<1>5. ASSUME NEW k \in 0..n, k \in G, k < n  PROVE k + 1 \in G
  <2> DEFINE m == k + 1
  <2>1. k \in Nat /\ m \in 0..n /\ m # 0 /\ m - 1 = k
    BY <1>1, <1>5
  <2> HIDE DEF m
  <2>2. f[m] = Claim(f[k], Scanned[m].kind, Scanned[m].e)
    BY <1>3, <2>1
  <2>3. Claimed(f[m], m)
    BY <1>5, <2>1, <2>2, ClaimKeeps DEF m
  <2> QED  BY <2>1, <2>3 DEF m
<1>6. G \in SUBSET (0..n)
  OBVIOUS
<1> HIDE DEF G
<1>7. G = 0..n
  BY <1>1, <1>4, <1>5, <1>6, EveryStep
<1>8. n \in G
  BY <1>1, <1>7
<1> QED  BY <1>2, <1>8 DEF G, n

-----------------------------------------------------------------------------
(***************************************************************************)
(* A refresh: what its inserts will have done.                             *)
(***************************************************************************)
\* The names under which rows fill a kind, and what a set of rows holds of an entity.
DerivedIn(ls, k) == {l \in ls : l.kind = k /\ (l.source = "synced" \/ l.canonical = l.value)}
NamedIn(ls, k)   == {<<l.canonical, l.value>> : l \in DerivedIn(ls, k)}
Known(ls, e)     == \E l \in ls : e = l.canonical \/ e = l.value
Promised(ls, x)  == Known(ls, x.e) \/ Cardinality(NamedIn(ls, x.kind)) >= Cap

\* Each row of A is in B, or a row that was there before it under its names.
Covers(B, A) == \A a \in A : \E b \in B : SameLookup(b, a) /\ (b = a \/ a.canonical = a.value)

LEMMA NamesAreFinite ==
    ASSUME NEW ls, IsFiniteSet(ls), NEW k
    PROVE  /\ IsFiniteSet(DerivedIn(ls, k)) /\ IsFiniteSet(NamedIn(ls, k))
           /\ Cardinality(NamedIn(ls, k)) <= Cardinality(DerivedIn(ls, k))
<1> DEFINE f == [l \in DerivedIn(ls, k) |-> <<l.canonical, l.value>>]
<1>1. IsFiniteSet(DerivedIn(ls, k))
  <2>1. DerivedIn(ls, k) \subseteq ls
    BY DEF DerivedIn
  <2> QED  BY <2>1, FS_Subset
<1>2. f \in Surjection(DerivedIn(ls, k), NamedIn(ls, k))
  BY DEF Surjection, NamedIn
<1> QED  BY <1>1, <1>2, FS_Surjection

LEMMA PromiseKept ==
    ASSUME NEW A, NEW B, IsFiniteSet(B), Covers(B, A), NEW x, Promised(A, x)
    PROVE  Promised(B, x)
<1>1. Known(A, x.e) => Known(B, x.e)
  BY DEF Known, Covers, SameLookup
<1>2. NamedIn(A, x.kind) \subseteq NamedIn(B, x.kind)
  <2> SUFFICES ASSUME NEW a \in DerivedIn(A, x.kind)  PROVE <<a.canonical, a.value>> \in NamedIn(B, x.kind)
    BY DEF NamedIn
  <2>1. PICK b \in B : SameLookup(b, a) /\ (b = a \/ a.canonical = a.value)
    BY DEF Covers, DerivedIn
  <2>2. b \in DerivedIn(B, x.kind) /\ b.canonical = a.canonical /\ b.value = a.value
    BY <2>1 DEF DerivedIn, SameLookup
  <2> QED  BY <2>2 DEF NamedIn
<1>3. IsFiniteSet(NamedIn(B, x.kind))
  BY NamesAreFinite
<1>4. /\ Cardinality(NamedIn(A, x.kind)) <= Cardinality(NamedIn(B, x.kind))
      /\ Cardinality(NamedIn(A, x.kind)) \in Nat /\ Cardinality(NamedIn(B, x.kind)) \in Nat
  BY <1>2, <1>3, FS_Subset, FS_CardinalityType
<1>5. Cardinality(NamedIn(A, x.kind)) >= Cap => Cardinality(NamedIn(B, x.kind)) >= Cap
  BY <1>4, RecallAssumption
<1> QED  BY <1>1, <1>5 DEF Promised

Keyed == IsFiniteSet(lookups) /\ \A a, b \in lookups : SameLookup(a, b) => a = b

\* The rows a refresh has collected keep its promise.
LEMMA CollectedPromise ==
    ASSUME Keyed, NEW out, Claimed(out, Len(Scanned)), NEW x \in ToSet(Scanned), x.e \in misses
    PROVE  Promised(lookups \cup ToSet(out), x)
<1> DEFINE k == x.kind
           all == lookups \cup ToSet(out)
           old == {l \in lookups : l.source = "synced" /\ l.kind = k}
           new == OfKindIn(k, out)
           name == [l \in old \cup new |-> <<l.canonical, l.value>>]
<1>1. Derives(out) /\ IsFiniteSet(ToSet(out))
  BY ElementsAreFinite DEF Claimed, Derives
<1>2. Served(out, x)
  <2>1. PICK i \in 1..Len(Scanned) : x = Scanned[i]
    BY ScannedIsSequence, SequenceOfAny DEF IsSequence
  <2> QED  BY <2>1 DEF Claimed
<1>3. MatchesMiss(x.e)
  BY DEF MatchesMiss
<1>4. CASE x.e \in ResolvableForms \/ \E c \in ToSet(out) : c.value = x.e
  <2>1. Known(all, x.e)
    BY <1>4 DEF ResolvableForms, Known
  <2> QED  BY <2>1 DEF Promised
<1>5. CASE FullFor(k, out)
  <2>1. IsFiniteSet(old) /\ IsFiniteSet(new) /\ new \subseteq ToSet(out)
    BY <1>1, FS_Subset DEF Keyed, OfKindIn
  <2>2. /\ \A l \in old : l \in lookups /\ l.value \in ResolvableForms /\ l \in DerivedIn(all, k)
        /\ \A l \in new : l.value \notin ResolvableForms /\ l \in DerivedIn(all, k)
    BY <1>1 DEF OfKindIn, Derives, ResolvableForms, DerivedIn
  <2>3. name \in Injection(old \cup new, NamedIn(all, k))
    <3>1. name \in [old \cup new -> NamedIn(all, k)]
      <4>1. \A l \in old \cup new : <<l.canonical, l.value>> \in NamedIn(all, k)
        BY <2>2 DEF NamedIn
      <4> HIDE DEF old, new, all
      <4> QED  BY <4>1
    <3>2. ASSUME NEW a \in old \cup new, NEW b \in old \cup new, name[a] = name[b]  PROVE a = b
      <4>1. a.canonical = b.canonical /\ a.value = b.value
        <5> HIDE DEF old, new
        <5> QED  BY <3>2
      <4>2. CASE a \in old /\ b \in old
        BY <4>1, <4>2 DEF Keyed, SameLookup
      <4>3. CASE a \in new /\ b \in new
        BY <1>1, <2>1, <4>1, <4>3 DEF Derives
      <4>4. CASE (a \in old /\ b \in new) \/ (a \in new /\ b \in old)
        BY <2>2, <4>1, <4>4
      <4> QED  BY <4>2, <4>3, <4>4
    <3> HIDE DEF name
    <3> QED  BY <3>1, <3>2 DEF Injection, IsInjective
  <2> HIDE DEF name
  <2>4. old \cap new = {}
    BY <2>2
  <2> HIDE DEF old, new, all
  <2>5. Cardinality(old \cup new) = Cardinality(old) + Cardinality(new)
    <3>1. Cardinality(old \cap new) = 0
      BY <2>4, FS_EmptySet
    <3>2. Cardinality(old \cup new) = Cardinality(old) + Cardinality(new) - Cardinality(old \cap new)
      BY <2>1, FS_Union
    <3>3. Cardinality(old) \in Nat /\ Cardinality(new) \in Nat
      BY <2>1, FS_CardinalityType
    <3> QED  BY <3>1, <3>2, <3>3
  <2>6. IsFiniteSet(NamedIn(all, k))
    <3>1. IsFiniteSet(all)
      BY <1>1, FS_Union DEF all, Keyed
    <3> QED  BY <3>1, NamesAreFinite
  <2>7. Cardinality(old \cup new) <= Cardinality(NamedIn(all, k))
    BY <2>3, <2>6, FS_Injection
  <2>8. Cardinality(old) + Cardinality(new) >= Cap
    BY <1>5 DEF FullFor, SyncedCount, OfKindIn, old, new
  <2>9. Cardinality(NamedIn(all, k)) \in Nat /\ Cardinality(old) \in Nat /\ Cardinality(new) \in Nat /\ Cap \in Nat
    BY <2>1, <2>6, FS_CardinalityType, RecallAssumption
  <2>10. Cardinality(NamedIn(all, k)) >= Cap
    BY <2>5, <2>7, <2>8, <2>9
  <2> QED  BY <2>10 DEF Promised, all
<1> QED  BY <1>2, <1>3, <1>4, <1>5 DEF Served

-----------------------------------------------------------------------------
(***************************************************************************)
(* A refresh: no command takes the promise back.                           *)
(***************************************************************************)
\* What a refresh that is inserting holds, over the store of that moment.
Keeps(ls, c) == /\ {"pc", "left", "saw"} \subseteq DOMAIN c /\ IsSequence(c.left)
                /\ \A r \in ToSet(c.left) : r.canonical = r.value
                /\ \A x \in c.saw : Promised(ls \cup ToSet(c.left), x)
Promises     == Keyed /\ \A p \in Procs : proc[p].pc = "insert" => Keeps(lookups, proc[p])

LEMMA SequenceSplit ==
    ASSUME NEW s, IsSequence(s), s # <<>>
    PROVE  ToSet(s) \subseteq {Head(s)} \cup ToSet(Tail(s))
<1>1. s \in Seq(ToSet(s)) /\ Len(s) \in Nat
  BY LenProperties DEF IsSequence
<1>2. Tail(s) \in Seq(ToSet(s)) /\ Len(Tail(s)) = Len(s) - 1 /\ Head(s) = s[1]
  BY <1>1, HeadTailProperties
<1>3. \A i \in 1..Len(s) - 1 : Tail(s)[i] = s[i + 1]
  BY <1>1, <1>2, HeadTailProperties
<1>4. ToSet(Tail(s)) = {Tail(s)[i] : i \in 1..Len(s) - 1}
  BY <1>2, SequenceOfAny
<1>5. ToSet(s) = {s[i] : i \in 1..Len(s)}
  BY <1>1, SequenceOfAny
<1>6. ASSUME NEW i \in 1..Len(s), i # 1  PROVE s[i] \in ToSet(Tail(s))
  <2> DEFINE j == i - 1
  <2>1. j \in 1..Len(s) - 1 /\ j + 1 = i
    BY <1>1, <1>6
  <2> HIDE DEF j
  <2> QED  BY <1>3, <1>4, <2>1
<1> QED  BY <1>2, <1>5, <1>6

\* One row more, under a key of its own.
LEMMA WithLookupKeeps ==
    ASSUME Keyed, NEW l, lookups' = WithLookup(l)
    PROVE  Keyed' /\ lookups \subseteq lookups' /\ \E k \in lookups' : SameLookup(k, l)
<1>1. CASE \E k \in lookups : SameLookup(k, l)
  BY <1>1, Zenon DEF WithLookup, Keyed
<1>2. CASE ~ \E k \in lookups : SameLookup(k, l)
  <2>1. lookups' = lookups \cup {l}
    BY <1>2 DEF WithLookup
  <2>2. IsFiniteSet(lookups')
    BY <2>1, FS_AddElement DEF Keyed
  <2>3. \A a, b \in lookups' : SameLookup(a, b) => a = b
    BY <1>2, <2>1 DEF Keyed, SameLookup
  <2> QED  BY <2>1, <2>2, <2>3 DEF Keyed, SameLookup
<1> QED  BY <1>1, <1>2

LEMMA KeepsAfter ==
    ASSUME NEW ls, NEW more, IsFiniteSet(more), ls \subseteq more, NEW c, Keeps(ls, c)
    PROVE  Keeps(more, c)
<1>1. IsFiniteSet(more \cup ToSet(c.left))
  BY ElementsAreFinite, FS_Union DEF Keeps
<1>2. Covers(more \cup ToSet(c.left), ls \cup ToSet(c.left))
  BY DEF Covers, SameLookup
<1> QED  BY <1>1, <1>2, PromiseKept DEF Keeps

\* A step that moves one command keeps what the others hold.
LEMMA OthersKeep ==
    ASSUME Shape, Promises, Keyed', lookups \subseteq lookups', NEW p \in Procs, NEW c, Goto(p, c),
           c.pc = "insert" => Keeps(lookups', c)
    PROVE  Promises'
<1>1. \A q \in Procs : proc'[q] = IF q = p THEN c ELSE proc[q]
  BY GotoOnly
<1>2. IsFiniteSet(lookups')
  BY DEF Keyed
<1> SUFFICES ASSUME NEW q \in Procs, proc'[q].pc = "insert"  PROVE Keeps(lookups', proc'[q])
  BY Zenon DEF Promises, Keeps, Promised, NamedIn, DerivedIn, Known, IsSequence, ToSet
<1>3. CASE q = p
  BY <1>1, <1>3
<1>4. CASE q # p
  <2>1. proc'[q] = proc[q]
    BY <1>1, <1>4
  <2>2. Keeps(lookups, proc[q])
    BY <2>1 DEF Promises
  <2> QED  BY <1>2, <2>1, <2>2, KeepsAfter
<1> QED  BY <1>3, <1>4

LEMMA CollectKeeps ==
    ASSUME Shape, Promises, NEW p \in Procs, RefreshCollect(p)
    PROVE  Promises'
<1> DEFINE left == Candidates
           saw == {x \in ToSet(Scanned) : x.e \in misses}
           c == [pc |-> "insert", left |-> left, saw |-> saw]
<1>1. Goto(p, c) /\ lookups' = lookups
  BY DEF RefreshCollect
<1>2. Keyed /\ Keyed'
  BY <1>1, Zenon DEF Promises, Keyed
<1>3. Claimed(left, Len(Scanned))
  BY <1>2, CandidatesKeep DEF Keyed
<1>4. \A x \in saw : Promised(lookups \cup ToSet(left), x)
  BY <1>2, <1>3, CollectedPromise
<1> HIDE DEF left, saw
<1>5. c.left = left /\ c.saw = saw /\ {"pc", "left", "saw"} \subseteq DOMAIN c
  OBVIOUS
<1>6. IsSequence(left) /\ \A r \in ToSet(left) : r.canonical = r.value
  BY <1>3 DEF Claimed, Derives
<1> HIDE DEF c
<1>7. Keeps(lookups, c)
  BY <1>4, <1>5, <1>6, Zenon DEF Keeps
<1> QED  BY <1>1, <1>2, <1>7, OthersKeep

LEMMA InsertKeeps ==
    ASSUME Shape, Promises, NEW p \in Procs, RefreshInsert(p)
    PROVE  Promises'
<1> DEFINE old == proc[p]
           c == [old EXCEPT !.left = Tail(@)]
<1>1. old.pc = "insert" /\ Keeps(lookups, old)
  BY DEF RefreshInsert, At, Promises
<1>2. CASE Goto(p, Idle) /\ lookups' = lookups
  <2>1. Goto(p, Idle) /\ lookups' = lookups
    BY <1>2
  <2>2. Keyed'
    BY <2>1, Zenon DEF Promises, Keyed
  <2> QED  BY <2>1, <2>2, IdleMentions, OthersKeep
<1>3. CASE old.left # <<>> /\ Goto(p, c) /\ lookups' = WithLookup(Head(old.left))
  <2>1. Goto(p, c) /\ lookups' = WithLookup(Head(old.left))
    BY <1>3
  <2>2. Keyed' /\ lookups \subseteq lookups' /\ \E k \in lookups' : SameLookup(k, Head(old.left))
    BY <2>1, WithLookupKeeps DEF Promises
  <2>3. c.left = Tail(old.left) /\ c.saw = old.saw /\ {"pc", "left", "saw"} \subseteq DOMAIN c
    BY <1>1 DEF Keeps
  <2>4. /\ Head(old.left) \in ToSet(old.left) /\ IsSequence(Tail(old.left))
        /\ ToSet(Tail(old.left)) \subseteq ToSet(old.left)
        /\ ToSet(old.left) \subseteq {Head(old.left)} \cup ToSet(Tail(old.left))
    BY <1>1, <1>3, SequenceHeadTail, SequenceSplit DEF Keeps
  <2>5. IsFiniteSet(lookups' \cup ToSet(Tail(old.left)))
    BY <2>2, <2>4, ElementsAreFinite, FS_Union DEF Keyed
  <2>6. \A r \in ToSet(old.left) : r.canonical = r.value
    BY <1>1 DEF Keeps
  <2>7. Covers(lookups' \cup ToSet(Tail(old.left)), lookups \cup ToSet(old.left))
    BY <2>2, <2>4, <2>6 DEF Covers, SameLookup
  <2>8. \A x \in old.saw : Promised(lookups \cup ToSet(old.left), x)
    BY <1>1 DEF Keeps
  <2>9. \A x \in old.saw : Promised(lookups' \cup ToSet(Tail(old.left)), x)
    BY <2>5, <2>7, <2>8, PromiseKept
  <2> HIDE DEF c
  <2>10. Keeps(lookups', c)
    <3>1. \A r \in ToSet(c.left) : r.canonical = r.value
      BY <2>3, <2>4, <2>6
    <3>2. \A x \in c.saw : Promised(lookups' \cup ToSet(c.left), x)
      BY <2>3, <2>9
    <3>3. IsSequence(c.left)
      BY <2>3, <2>4
    <3> QED  BY <2>3, <3>1, <3>2, <3>3, Zenon DEF Keeps
  <2> QED  BY <2>1, <2>2, <2>10, OthersKeep
<1> QED  BY <1>2, <1>3 DEF RefreshInsert

LEMMA PromisesInit == Init => Promises
<1> SUFFICES ASSUME Init  PROVE Promises
  OBVIOUS
<1>1. Keyed
  BY SeedsAssumption DEF Init, Keyed
<1>2. \A p \in Procs : proc[p] = Idle
  BY DEF Init
<1> QED  BY <1>1, <1>2, IdleMentions DEF Promises

LEMMA PromisesNext ==
    ASSUME Shape, Promises, Next
    PROVE  Promises'
<1> PICK p \in Procs :
        \/ \E t \in Teaches : TeachPromote(p, t)
        \/ TeachUpsert(p) \/ TeachEvent(p) \/ TeachExtract(p)
        \/ \E new \in NewPatterns : TeachPattern(p, new)
        \/ \E l \in NewLookups : TeachLookup(p, l)
        \/ \E q \in Questions : RecallQuery(p, q)
        \/ RecallEvents(p)
        \/ \E q \in Questions :
             \E of \in {Taughts} \cup {{r} : r \in Taughts} : ForgetRows(p, q, of)
        \/ ForgetEvents(p) \/ Stats(p)
        \/ \E i \in DOMAIN Catalog : Sync(p, i)
        \/ RefreshCollect(p) \/ RefreshInsert(p) \/ Fails(p)
  BY Zenon DEF Next
<1>1. ASSUME NEW c, Goto(p, c), c.pc # "insert", lookups' = lookups  PROVE Promises'
  <2>1. Keyed'
    BY <1>1, Zenon DEF Promises, Keyed
  <2> QED  BY <1>1, <2>1, OthersKeep
<1>2. CASE \E t \in Teaches : TeachPromote(p, t)
  <2>1. PICK t \in Teaches : TeachPromote(p, t)
    BY <1>2
  <2> DEFINE c == [pc |-> "upsert", q |-> t.q, n |-> Understood(t.q, lookups), left |-> t.resources, rows |-> <<>>]
  <2>2. Goto(p, c) /\ lookups' = lookups
    BY <2>1 DEF TeachPromote
  <2>3. c.pc # "insert"
    OBVIOUS
  <2> HIDE DEF c
  <2> QED  BY <1>1, <2>2, <2>3
<1>3. CASE TeachUpsert(p)
  <2> DEFINE c(id) == [proc[p] EXCEPT !.left = Tail(@),
                                      !.rows = Append(@, Taught(id, NormalizeQuery(proc[p].q), Head(proc[p].left)))]
  <2>1. (\E id : Goto(p, c(id))) /\ lookups' = lookups /\ proc[p].pc = "upsert"
    BY <1>3, Zenon DEF TeachUpsert, At
  <2>2. PICK id : Goto(p, c(id))
    BY <2>1
  <2>3. c(id).pc # "insert"
    BY <2>1 DEF Shape
  <2> HIDE DEF c
  <2> QED  BY <1>1, <2>1, <2>2, <2>3
<1>4. CASE TeachEvent(p)
  <2> DEFINE c == [proc[p] EXCEPT !.rows = Tail(@)]
  <2>1. Goto(p, c) /\ lookups' = lookups /\ proc[p].pc = "upsert"
    BY <1>4 DEF TeachEvent, At
  <2>2. c.pc # "insert"
    BY <2>1 DEF Shape
  <2> HIDE DEF c
  <2> QED  BY <1>1, <2>1, <2>2
<1>5. CASE TeachExtract(p) \/ RecallEvents(p) \/ ForgetEvents(p) \/ Fails(p)
  <2>1. Goto(p, Idle) /\ lookups' = lookups
    BY <1>5 DEF TeachExtract, RecallEvents, ForgetEvents, Fails
  <2> QED  BY <1>1, <2>1, IdleMentions
<1>6. CASE (\E new \in NewPatterns : TeachPattern(p, new)) \/ Stats(p)
  <2>1. proc' = proc /\ lookups' = lookups
    BY <1>6 DEF TeachPattern, Stats
  <2> QED  BY <2>1, Zenon DEF Promises, Keyed, Keeps, Promised, Known, NamedIn, DerivedIn
<1>7. CASE \E l \in NewLookups : TeachLookup(p, l)
  <2>1. PICK l \in NewLookups : TeachLookup(p, l)
    BY <1>7
  <2>2. proc' = proc /\ lookups' = WithLookup(l)
    BY <2>1 DEF TeachLookup
  <2>3. Keyed' /\ lookups \subseteq lookups'
    BY <2>2, WithLookupKeeps DEF Promises
  <2>4. IsFiniteSet(lookups')
    BY <2>3 DEF Keyed
  <2>5. \A q \in Procs : proc[q].pc = "insert" => Keeps(lookups', proc[q])
    BY <2>3, <2>4, KeepsAfter DEF Promises
  <2> QED  BY <2>2, <2>3, <2>5, Zenon DEF Promises, Keeps, Promised, Known, NamedIn, DerivedIn
<1>8. CASE \E q \in Questions : RecallQuery(p, q)
  <2>1. PICK q \in Questions : RecallQuery(p, q)
    BY <1>8
  <2> DEFINE n == Understood(q, lookups)
  <2>2. PICK hits : Goto(p, [pc |-> "answered", q |-> q, n |-> n, hits |-> hits]) /\ lookups' = lookups
    BY <2>1, Zenon DEF RecallQuery
  <2> DEFINE c == [pc |-> "answered", q |-> q, n |-> n, hits |-> hits]
  <2> HIDE DEF n
  <2>3. c.pc # "insert"
    OBVIOUS
  <2> HIDE DEF c
  <2> QED  BY <1>1, <2>2, <2>3
<1>9. CASE \E q \in Questions : \E of \in {Taughts} \cup {{r} : r \in Taughts} : ForgetRows(p, q, of)
  <2>1. PICK q \in Questions : Goto(p, [pc |-> "cascade", q |-> q]) /\ lookups' = lookups
    BY <1>9 DEF ForgetRows
  <2> DEFINE c == [pc |-> "cascade", q |-> q]
  <2>2. c.pc # "insert" /\ Goto(p, c)
    BY <2>1
  <2> HIDE DEF c
  <2> QED  BY <1>1, <2>1, <2>2
<1>10. CASE \E i \in DOMAIN Catalog : Sync(p, i)
  <2> DEFINE c == [pc |-> "refresh"]
  <2>1. c.pc # "insert" /\ Goto(p, c) /\ lookups' = lookups
    BY <1>10 DEF Sync
  <2> HIDE DEF c
  <2> QED  BY <1>1, <2>1
<1>11. CASE RefreshCollect(p) \/ RefreshInsert(p)
  BY <1>11, CollectKeeps, InsertKeeps
<1> QED  BY <1>2, <1>3, <1>4, <1>5, <1>6, <1>7, <1>8, <1>9, <1>10, <1>11

LEMMA PromisesStep == Inv /\ Promises /\ [Next]_vars => Promises'
<1> SUFFICES ASSUME Inv, Promises, [Next]_vars  PROVE Promises'
  OBVIOUS
<1>1. CASE Next
  BY <1>1, PromisesNext DEF Inv
<1>2. CASE UNCHANGED vars
  <2>1. proc' = proc /\ lookups' = lookups
    BY <1>2 DEF vars
  <2> QED  BY <2>1, Zenon DEF Promises, Keyed, Keeps, Promised, Known, NamedIn, DerivedIn
<1> QED  BY <1>1, <1>2

\* When a refresh ends, every missed entity it found in the store resolves, unless its
\* kind is full, whatever other commands added meanwhile; and one that a failing insert
\* ended lacks nothing but the lookups it had still to insert (lookups.RefreshFromSynced).
THEOREM RefreshesHeal == Spec => RefreshHeals
<1> DEFINE due(p) == lookups \cup ToSet(proc[p].left)
           Healed(p, x) == Resolve(due(p), x.e) # {} \/ Cardinality(Derived(due(p), x.kind)) >= Cap
           Heals == \A p \in Procs : proc[p].pc = "insert" /\ proc'[p].pc = "idle" =>
                      \A x \in proc[p].saw : Healed(p, x)
<1>1. Promises => \A p \in Procs : proc[p].pc = "insert" => \A x \in proc[p].saw : Healed(p, x)
  <2> SUFFICES ASSUME Promises, NEW p \in Procs, proc[p].pc = "insert", NEW x \in proc[p].saw
               PROVE  Healed(p, x)
    OBVIOUS
  <2> DEFINE ls == due(p)
  <2>1. IsSequence(proc[p].left) /\ Promised(ls, x)
    BY DEF Promises, Keeps
  <2>2. IsFiniteSet(ls)
    BY <2>1, ElementsAreFinite, FS_Union DEF Promises, Keyed
  <2> HIDE DEF ls
  <2>3. CASE Known(ls, x.e)
    <3>1. PICK l \in ls : x.e = l.canonical \/ x.e = l.value
      BY <2>3 DEF Known
    <3>2. l.canonical \in Resolve(ls, x.e)
      BY <3>1 DEF Resolve
    <3> QED  BY <3>2 DEF ls
  <2>4. CASE Cardinality(NamedIn(ls, x.kind)) >= Cap
    <3>1. Derived(ls, x.kind) = DerivedIn(ls, x.kind)
      BY DEF Derived, DerivedIn
    <3>2. /\ IsFiniteSet(DerivedIn(ls, x.kind)) /\ IsFiniteSet(NamedIn(ls, x.kind))
          /\ Cardinality(NamedIn(ls, x.kind)) <= Cardinality(DerivedIn(ls, x.kind))
      BY <2>2, NamesAreFinite
    <3>3. Cardinality(NamedIn(ls, x.kind)) \in Nat /\ Cardinality(DerivedIn(ls, x.kind)) \in Nat /\ Cap \in Nat
      BY <3>2, FS_CardinalityType, RecallAssumption
    <3>4. Cardinality(DerivedIn(ls, x.kind)) >= Cap
      BY <2>4, <3>2, <3>3
    <3> QED  BY <3>1, <3>4 DEF ls
  <2> QED  BY <2>1, <2>3, <2>4 DEF Promised
<1>2. Promises => [Heals]_vars
  BY <1>1
<1>3. Inv /\ Promises /\ [Next]_vars => Inv' /\ Promises'
  BY InvStep, PromisesStep
<1>4. Init => Inv /\ Promises
  BY InvInit, PromisesInit
<1> QED  BY <1>2, <1>3, <1>4, PTL DEF Spec, RefreshHeals

-----------------------------------------------------------------------------
(***************************************************************************)
(* Sequences of words.                                                     *)
(***************************************************************************)
LEMMA NthTakes ==
    ASSUME NEW n \in Nat, NEW at \in SUBSET (1..n), NEW i \in at
    PROVE  \E k \in 1..Cardinality(at) : Nth(at, k) = i
<1> DEFINE k == Rank(at, i)
<1>1. k \in 1..Cardinality(at) /\ \A j \in at : Rank(at, j) = k => j = i
  BY Ranks
<1>2. Nth(at, k) = CHOOSE j \in at : Rank(at, j) = k
  BY Zenon DEF Nth, Rank
<1>3. Nth(at, k) \in at /\ Rank(at, Nth(at, k)) = k
  BY <1>2
<1> HIDE DEF k
<1> QED  BY <1>1, <1>3

LEMMA PickedElements ==
    ASSUME NEW s, IsSequence(s), NEW at \in SUBSET (DOMAIN s)
    PROVE  IsSequence(Picked(s, at)) /\ ToSet(Picked(s, at)) = {s[i] : i \in at}
<1>1. Len(s) \in Nat /\ DOMAIN s = 1..Len(s)
  BY LenProperties DEF IsSequence
<1>2. IsSequence(Picked(s, at))
  BY SequencePicked
<1>3. DOMAIN Picked(s, at) = 1..Cardinality(at) /\ \A k \in 1..Cardinality(at) : Picked(s, at)[k] = s[Nth(at, k)]
  BY DEF Picked
<1>4. \A k \in 1..Cardinality(at) : Nth(at, k) \in at
  BY <1>1, NthExists
<1>5. \A i \in at : \E k \in 1..Cardinality(at) : Nth(at, k) = i
  BY <1>1, NthTakes
<1>6. ToSet(Picked(s, at)) = {Picked(s, at)[k] : k \in 1..Cardinality(at)}
  BY <1>3 DEF ToSet
<1>7. ASSUME NEW i \in at  PROVE s[i] \in ToSet(Picked(s, at))
  <2>1. PICK k \in 1..Cardinality(at) : Nth(at, k) = i
    BY <1>5
  <2> QED  BY <1>3, <1>6, <2>1
<1>8. ASSUME NEW x \in ToSet(Picked(s, at))  PROVE x \in {s[i] : i \in at}
  BY <1>3, <1>4, <1>6
<1> QED  BY <1>2, <1>7, <1>8

LEMMA DroppedElements ==
    ASSUME NEW s, IsSequence(s), NEW S
    PROVE  /\ IsSequence(Dropping(s, S)) /\ ToSet(Dropping(s, S)) = ToSet(s) \ S
           /\ IsSequence(Keeping(s, S)) /\ ToSet(Keeping(s, S)) = ToSet(s) \cap S
<1>1. ToSet(s) = {s[i] : i \in DOMAIN s}
  BY DEF ToSet
<1> DEFINE out == {i \in DOMAIN s : s[i] \notin S}
           in  == {i \in DOMAIN s : s[i] \in S}
<1>2. {s[i] : i \in out} = ToSet(s) \ S /\ {s[i] : i \in in} = ToSet(s) \cap S
  BY <1>1
<1>3. out \in SUBSET DOMAIN s /\ in \in SUBSET DOMAIN s
  OBVIOUS
<1>4. Dropping(s, S) = Picked(s, out) /\ Keeping(s, S) = Picked(s, in)
  BY Zenon DEF Dropping, Keeping
<1> HIDE DEF out, in
<1> QED  BY <1>2, <1>3, <1>4, PickedElements

LEMMA UnrepeatedElements ==
    ASSUME NEW s, IsSequence(s)
    PROVE  IsSequence(Unrepeated(s)) /\ ToSet(Unrepeated(s)) = ToSet(s)
<1> DEFINE at == {i \in DOMAIN s : \A j \in 1..i - 1 : s[j] # s[i]}
<1>1. Len(s) \in Nat /\ DOMAIN s = 1..Len(s) /\ ToSet(s) = {s[i] : i \in DOMAIN s}
  BY LenProperties DEF IsSequence, ToSet
<1>2. \A i \in DOMAIN s : \E k \in at : s[k] = s[i]
  <2> SUFFICES ASSUME NEW i \in DOMAIN s  PROVE \E k \in at : s[k] = s[i]
    OBVIOUS
  <2> DEFINE M == {k \in DOMAIN s : s[k] = s[i]}
  <2>1. M \subseteq Nat /\ M # {}
    BY <1>1
  <2>2. PICK k \in M : \A y \in M : ~(<<y, k>> \in OpToRel(<, Nat))
    BY <2>1, NatLessThanWellFounded, WFMin
  <2>3. \A j \in 1..k - 1 : s[j] # s[k]
    <3> SUFFICES ASSUME NEW j \in 1..k - 1, s[j] = s[k]  PROVE FALSE
      OBVIOUS
    <3>1. k \in 1..Len(s) /\ s[k] = s[i]
      BY <1>1, <2>2
    <3>2. j \in DOMAIN s /\ j < k /\ j \in Nat /\ k \in Nat
      BY <1>1, <3>1
    <3>3. j \in M
      BY <3>1, <3>2
    <3>4. <<j, k>> \in OpToRel(<, Nat)
      BY <3>2 DEF OpToRel
    <3> QED  BY <2>2, <3>3, <3>4
  <2> QED  BY <2>2, <2>3
<1>3. at \in SUBSET DOMAIN s
  OBVIOUS
<1>4. {s[i] : i \in at} = ToSet(s)
  BY <1>1, <1>2, <1>3
<1>5. Unrepeated(s) = Picked(s, at)
  BY Zenon DEF Unrepeated
<1> HIDE DEF at
<1> QED  BY <1>3, <1>4, <1>5, PickedElements

-----------------------------------------------------------------------------
(***************************************************************************)
(* The folds of a question, by both normalisers.                           *)
(***************************************************************************)
Proper(rules) == \A r \in rules : Len(r.from) \in Nat \ {0}

LEMMA LongestIsOne ==
    ASSUME NEW rules, Proper(rules), NEW words, Len(words) \in Nat, NEW i \in 1..Len(words),
           RulesAt(rules, words, i) # {}
    PROVE  /\ Longest(RulesAt(rules, words, i)) \in RulesAt(rules, words, i)
           /\ \A o \in RulesAt(rules, words, i) : Len(o.from) <= Len(Longest(RulesAt(rules, words, i)).from)
           /\ i + Len(Longest(RulesAt(rules, words, i)).from) \in i + 1..Len(words) + 1
<1> DEFINE R == RulesAt(rules, words, i)
           n == Len(words)
           M == {n - Len(r.from) : r \in R}
<1>1. \A r \in R : Len(r.from) \in Nat \ {0} /\ i + Len(r.from) - 1 <= n
  BY DEF Proper, RulesAt, StartsAt
<1>2. M \subseteq Nat /\ M # {}
  BY <1>1
<1>3. PICK x \in M : \A y \in M : ~(<<y, x>> \in OpToRel(<, Nat))
  BY <1>2, NatLessThanWellFounded, WFMin
<1>4. PICK r \in R : x = n - Len(r.from)
  BY <1>3
<1>5. \A o \in R : Len(o.from) <= Len(r.from)
  <2>s. SUFFICES ASSUME NEW o \in R, Len(o.from) > Len(r.from)  PROVE FALSE
    BY <1>1
  <2>0. n - Len(o.from) \in M
    OBVIOUS
  <2>1. n - Len(o.from) \in M /\ n - Len(o.from) < x /\ n - Len(o.from) \in Nat /\ x \in Nat
    <3>1. Len(o.from) \in Nat /\ Len(r.from) \in Nat
      BY <1>1
    <3>2. n - Len(o.from) < n - Len(r.from) /\ n - Len(r.from) \in Nat /\ n - Len(o.from) \in Nat
      <4>1. n \in Nat /\ i \in 1..n /\ i + Len(o.from) - 1 <= n /\ i + Len(r.from) - 1 <= n
        BY <1>1
      <4> HIDE DEF n
      <4> QED  BY <2>s, <3>1, <4>1
    <3> HIDE DEF M, R, n
    <3> QED  BY <1>4, <2>0, <3>2, Zenon
  <2> QED  BY <1>3, <2>1 DEF OpToRel
<1> HIDE DEF R, M
<1>6. Longest(R) \in R /\ \A o \in R : Len(o.from) <= Len(Longest(R).from)
  BY <1>5 DEF Longest
<1>7. i + Len(Longest(R).from) \in i + 1..n + 1
  BY <1>1, <1>6
<1> QED  BY <1>6, <1>7 DEF R

\* What is folded from position i on, after the positions behind it.
FoldStep(rules, words, q, f, i) ==
    IF i > Len(words) THEN <<>>
    ELSE IF RulesAt(rules, words, i) = {} THEN <<q[i]>> \o f[i + 1]
    ELSE Longest(RulesAt(rules, words, i)).to \o f[i + Len(Longest(RulesAt(rules, words, i)).from)]
Folds(rules, words, q, m, f) == f = [i \in m..Len(words) + 1 |-> FoldStep(rules, words, q, f, i)]

LEMMA FoldsExist ==
    ASSUME NEW rules, Proper(rules), NEW words, Len(words) \in Nat, NEW q
    PROVE  \E f : Folds(rules, words, q, 1, f)
<1> DEFINE n == Len(words)
           G == {k \in 0..n : \E f : Folds(rules, words, q, n + 1 - k, f)}
<1>1. 0 \in G
  <2> DEFINE f == [i \in n + 1..n + 1 |-> <<>>]
  <2>1. \A i \in n + 1..n + 1 : FoldStep(rules, words, q, f, i) = <<>>
    BY DEF FoldStep
  <2>2. f = [i \in n + 1..n + 1 |-> FoldStep(rules, words, q, f, i)]
    <3> DEFINE g == [i \in n + 1..n + 1 |-> FoldStep(rules, words, q, f, i)]
    <3>1. \A i \in n + 1..n + 1 : f[i] = g[i]
      BY <2>1
    <3> QED  BY <3>1
  <2>3. n + 1 - 0 = n + 1 /\ 0 \in 0..n
    OBVIOUS
  <2> HIDE DEF f, n
  <2>4. Folds(rules, words, q, n + 1, f)
    BY <2>2 DEF Folds, n
  <2> QED  BY <2>3, <2>4
<1>2. ASSUME NEW k \in 0..n, k \in G, k < n  PROVE k + 1 \in G
  <2> DEFINE m == n - k
  <2>1. n \in Nat /\ k + 1 \in 0..n /\ m \in 1..n /\ n + 1 - k = m + 1 /\ n + 1 - (k + 1) = m
    BY <1>2
  <2>2. PICK f : Folds(rules, words, q, m + 1, f)
    BY <1>2, <2>1
  <2> HIDE DEF m, n, G
  <2> DEFINE last == FoldStep(rules, words, q, f, m)
             g == [i \in m..n + 1 |-> IF i = m THEN last ELSE f[i]]
  <2>3. \A i \in m + 1..n + 1 : g[i] = f[i] /\ i # m /\ i \in m..n + 1
    BY <2>1
  <2>4. g[m] = last /\ g = [i \in m..n + 1 |-> g[i]]
    BY <2>1
  <2>5. \A i \in m + 1..n + 1 : f[i] = FoldStep(rules, words, q, f, i)
    BY <2>2 DEF Folds, n
  <2> HIDE DEF g
  <2>6. ASSUME NEW i \in m..n + 1  PROVE FoldStep(rules, words, q, g, i) = FoldStep(rules, words, q, f, i)
    <3>1. CASE i > n
      BY <3>1 DEF FoldStep, n
    <3>2. CASE i <= n /\ RulesAt(rules, words, i) = {}
      <4>1. i + 1 \in m + 1..n + 1 /\ ~(i > n)
        BY <2>1, <3>2
      <4>2. g[i + 1] = f[i + 1]
        BY <2>3, <4>1
      <4> QED  BY <3>2, <4>1, <4>2 DEF FoldStep, n
    <3>3. CASE i <= n /\ RulesAt(rules, words, i) # {}
      <4> DEFINE l == Longest(RulesAt(rules, words, i))
                 to == i + Len(l.from)
      <4>1. i \in 1..n /\ ~(i > n)
        BY <2>1, <3>3
      <4>2. to \in i + 1..n + 1
        BY <3>3, <4>1, LongestIsOne DEF n
      <4>3. to \in m + 1..n + 1
        <5> HIDE DEF to
        <5> QED  BY <2>1, <4>1, <4>2
      <4>4. g[to] = f[to]
        <5> HIDE DEF to
        <5> QED  BY <2>3, <4>3
      <4> QED  BY <3>3, <4>1, <4>4 DEF FoldStep, n
    <3> QED  BY <2>1, <3>1, <3>2, <3>3
  <2>7. ASSUME NEW i \in m..n + 1  PROVE g[i] = FoldStep(rules, words, q, g, i)
    <3>1. CASE i = m
      BY <2>4, <2>6, <3>1
    <3>2. CASE i # m
      <4>1. i \in m + 1..n + 1
        BY <2>1, <3>2
      <4> QED  BY <2>3, <2>5, <2>6, <4>1
    <3> QED  BY <3>1, <3>2
  <2>8. g = [i \in m..n + 1 |-> FoldStep(rules, words, q, g, i)]
    BY <2>4, <2>7
  <2>9. Folds(rules, words, q, m, g)
    BY <2>8 DEF Folds, n
  <2> QED  BY <2>1, <2>9 DEF G
<1>3. n \in Nat /\ G \in SUBSET (0..n)
  OBVIOUS
<1> HIDE DEF G, n
<1>4. G = 0..n
  BY <1>1, <1>2, <1>3, EveryStep
<1>5. n \in G /\ n + 1 - n = 1
  BY <1>3, <1>4
<1> QED  BY <1>5 DEF G

LEMMA FoldWithIs ==
    ASSUME NEW rules, Proper(rules), NEW words, Len(words) \in Nat, NEW q
    PROVE  \E f : Folds(rules, words, q, 1, f) /\ FoldWith(rules, words, q) = f[1]
<1> DEFINE folded[i \in 1..Len(words) + 1] ==
              IF i > Len(words) THEN <<>>
              ELSE IF RulesAt(rules, words, i) = {} THEN <<q[i]>> \o folded[i + 1]
              ELSE Longest(RulesAt(rules, words, i)).to \o folded[i + Len(Longest(RulesAt(rules, words, i)).from)]
<1>1. folded = CHOOSE f : Folds(rules, words, q, 1, f)
  BY Zenon DEF Folds, FoldStep
<1>2. FoldWith(rules, words, q) = folded[1]
  BY Zenon DEF FoldWith
<1>3. Folds(rules, words, q, 1, folded)
  BY <1>1, FoldsExist, Zenon
<1> QED  BY <1>2, <1>3, Zenon

LEMMA SequenceConcat ==
    ASSUME NEW s, IsSequence(s), NEW t, IsSequence(t)
    PROVE  IsSequence(s \o t) /\ ToSet(s \o t) = ToSet(s) \cup ToSet(t)
<1> DEFINE S == ToSet(s) \cup ToSet(t)
<1>1. s \in Seq(S) /\ t \in Seq(S)
  BY SeqMonotonic DEF IsSequence
<1> HIDE DEF S
<1>2. /\ s \o t \in Seq(S) /\ Len(s) \in Nat /\ Len(t) \in Nat /\ Len(s \o t) = Len(s) + Len(t)
      /\ \A i \in 1..Len(s) + Len(t) : (s \o t)[i] = IF i <= Len(s) THEN s[i] ELSE t[i - Len(s)]
  BY <1>1, ConcatProperties, LenProperties
<1> DEFINE j == s \o t
           m == Len(s)
           n == Len(t)
<1>3. ToSet(s) = {s[i] : i \in 1..m} /\ ToSet(t) = {t[i] : i \in 1..n} /\ ToSet(j) = {j[i] : i \in 1..m + n}
  BY <1>1, <1>2, SequenceOfAny
<1>4. m \in Nat /\ n \in Nat /\ \A i \in 1..m + n : j[i] = IF i <= m THEN s[i] ELSE t[i - m]
  BY <1>2
<1> HIDE DEF j, m, n
<1>5. \A i \in 1..m : i \in 1..m + n /\ j[i] = s[i]
  BY <1>4
<1>6. ASSUME NEW i \in 1..n  PROVE \E k \in 1..m + n : j[k] = t[i]
  <2> DEFINE k == i + m
  <2>1. k \in 1..m + n /\ ~(k <= m) /\ k - m = i
    BY <1>4
  <2> HIDE DEF k
  <2> QED  BY <1>4, <2>1
<1>7. \A i \in 1..m + n : j[i] \in ToSet(s) \cup ToSet(t)
  BY <1>3, <1>4
<1>8. ToSet(j) = ToSet(s) \cup ToSet(t)
  BY <1>3, <1>5, <1>6, <1>7
<1> QED  BY <1>2, <1>8, SequenceOfAny DEF j

LEMMA SplitIsSequence ==
    ASSUME NEW s, IsSequence(s), \A i \in DOMAIN s : IsSequence(Pieces(s[i]))
    PROVE  IsSequence(Split(s))
<1> DEFINE ss == [i \in DOMAIN s |-> Pieces(s[i])]
           S == UNION {ToSet(Pieces(s[i])) : i \in DOMAIN s}
<1>1. Len(s) \in Nat /\ DOMAIN s = 1..Len(s)
  BY LenProperties DEF IsSequence
<1>2. ASSUME NEW i \in 1..Len(s)  PROVE ss[i] \in Seq(S)
  <2>1. ToSet(Pieces(s[i])) \subseteq S /\ IsSequence(Pieces(s[i])) /\ ss[i] = Pieces(s[i])
    BY <1>1
  <2> HIDE DEF S
  <2> QED  BY <2>1, SeqMonotonic DEF IsSequence
<1>3. ss = [i \in 1..Len(s) |-> ss[i]]
  BY <1>1
<1>4. Split(s) = FlattenSeq(ss)
  BY DEF Split
<1> HIDE DEF ss, S
<1>5. [i \in 1..Len(s) |-> ss[i]] \in Seq(Seq(S))
  BY <1>1, <1>2, IsASeq
<1>6. ss \in Seq(Seq(S))
  BY <1>3, <1>5
<1>7. FlattenSeq(ss) \in Seq(S)
  BY <1>6, FlattenIsSequence
<1> QED  BY <1>4, <1>7, SequenceOfAny

\* Words without punctuation are their own pieces.
LEMMA SplitWhole ==
    ASSUME NEW s, IsSequence(s), \A i \in DOMAIN s : Pieces(s[i]) = <<s[i]>>
    PROVE  Split(s) = s
<1> DEFINE n == Len(s)
           ss == [i \in DOMAIN s |-> Pieces(s[i])]
<1>1. n \in Nat /\ DOMAIN s = 1..n /\ s \in Seq(ToSet(s))
  BY LenProperties DEF IsSequence
<1>2. ss = [i \in 1..n |-> <<s[i]>>]
  BY <1>1
<1>3. Split(s) = FlattenSeq(ss)
  BY DEF Split
<1>4. Len(ss) = n /\ \A i \in 1..n : ss[i] = <<s[i]>>
  BY <1>1, <1>2
<1> HIDE DEF ss
<1>5. CASE n = 0
  <2>1. s = <<>> /\ ss = <<>>
    BY <1>1, <1>2, <1>5, EmptySeq
  <2>2. FlattenSeq(ss) = ss
    BY <1>4, <1>5 DEF FlattenSeq
  <2> QED  BY <1>3, <2>1, <2>2
<1>6. CASE n # 0
  <2> DEFINE flatten[i \in 1..Len(ss)] == IF i = 1 THEN ss[i] ELSE flatten[i - 1] \o ss[i]
  <2>1. FlattenSeq(ss) = flatten[n]
    BY <1>4, <1>6, Zenon DEF FlattenSeq
  <2>2. flatten = CHOOSE f : Joins(ss, n, f)
    BY <1>4, Zenon DEF Joins
  <2> HIDE DEF flatten
  <2>3. Joins(ss, n, flatten)
    BY <1>1, <2>2, JoinsExist, Zenon
  <2> HIDE DEF n
  <2>4. \A i \in 1..n : flatten[i] = IF i = 1 THEN ss[i] ELSE flatten[i - 1] \o ss[i]
    BY <2>3 DEF Joins
  <2> DEFINE Whole(k) == /\ flatten[k] \in Seq(ToSet(s)) /\ Len(flatten[k]) = k
                         /\ \A i \in 1..k : flatten[k][i] = s[i]
             G == {k \in 0..n : k = 0 \/ Whole(k)}
  <2>5. ASSUME NEW k \in 0..n, k \in G, k < n  PROVE k + 1 \in G
    <3> DEFINE m == k + 1
    <3>1. k \in Nat /\ m \in 0..n /\ m \in 1..n /\ m - 1 = k /\ s[m] \in ToSet(s)
      <4>1. k \in Nat /\ m \in 0..n /\ m \in 1..n /\ m - 1 = k
        BY <1>1, <2>5
      <4> HIDE DEF m
      <4> QED  BY <1>1, <4>1, ElementOfSeq DEF n
    <3>2. ss[m] = <<s[m]>> /\ <<s[m]>> \in Seq(ToSet(s))
      BY <1>4, <3>1
    <3>3. CASE k = 0
      <4>1. flatten[m] = <<s[m]>> /\ m = 1
        BY <2>4, <3>1, <3>2, <3>3
      <4>2. Whole(m)
        BY <3>2, <4>1
      <4> QED  BY <3>1, <4>2
    <3>4. CASE k # 0
      <4>1. flatten[m] = flatten[k] \o <<s[m]>>
        <5>1. m # 1
          BY <3>1, <3>4
        <5> HIDE DEF m
        <5> QED  BY <2>4, <3>1, <3>2, <5>1
      <4>2. Whole(k)
        BY <2>5, <3>4
      <4> DEFINE a == flatten[k]
                 b == <<s[m]>>
      <4>3. a \in Seq(ToSet(s)) /\ b \in Seq(ToSet(s)) /\ Len(a) = k /\ Len(b) = 1 /\ b[1] = s[m]
        BY <3>2, <4>2
      <4>4. \A i \in 1..k : a[i] = s[i]
        BY <4>2
      <4>5. flatten[m] = a \o b
        BY <4>1
      <4> HIDE DEF a, b, m
      <4>6. /\ a \o b \in Seq(ToSet(s)) /\ Len(a \o b) = k + 1
            /\ \A i \in 1..k + 1 : (a \o b)[i] = IF i <= k THEN a[i] ELSE b[i - k]
        <5>1. /\ a \o b \in Seq(ToSet(s)) /\ Len(a \o b) = Len(a) + Len(b)
              /\ \A i \in 1..Len(a) + Len(b) : (a \o b)[i] = IF i <= Len(a) THEN a[i] ELSE b[i - Len(a)]
          BY <4>3, ConcatProperties
        <5> QED  BY <4>3, <5>1
      <4>7. ASSUME NEW i \in 1..m  PROVE (a \o b)[i] = s[i]
        <5>1. m = k + 1 /\ k \in Nat
          BY <3>1 DEF m
        <5>2. CASE i <= k
          <6>1. i \in 1..k + 1 /\ i \in 1..k
            BY <5>1, <5>2
          <6> QED  BY <4>4, <4>6, <6>1, <5>2
        <5>3. CASE ~(i <= k)
          <6>1. i \in 1..k + 1 /\ i - k = 1 /\ i = m
            BY <5>1, <5>3
          <6> QED  BY <4>3, <4>6, <6>1, <5>3
        <5> QED  BY <5>2, <5>3
      <4>8. Whole(m)
        BY <4>5, <4>6, <4>7 DEF m
      <4> QED  BY <3>1, <4>8 DEF m
    <3> QED  BY <3>3, <3>4
  <2>6. 0 \in G /\ G \in SUBSET (0..n)
    BY <1>1 DEF n
  <2>7. n \in Nat
    BY <1>1 DEF n
  <2> HIDE DEF G
  <2>8. G = 0..n
    BY <2>5, <2>6, <2>7, EveryStep
  <2>9. Whole(n)
    BY <1>6, <2>7, <2>8 DEF G
  <2> DEFINE w == flatten[n]
  <2>10. w \in Seq(ToSet(s)) /\ Len(w) = Len(s) /\ \A i \in 1..Len(s) : w[i] = s[i]
    BY <2>9 DEF n
  <2> HIDE DEF w
  <2>11. w = s
    BY <1>1, <2>10, SeqEqual
  <2> QED  BY <1>3, <2>1, <2>11 DEF w
<1> QED  BY <1>5, <1>6

ReadForm(r)    == [from |-> r.from, to |-> Uncapital(r.to)]
WriteForm(r)   == [from |-> Split(r.from), to |-> Split(r.to)]
VariantsAt(q, i) == {r \in Synonyms : StartsAt(r.from, Spelled(q), i)}

LEMMA SpelledIsSequence ==
    ASSUME NEW q, IsSequence(q)
    PROVE  /\ IsSequence(Spelled(q)) /\ Len(Spelled(q)) = Len(q) /\ Len(q) \in Nat
           /\ DOMAIN q = 1..Len(q) /\ DOMAIN Spelled(q) = 1..Len(q)
           /\ \A i \in 1..Len(q) : Spelled(q)[i] = q[i].w
<1>1. Len(q) \in Nat /\ DOMAIN q = 1..Len(q)
  BY LenProperties DEF IsSequence
<1>2. Spelled(q) = [i \in 1..Len(q) |-> q[i].w]
  BY <1>1 DEF Spelled
<1> DEFINE S == {q[i].w : i \in 1..Len(q)}
<1>3. \A i \in 1..Len(q) : q[i].w \in S
  OBVIOUS
<1> HIDE DEF S
<1>4. [i \in 1..Len(q) |-> q[i].w] \in Seq(S)
  BY <1>1, <1>3, IsASeq
<1>5. Len([i \in 1..Len(q) |-> q[i].w]) = Len(q)
  BY <1>1
<1> QED  BY <1>1, <1>2, <1>4, <1>5, SequenceOfAny

LEMMA SynonymIs ==
    ASSUME NEW r \in Synonyms
    PROVE  /\ IsSequence(r.from) /\ IsSequence(r.to) /\ r.from # <<>> /\ r.to # <<>>
           /\ Len(r.from) \in Nat \ {0} /\ r = [from |-> r.from, to |-> r.to]
           /\ IsSequence(Split(r.from)) /\ IsSequence(Split(r.to))
<1>1. /\ IsSequence(r.from) /\ IsSequence(r.to) /\ r.from # <<>> /\ r.to # <<>> /\ r = [from |-> r.from, to |-> r.to]
      /\ \A w \in ToSet(r.from) \cup ToSet(r.to) : IsSequence(Pieces(w))
  BY SynonymsAssumption, Zenon DEF IsSequence
<1>2. Len(r.from) \in Nat \ {0}
  BY <1>1, EmptySeq, LenProperties DEF IsSequence
<1>3. \A i \in DOMAIN r.from : IsSequence(Pieces(r.from[i]))
  BY <1>1, Zenon DEF ToSet
<1>4. \A i \in DOMAIN r.to : IsSequence(Pieces(r.to[i]))
  BY <1>1, Zenon DEF ToSet
<1>5. IsSequence(Split(r.from)) /\ IsSequence(Split(r.to))
  BY <1>1, <1>3, <1>4, SplitIsSequence
<1> QED  BY <1>1, <1>2, <1>5

LEMMA RulesAreProper == Proper(ReadSynonyms) /\ Proper(WriteSynonyms)
<1>1. ASSUME NEW o \in ReadSynonyms  PROVE Len(o.from) \in Nat \ {0}
  <2>1. PICK r \in Synonyms : o = [from |-> r.from, to |-> Uncapital(r.to)]
    BY DEF ReadSynonyms
  <2> QED  BY <2>1, SynonymIs
<1>2. ASSUME NEW o \in WriteSynonyms  PROVE Len(o.from) \in Nat \ {0}
  <2>1. PICK r \in Synonyms : o = [from |-> Split(r.from), to |-> Split(r.to)] /\ o.from # <<>>
    BY DEF WriteSynonyms
  <2>2. IsSequence(o.from)
    BY <2>1, SynonymIs
  <2> QED  BY <2>1, <2>2, EmptySeq, LenProperties DEF IsSequence
<1> QED  BY <1>1, <1>2 DEF Proper

\* Where words are whole, a variant begins on one side exactly if it does on the other.
LEMMA RulesAlike ==
    ASSUME NEW q, IsSequence(q), Unbroken(q), WholeVariants(q), NEW i \in 1..Len(q)
    PROVE  /\ RulesAt(WriteSynonyms, Spelled(q), i) = VariantsAt(q, i)
           /\ RulesAt(ReadSynonyms, Spelled(q), i) = {ReadForm(r) : r \in VariantsAt(q, i)}
<1> DEFINE W == Spelled(q)
<1>1. Len(W) = Len(q) /\ Len(q) \in Nat /\ DOMAIN q = 1..Len(q) /\ \A j \in 1..Len(q) : W[j] = q[j].w /\ Pieces(W[j]) = <<W[j]>>
  BY SpelledIsSequence DEF Unbroken
<1>2. ASSUME NEW r \in VariantsAt(q, i)  PROVE Split(r.from) = r.from /\ Split(r.to) = r.to
  <2>1. r \in Synonyms /\ StartsAt(r.from, W, i)
    BY DEF VariantsAt
  <2>2. IsSequence(r.from) /\ r.from # <<>> /\ DOMAIN r.from = 1..Len(r.from) /\ Len(r.from) \in Nat
    BY <2>1, SynonymIs, LenProperties DEF IsSequence
  <2>3. ASSUME NEW k \in DOMAIN r.from  PROVE Pieces(r.from[k]) = <<r.from[k]>>
    <3> DEFINE j == i + k - 1
    <3>1. j \in 1..Len(q)
      BY <1>1, <2>1, <2>2 DEF StartsAt
    <3>2. r.from[k] = W[j]
      BY <2>1, <2>2 DEF StartsAt
    <3> HIDE DEF j, W
    <3> QED  BY <1>1, <3>1, <3>2
  <2>4. Split(r.from) = r.from
    BY <2>2, <2>3, SplitWhole
  <2> QED  BY <1>1, <2>1, <2>2, <2>4 DEF WholeVariants
<1>3. ASSUME NEW o \in RulesAt(WriteSynonyms, W, i)  PROVE o \in VariantsAt(q, i)
  <2>1. o \in WriteSynonyms /\ StartsAt(o.from, W, i)
    BY DEF RulesAt
  <2>2. PICK r \in Synonyms : o = [from |-> Split(r.from), to |-> Split(r.to)]
    BY <2>1 DEF WriteSynonyms
  <2>3. Split(r.from) # <<>> /\ StartsAt(Split(r.from), W, i)
    BY <2>1, <2>2 DEF WriteSynonyms
  <2>4. Split(r.from) = r.from /\ Split(r.to) = r.to
    BY <1>1, <2>3 DEF WholeVariants
  <2>5. o = r
    BY <2>2, <2>4, SynonymIs
  <2> QED  BY <2>1, <2>5 DEF VariantsAt
<1>4. ASSUME NEW r \in VariantsAt(q, i)  PROVE r \in RulesAt(WriteSynonyms, W, i)
  <2>1. r \in Synonyms /\ StartsAt(r.from, W, i)
    BY DEF VariantsAt
  <2>2. r = [from |-> Split(r.from), to |-> Split(r.to)] /\ r.from # <<>> /\ r.to # <<>>
    BY <1>2, <2>1, SynonymIs
  <2> QED  BY <2>1, <2>2 DEF RulesAt, WriteSynonyms
<1>5. RulesAt(ReadSynonyms, W, i) = {ReadForm(r) : r \in VariantsAt(q, i)}
  <2>1. ASSUME NEW o \in RulesAt(ReadSynonyms, W, i)  PROVE \E r \in VariantsAt(q, i) : o = ReadForm(r)
    <3>1. o \in ReadSynonyms /\ StartsAt(o.from, W, i)
      BY DEF RulesAt
    <3>2. PICK r \in Synonyms : o = [from |-> r.from, to |-> Uncapital(r.to)]
      BY <3>1 DEF ReadSynonyms
    <3> QED  BY <3>1, <3>2 DEF VariantsAt, ReadForm
  <2>2. ASSUME NEW r \in VariantsAt(q, i)  PROVE ReadForm(r) \in RulesAt(ReadSynonyms, W, i)
    <3>1. r \in Synonyms /\ StartsAt(r.from, W, i)
      BY DEF VariantsAt
    <3>2. ReadForm(r).from = r.from /\ ReadForm(r) \in ReadSynonyms
      BY <3>1 DEF ReadForm, ReadSynonyms
    <3> QED  BY <3>1, <3>2 DEF RulesAt
  <2> QED  BY <2>1, <2>2
<1> QED  BY <1>3, <1>4, <1>5

\* And the longest of those is the same variant on both.
LEMMA LongestAlike ==
    ASSUME NEW q, IsSequence(q), Unbroken(q), WholeVariants(q), NEW i \in 1..Len(q), VariantsAt(q, i) # {}
    PROVE  \E r \in Synonyms : /\ Longest(RulesAt(WriteSynonyms, Spelled(q), i)) = r
                               /\ Longest(RulesAt(ReadSynonyms, Spelled(q), i)) = ReadForm(r)
                               /\ i + Len(r.from) \in i + 1..Len(q) + 1
<1> DEFINE W == Spelled(q)
           R == RulesAt(ReadSynonyms, W, i)
           V == VariantsAt(q, i)
           a == Longest(V)
           b == Longest(R)
<1>1. Len(W) = Len(q) /\ Len(W) \in Nat /\ i \in 1..Len(W)
  BY SpelledIsSequence
<1>2. RulesAt(WriteSynonyms, W, i) = V /\ R = {ReadForm(r) : r \in V} /\ V # {} /\ R # {}
  BY RulesAlike
<1>3. /\ a \in V /\ \A o \in V : Len(o.from) <= Len(a.from)
      /\ i + Len(a.from) \in i + 1..Len(q) + 1
  BY <1>1, <1>2, LongestIsOne, RulesAreProper
<1>4. b \in R /\ \A o \in R : Len(o.from) <= Len(b.from)
  BY <1>1, <1>2, LongestIsOne, RulesAreProper
<1> HIDE DEF a, b, R, V
<1>5. PICK c \in V : b = ReadForm(c)
  BY <1>2, <1>4
<1>6. b.from = c.from /\ ReadForm(a).from = a.from /\ ReadForm(a) \in R
  BY <1>2, <1>3, <1>5 DEF ReadForm
<1>7. a \in Synonyms /\ c \in Synonyms /\ StartsAt(a.from, W, i) /\ StartsAt(c.from, W, i)
  BY <1>3, <1>5 DEF V, VariantsAt
<1>8. IsSequence(a.from) /\ IsSequence(c.from) /\ Len(a.from) \in Nat /\ Len(c.from) \in Nat
  BY <1>7, SynonymIs
<1>9. Len(a.from) = Len(c.from)
  BY <1>3, <1>4, <1>5, <1>6, <1>8
<1>10. \A k \in 1..Len(a.from) : a.from[k] = c.from[k]
  BY <1>7, <1>9 DEF StartsAt
<1>11. a.from = c.from
  <2> DEFINE S == ToSet(a.from) \cup ToSet(c.from)
  <2>1. a.from \in Seq(S) /\ c.from \in Seq(S)
    BY <1>8, SeqMonotonic DEF IsSequence
  <2> HIDE DEF S
  <2> QED  BY <1>9, <1>10, <2>1, SeqEqual
<1>12. a = c
  BY <1>7, <1>11, SynonymsAssumption, Zenon
<1> QED  BY <1>2, <1>3, <1>5, <1>7, <1>12 DEF a, b, R

WordsOf(s)  == {x.w : x \in ToSet(s)}
Alike(a, b) == IsSequence(a) /\ IsSequence(b) /\ WordsOf(a) = ToSet(b)

LEMMA AlikeOne == ASSUME NEW x PROVE Alike(<<x>>, <<x.w>>)
<1>1. <<x>> \in Seq({x}) /\ <<x.w>> \in Seq({x.w}) /\ Len(<<x>>) = 1 /\ Len(<<x.w>>) = 1
  OBVIOUS
<1>2. ToSet(<<x>>) = {x} /\ ToSet(<<x.w>>) = {x.w}
  BY DEF ToSet
<1> QED  BY <1>1, <1>2 DEF Alike, WordsOf, IsSequence

LEMMA AlikeNone == Alike(<<>>, <<>>)
<1>1. ToSet(<<>>) = {}
  BY DEF ToSet
<1> QED  BY <1>1 DEF Alike, WordsOf, IsSequence

LEMMA AlikeUncapital ==
    ASSUME NEW s, IsSequence(s)
    PROVE  Alike(Uncapital(s), s)
<1>1. Len(s) \in Nat /\ DOMAIN s = 1..Len(s) /\ ToSet(s) = {s[i] : i \in 1..Len(s)}
  BY LenProperties, SequenceOfAny DEF IsSequence
<1> DEFINE u(i) == [w |-> s[i], cap |-> FALSE]
           S == {u(i) : i \in 1..Len(s)}
<1>2. Uncapital(s) = [i \in 1..Len(s) |-> u(i)]
  BY <1>1 DEF Uncapital
<1>3. ToSet(Uncapital(s)) = S
  BY <1>2 DEF ToSet
<1>4. \A i \in 1..Len(s) : u(i).w = s[i]
  OBVIOUS
<1>5. \A i \in 1..Len(s) : u(i) \in S
  OBVIOUS
<1> HIDE DEF u
<1>6. {x.w : x \in S} = ToSet(s)
  BY <1>1, <1>4
<1> HIDE DEF S
<1>7. Uncapital(s) \in Seq(S)
  BY <1>1, <1>2, <1>5, IsASeq
<1> QED  BY <1>3, <1>6, <1>7, SequenceOfAny DEF Alike, WordsOf

LEMMA AlikeConcat ==
    ASSUME NEW a, NEW b, Alike(a, b), NEW c, NEW d, Alike(c, d)
    PROVE  Alike(a \o c, b \o d)
<1>1. /\ IsSequence(a \o c) /\ ToSet(a \o c) = ToSet(a) \cup ToSet(c)
      /\ IsSequence(b \o d) /\ ToSet(b \o d) = ToSet(b) \cup ToSet(d)
  BY SequenceConcat DEF Alike
<1> QED  BY <1>1 DEF Alike, WordsOf

\* The same words come out of both folds.
LEMMA FoldsAlike ==
    ASSUME NEW q, IsSequence(q), Unbroken(q), WholeVariants(q)
    PROVE  Alike(FoldSynonyms(q), FoldTokens(Split(Spelled(q))))
<1> DEFINE W == Spelled(q)
           n == Len(q)
<1>1. Len(W) = n /\ n \in Nat /\ IsSequence(W) /\ DOMAIN W = 1..n /\ DOMAIN q = 1..n /\ \A i \in 1..n : W[i] = q[i].w
  BY SpelledIsSequence
<1>2. Split(W) = W
  BY <1>1, SplitWhole DEF Unbroken
<1>3. PICK f : Folds(ReadSynonyms, W, q, 1, f) /\ FoldSynonyms(q) = f[1]
  BY <1>1, RulesAreProper, FoldWithIs DEF FoldSynonyms
<1>4. PICK g : Folds(WriteSynonyms, W, W, 1, g) /\ FoldTokens(W) = g[1]
  BY <1>1, RulesAreProper, FoldWithIs DEF FoldTokens
<1>5. \A i \in 1..n + 1 : f[i] = FoldStep(ReadSynonyms, W, q, f, i) /\ g[i] = FoldStep(WriteSynonyms, W, W, g, i)
  BY <1>1, <1>3, <1>4 DEF Folds
<1> HIDE DEF W, n
<1> DEFINE G == {k \in 0..n : \A i \in n + 1 - k..n + 1 : Alike(f[i], g[i])}
<1>6. Alike(f[n + 1], g[n + 1])
  <2>1. n + 1 \in 1..n + 1 /\ n + 1 > Len(W)
    BY <1>1
  <2>2. f[n + 1] = <<>> /\ g[n + 1] = <<>>
    BY <1>5, <2>1 DEF FoldStep
  <2> QED  BY <2>2, AlikeNone
<1>7. ASSUME NEW k \in 0..n, k \in G, k < n  PROVE k + 1 \in G
  <2> DEFINE m == n - k
  <2>1. /\ m \in 1..n /\ m \in 1..n + 1 /\ ~(m > Len(W)) /\ k + 1 \in 0..n
        /\ n + 1 - k = m + 1 /\ n + 1 - (k + 1) = m /\ n \in Nat
    BY <1>1, <1>7
  <2>2. \A i \in m + 1..n + 1 : Alike(f[i], g[i])
    BY <1>7, <2>1
  <2> HIDE DEF m, G
  <2>3. ASSUME VariantsAt(q, m) = {}  PROVE Alike(f[m], g[m])
    <3>1. RulesAt(ReadSynonyms, W, m) = {} /\ RulesAt(WriteSynonyms, W, m) = {}
      BY <2>1, <2>3, RulesAlike DEF W, n
    <3>2. f[m] = <<q[m]>> \o f[m + 1] /\ g[m] = <<W[m]>> \o g[m + 1]
      BY <1>5, <2>1, <3>1 DEF FoldStep
    <3>3. Alike(<<q[m]>>, <<W[m]>>) /\ Alike(f[m + 1], g[m + 1])
      <4>1. W[m] = q[m].w /\ m + 1 \in m + 1..n + 1
        BY <1>1, <2>1
      <4> QED  BY <2>2, <4>1, AlikeOne
    <3> QED  BY <3>2, <3>3, AlikeConcat
  <2>4. ASSUME VariantsAt(q, m) # {}  PROVE Alike(f[m], g[m])
    <3>1. PICK r \in Synonyms : /\ Longest(RulesAt(WriteSynonyms, W, m)) = r
                                /\ Longest(RulesAt(ReadSynonyms, W, m)) = ReadForm(r)
                                /\ m + Len(r.from) \in m + 1..n + 1
      BY <2>1, <2>4, LongestAlike DEF W, n
    <3>2. RulesAt(ReadSynonyms, W, m) # {} /\ RulesAt(WriteSynonyms, W, m) # {}
      BY <2>1, <2>4, RulesAlike DEF W, n
    <3> DEFINE to == m + Len(r.from)
    <3>3. ReadForm(r).from = r.from /\ ReadForm(r).to = Uncapital(r.to)
      BY DEF ReadForm
    <3>4. f[m] = Uncapital(r.to) \o f[to] /\ g[m] = r.to \o g[to]
      BY <1>5, <2>1, <3>1, <3>2, <3>3 DEF FoldStep
    <3>5. Alike(f[to], g[to])
      BY <2>2, <3>1
    <3>6. Alike(Uncapital(r.to), r.to)
      BY SynonymIs, AlikeUncapital
    <3> HIDE DEF to
    <3> QED  BY <3>4, <3>5, <3>6, AlikeConcat
  <2>5. \A i \in m..n + 1 : i = m \/ i \in m + 1..n + 1
    BY <2>1
  <2>6. \A i \in m..n + 1 : Alike(f[i], g[i])
    BY <2>2, <2>3, <2>4, <2>5
  <2> QED  BY <2>1, <2>6 DEF G
<1>8. 0 \in G /\ G \in SUBSET (0..n)
  <2>1. 0 \in 0..n /\ \A i \in n + 1 - 0..n + 1 : i = n + 1
    BY <1>1
  <2> QED  BY <1>6, <2>1
<1> HIDE DEF G
<1>9. G = 0..n
  BY <1>1, <1>7, <1>8, EveryStep
<1>10. n \in G /\ 1 \in n + 1 - n..n + 1
  BY <1>1, <1>9
<1>11. Alike(f[1], g[1])
  BY <1>10 DEF G
<1> QED  BY <1>2, <1>3, <1>4, <1>11 DEF W

\* What a taught question is keyed by.
LEMMA PatternWords ==
    ASSUME NEW q, IsSequence(q), Unbroken(q), WholeVariants(q)
    PROVE  IsSequence(FoldSynonyms(q)) /\ ToSet(NormalizeQuery(q)) = WordsOf(FoldSynonyms(q)) \ QueryStop
<1> DEFINE g == FoldTokens(Split(Spelled(q)))
<1>1. IsSequence(FoldSynonyms(q)) /\ IsSequence(g) /\ WordsOf(FoldSynonyms(q)) = ToSet(g)
  BY FoldsAlike DEF Alike
<1>2. NormalizeQuery(q) = Unrepeated(Dropping(g, QueryStop))
  BY DEF NormalizeQuery
<1> HIDE DEF g
<1>3. IsSequence(Dropping(g, QueryStop)) /\ ToSet(Dropping(g, QueryStop)) = ToSet(g) \ QueryStop
  BY <1>1, DroppedElements
<1>4. ToSet(Unrepeated(Dropping(g, QueryStop))) = ToSet(Dropping(g, QueryStop))
  BY <1>3, UnrepeatedElements
<1> QED  BY <1>1, <1>2, <1>3, <1>4

\* What a question is understood as.
Marked(q, kind) == {q[i].w : i \in {j \in DOMAIN q : Kind(q, j) = kind}}

LEMMA KindsOf ==
    ASSUME NEW q, IsSequence(q), NEW kind
    PROVE  IsSequence(OfKind(q, kind)) /\ ToSet(OfKind(q, kind)) = Marked(q, kind)
<1> DEFINE W == Spelled(q)
           at == {j \in DOMAIN q : Kind(q, j) = kind}
<1>1. IsSequence(W) /\ DOMAIN q = DOMAIN W /\ \A i \in DOMAIN q : W[i] = q[i].w
  BY SpelledIsSequence
<1>2. OfKind(q, kind) = Picked(W, at) /\ Marked(q, kind) = {q[i].w : i \in at}
  BY DEF OfKind, Marked
<1>3. at \in SUBSET DOMAIN q
  OBVIOUS
<1> HIDE DEF W, at
<1>4. {q[i].w : i \in at} = {W[i] : i \in at}
  BY <1>1, <1>3
<1> QED  BY <1>1, <1>2, <1>3, <1>4, PickedElements

\* A token that the lookups know counts as an entity.
EntitiesIn(q) == Marked(FoldSynonyms(q), "entity")
TokensIn(q)   == Marked(FoldSynonyms(q), "token")
KnownIn(q, held) == {t \in TokensIn(q) : Resolve(held, t) # {}}

LEMMA UnderstoodAs ==
    ASSUME NEW q, IsSequence(FoldSynonyms(q)), NEW held
    PROVE  /\ IsSequence(Understood(q, held).tokens)
           /\ ToSet(Understood(q, held).tokens) = TokensIn(q) \ KnownIn(q, held)
           /\ IsSequence(Understood(q, held).entities)
           /\ ToSet(Understood(q, held).entities) = EntitiesIn(q) \cup KnownIn(q, held)
<1> DEFINE f == FoldSynonyms(q)
           es == OfKind(f, "entity")
           ts == OfKind(f, "token")
           u == Understood(q, held)
           known == KnownIn(q, held)
<1>1. IsSequence(es) /\ ToSet(es) = EntitiesIn(q) /\ IsSequence(ts) /\ ToSet(ts) = TokensIn(q)
  BY KindsOf DEF EntitiesIn, TokensIn
<1>2. Normalize(q) = [entities |-> es, tokens |-> ts, tickers |-> OfKind(f, "ticker")]
  BY DEF Normalize, Extract
<1>3. known = {t \in ToSet(ts) : Resolve(held, t) # {}}
  BY <1>1 DEF KnownIn
<1> HIDE DEF es, ts, f, known
<1>4. u.entities = es \o Keeping(ts, known) /\ u.tokens = Dropping(ts, known)
  BY <1>2, <1>3 DEF Understood, PromoteEntities
<1> HIDE DEF u
<1>5. /\ IsSequence(Dropping(ts, known)) /\ ToSet(Dropping(ts, known)) = TokensIn(q) \ known
      /\ IsSequence(Keeping(ts, known)) /\ ToSet(Keeping(ts, known)) = known
  BY <1>1, <1>3, DroppedElements
<1> DEFINE kept == Keeping(ts, known)
<1>6. u.entities = es \o kept /\ IsSequence(kept) /\ ToSet(kept) = known
  BY <1>4, <1>5
<1> HIDE DEF kept
<1>7. IsSequence(es \o kept) /\ ToSet(es \o kept) = ToSet(es) \cup ToSet(kept)
  BY <1>1, <1>6, SequenceConcat
<1>8. IsSequence(u.entities) /\ ToSet(u.entities) = EntitiesIn(q) \cup known
  BY <1>1, <1>6, <1>7
<1> QED  BY <1>4, <1>5, <1>8 DEF u, known

LEMMA KindIs ==
    ASSUME NEW q, NEW i
    PROVE  /\ Kind(q, i) \in {"ticker", "stop", "entity", "token"}
           /\ Kind(q, i) = "ticker" => q[i].w \in Numbers
           /\ Kind(q, i) = "stop" => q[i].w \in Stop
           /\ Kind(q, i) = "entity" => q[i].cap
           /\ Kind(q, i) = "token" => q[i].w \notin Stop /\ ~ q[i].cap
<1>1. CASE q[i].w \in Numbers
  BY <1>1 DEF Kind
<1>2. CASE q[i].w \notin Numbers /\ q[i].w \in Stop /\ (~ q[i].cap \/ i = 1)
  BY <1>2 DEF Kind
<1>3. CASE q[i].w \notin Numbers /\ ~ (q[i].w \in Stop /\ (~ q[i].cap \/ i = 1))
  <2>1. Kind(q, i) = IF q[i].cap THEN "entity" ELSE "token"
    BY <1>3 DEF Kind
  <2>2. CASE q[i].cap
    BY <2>1, <2>2
  <2>3. CASE ~ q[i].cap
    BY <1>3, <2>1, <2>3
  <2> QED  BY <2>2, <2>3
<1> QED  BY <1>1, <1>2, <1>3

\* A plain question, taught and asked: its pattern without its entities and the stopwords
\* is what it is asked with beside its entities.
LEMMA ReadAlike ==
    ASSUME NEW q, IsSequence(q), Plain(q), NEW held,
           NEW E, E = ToSet(Understood(q, held).entities), NEW T, T = ToSet(Understood(q, held).tokens)
    PROVE  /\ (ToSet(NormalizeQuery(q)) \ E) \ Stop = T
           /\ IsFiniteSet(E) /\ IsFiniteSet(T)
           /\ Unasked(Normalize(q)) \/ E \cup T # {}
<1> DEFINE f == FoldSynonyms(q)
           es == EntitiesIn(q)
           ts == TokensIn(q)
           known == KnownIn(q, held)
           P == ToSet(NormalizeQuery(q))
<1>1. IsSequence(f) /\ P = WordsOf(f) \ QueryStop
  BY PatternWords DEF Plain
<1>2. /\ IsSequence(Understood(q, held).tokens) /\ T = ts \ known
      /\ IsSequence(Understood(q, held).entities) /\ E = es \cup known
  BY <1>1, UnderstoodAs
<1>3. es = Marked(f, "entity") /\ ts = Marked(f, "token") /\ known = {t \in ts : Resolve(held, t) # {}}
  BY DEF EntitiesIn, TokensIn, KnownIn
<1>4. \A i \in DOMAIN f : /\ f[i].w \notin Numbers
                          /\ f[i].w \in QueryStop => f[i].w \in Stop
                          /\ \A j \in DOMAIN f : f[j].w = f[i].w => f[j].cap = f[i].cap \/ f[i].w \in Stop
  BY Zenon DEF Plain, Unnumbered, OneReading
<1>5. WordsOf(f) = {f[i].w : i \in DOMAIN f}
  BY DEF WordsOf, ToSet
<1> HIDE DEF f, es, ts, known
<1>6. ASSUME NEW i \in DOMAIN f, f[i].w \notin Stop  PROVE f[i].w \in es \cup ts
  <2>1. Kind(f, i) \in {"entity", "token"}
    BY <1>4, <1>6, KindIs
  <2> QED  BY <1>3, <2>1 DEF Marked
<1>7. ASSUME NEW t \in ts  PROVE t \notin Stop /\ t \notin es /\ t \in P
  <2>1. PICK i \in DOMAIN f : t = f[i].w /\ Kind(f, i) = "token"
    BY <1>3 DEF Marked
  <2>2. t \notin Stop /\ ~ f[i].cap
    BY <2>1, KindIs
  <2>3. t \in P
    BY <1>1, <1>4, <1>5, <2>1, <2>2
  <2>4. ASSUME NEW j \in DOMAIN f, t = f[j].w, Kind(f, j) = "entity"  PROVE FALSE
    <3>1. f[j].cap
      BY <2>4, KindIs
    <3>2. f[j].cap = f[i].cap
      BY <1>4, <2>1, <2>2, <2>4, Zenon
    <3> QED  BY <2>2, <3>1, <3>2, Zenon
  <2>5. t \notin es
    BY <1>3, <2>4 DEF Marked
  <2> QED  BY <2>2, <2>3, <2>5
<1> HIDE DEF P
<1>8. (P \ E) \ Stop = T
  <2>1. ASSUME NEW t \in P, t \notin E, t \notin Stop  PROVE t \in T
    <3>1. PICK i \in DOMAIN f : t = f[i].w
      BY <1>1, <1>5
    <3>2. t \in es \cup ts
      BY <1>6, <2>1, <3>1
    <3> QED  BY <1>2, <2>1, <3>2
  <2>2. ASSUME NEW t \in T  PROVE t \in P /\ t \notin E /\ t \notin Stop
    BY <1>2, <1>7
  <2> QED  BY <2>1, <2>2
<1>9. IsFiniteSet(E) /\ IsFiniteSet(T)
  BY <1>2, ElementsAreFinite
<1>10. ASSUME E \cup T = {}  PROVE Unasked(Normalize(q))
  <2>1. es = {} /\ ts = {}
    BY <1>2, <1>10
  <2>2. \A s : IsSequence(s) /\ ToSet(s) = {} => s = <<>>
    <3> SUFFICES ASSUME NEW s, IsSequence(s), ToSet(s) = {}  PROVE s = <<>>
      OBVIOUS
    <3>1. s \in Seq({})
      BY DEF IsSequence
    <3>2. Len(s) \in Nat /\ \A i \in 1..Len(s) : s[i] \in {}
      BY <3>1, LenProperties, ElementOfSeq
    <3>3. Len(s) = 0
      BY <3>2
    <3> QED  BY <3>1, <3>3, EmptySeq
  <2>3. Marked(f, "ticker") = {}
    <3>1. ASSUME NEW i \in DOMAIN f  PROVE Kind(f, i) # "ticker"
      BY <1>4, KindIs
    <3> QED  BY <3>1 DEF Marked
  <2>4. OfKind(f, "entity") = <<>> /\ OfKind(f, "token") = <<>> /\ OfKind(f, "ticker") = <<>>
    BY <1>1, <1>3, <2>1, <2>2, <2>3, KindsOf
  <2> QED  BY <2>4 DEF Unasked, Normalize, Extract, f
<1> QED  BY <1>8, <1>9, <1>10 DEF P

LEMMA SameScore ==
    ASSUME NEW A, IsFiniteSet(A), A # {}
    PROVE  AtLeast(Jaccard(A, A), JaccardMin)
<1>1. Cardinality(A) \in Nat \ {0}
  BY FS_CardinalityType, FS_EmptySet
<1>2. A \cap A = A /\ A \cup A = A
  OBVIOUS
<1>3. Jaccard(A, A) = <<Cardinality(A), Cardinality(A)>>
  BY <1>2 DEF Jaccard
<1> DEFINE c == Cardinality(A)
<1>4. c * 10 >= 6 * c
  <2>1. c \in Nat
    BY <1>1
  <2> HIDE DEF c
  <2> QED  BY <2>1, Z3
<1> HIDE DEF c
<1>5. Jaccard(A, A) = <<c, c>>
  BY <1>3 DEF c
<1> QED  BY <1>4, <1>5 DEF AtLeast, JaccardMin

LEMMA NotMismatched ==
    ASSUME NEW row, NEW E, NEW overlap, NEW stored
    PROVE  Verdict(row, E, E, overlap, stored) # "mismatch"
<1>1. CASE E = {}
  BY <1>1 DEF Verdict
<1>2. CASE E # {}
  <2>1. ClassifyEntityMatch(E, E) = "exact"
    BY <1>2 DEF ClassifyEntityMatch
  <2> QED  BY <1>2, <2>1 DEF Verdict
<1> QED  BY <1>1, <1>2

LEMMA PlainIsFound ==
    ASSUME NEW q, IsSequence(q), Plain(q), ~ Unasked(Normalize(q)),
           NEW l \in learnings, l.pattern = NormalizeQuery(q),
           StoredEntities(l, lookups) = ToSet(Understood(q, lookups).entities)
    PROVE  \E h \in RowHits(Understood(q, lookups)) : h.row = l.id
<1> DEFINE n == Understood(q, lookups)
           E == ToSet(n.entities)
           T == ToSet(n.tokens)
           held == StoredEntities(l, lookups)
           canonical == Jaccard(ResolveSet(lookups, E), ResolveSet(lookups, held))
           overlap == ResolveSet(lookups, E) \intersect ResolveSet(lookups, held) # {}
           own == OwnScore(T, StoredTokens(l, held), E, held)
           verdict == Verdict(l, E, held, overlap, Stored)
           h == RowHit(l, verdict, FinalScore(own, canonical))
<1>1. held = E
  OBVIOUS
<1>2. (ToSet(NormalizeQuery(q)) \ E) \ Stop = T /\ IsFiniteSet(E) /\ IsFiniteSet(T) /\ E \cup T # {}
  BY ReadAlike
<1>3. StoredTokens(l, held) = T
  BY <1>1, <1>2 DEF StoredTokens
<1>4. AtLeast(own, JaccardMin)
  <2>1. own = IF T = {} THEN Jaccard(E, E) ELSE Jaccard(T, T)
    BY <1>1, <1>3 DEF OwnScore
  <2> HIDE DEF own, E, T
  <2> QED  BY <1>2, <2>1, SameScore
<1>5. verdict # "mismatch"
  BY <1>1, NotMismatched
<1>6. RowMatch(l, n, lookups, held, Stored) = ScoredRow(l, n, held, canonical, overlap, Stored)
  BY Zenon DEF RowMatch
<1>7. ScoredRow(l, n, held, canonical, overlap, Stored) = IF Admitted(own, canonical, E, held) THEN {h} ELSE {}
  BY Zenon DEF ScoredRow
<1>8. Admitted(own, canonical, E, held)
  BY <1>4, Zenon DEF Admitted
<1>9. h \in RowMatch(l, n, lookups, held, Stored)
  <2> HIDE DEF h, own, canonical, overlap, held, n, E
  <2> QED  BY <1>6, <1>7, <1>8
<1>10. h.match = verdict /\ h.row = l.id
  BY DEF RowHit
<1>11. h \in AllMatches(n)
  BY <1>9, Zenon DEF AllMatches
<1> HIDE DEF h, verdict, n
<1>12. h \in RowHits(n)
  BY <1>5, <1>10, <1>11 DEF RowHits
<1> QED  BY <1>10, <1>12 DEF n

\* A hit of a row is in the answer, or the answer is full of hits it does not precede.
LEMMA CutKeepsTheBest ==
    ASSUME NEW n, NEW hits \in Hits(n), NEW m \in RowHits(n), m \notin hits
    PROVE  Cardinality(hits) = Limit /\ \A h \in hits : ~ SortsBefore(m, h)
<1>1. PICK all \in HitsAfter(RowHits(n), n) : hits \in Cut(all, Ordered(all, SortsBefore))
  BY Zenon DEF Hits
<1>2. m \in all
  BY <1>1, Zenon DEF HitsAfter
<1>3. hits \subseteq all /\ Cardinality(hits) = Limit /\ \A h \in hits : <<m, h>> \notin Ordered(all, SortsBefore)
  <2> DEFINE before == Ordered(all, SortsBefore)
  <2>1. hits \in Cut(all, before)
    BY <1>1
  <2> HIDE DEF before
  <2>2. hits # all
    BY <1>2
  <2>3. hits \subseteq all /\ Cardinality(hits) = Limit /\ \A h \in hits : <<m, h>> \notin before
    BY <1>2, <2>1, <2>2 DEF Cut
  <2> QED  BY <2>3 DEF before
<1>4. ASSUME NEW h \in hits, SortsBefore(m, h)  PROVE FALSE
  <2>1. <<m, h>> \in all \X all
    BY <1>2, <1>3
  <2>2. <<m, h>> \in Ordered(all, SortsBefore)
    BY <1>4, <2>1 DEF Ordered
  <2> QED  BY <1>3, <2>2
<1> QED  BY <1>3, <1>4

\* A question asked in the words it was taught in finds what it was taught, whatever
\* else the store holds, where the two normalisers have nothing to read differently: it
\* is in the answer, or the answer is full of hits that rank no lower
\* (store/learnings.go, normalizeQuery; learn/normalize.go; recall.go, matching).
THEOREM VerbatimIsFound == Spec => VerbatimRecall
<1> DEFINE Found == \A p \in Procs : Answers(p) /\ Plain(proc'[p].q) => FoundAgain(p)
<1>1. Inv /\ [Next]_vars => [Found]_vars
  <2> SUFFICES ASSUME Inv, [Next]_vars, NEW p \in Procs, Answers(p), Plain(proc'[p].q)  PROVE FoundAgain(p)
    OBVIOUS
  <2>1. PICK q \in Questions : RecallQuery(p, q)
    BY AnswersAreRecalls DEF Inv, Answers
  <2> DEFINE n == Understood(q, lookups)
  <2>2. PICK hits \in Hits(n) : Goto(p, [pc |-> "answered", q |-> q, n |-> n, hits |-> hits])
    BY <2>1, Zenon DEF RecallQuery
  <2>3. ~ Unasked(Normalize(q))
    BY <2>1 DEF RecallQuery
  <2> DEFINE c == [pc |-> "answered", q |-> q, n |-> n, hits |-> hits]
  <2>4. c.q = q /\ c.n = n /\ c.hits = hits
    OBVIOUS
  <2> HIDE DEF c
  <2>5. proc'[p] = c
    BY <2>2, GotoOnly DEF Inv, c
  <2>6. IsSequence(q) /\ Plain(q)
    <3>1. IsSequence(q)
      BY QuestionsAssumption DEF IsSequence
    <3> QED  BY <2>4, <2>5, <3>1
  <2>7. ASSUME NEW l \in learnings, l.pattern = NormalizeQuery(q), StoredEntities(l, lookups) = ToSet(n.entities)
        PROVE  \E m \in RowHits(n) : m.row = l.id
    BY <2>3, <2>6, <2>7, PlainIsFound
  <2> HIDE DEF n
  <2>8. \A m \in RowHits(n) : m \in hits \/ (Cardinality(hits) = Limit /\ \A h \in hits : ~ SortsBefore(m, h))
    BY CutKeepsTheBest
  <2> QED  BY <2>4, <2>5, <2>7, <2>8, Zenon DEF FoundAgain
<1>2. Init => Inv
  BY InvInit
<1>3. Inv /\ [Next]_vars => Inv'
  BY InvStep
<1> QED  BY <1>1, <1>2, <1>3, PTL DEF Spec, VerbatimRecall
=============================================================================
