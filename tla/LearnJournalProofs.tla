-------------------------- MODULE LearnJournalProofs --------------------------
(***************************************************************************)
(* LearnJournal for any processes, scripts, clocks and bounds.              *)
(***************************************************************************)
EXTENDS LearnJournal, FiniteSetTheorems, SequenceTheorems, TLAPS

\* What holds of a process at each stage, given the segments that exist.
NewerIn(alive, d) == \E e \in alive : e > d
Fit(m, alive) ==
  /\ m.pc = "idle" => m = Idle
  /\ m.pc \in {"clean", "read"} => m.todo # {}
  /\ m.pc = "derive" => m.pairs # <<>>
  /\ m.pc = "write" /\ ~m.unlinked => m.day \in alive
  /\ m.pc = "clean" => \A d \in m.todo : NewerIn(alive, d)
Shape == \A p \in Procs : Fit(proc[p], live)

-----------------------------------------------------------------------------
(***************************************************************************)
(* Numbers, sets of numbers and sequences.                                 *)
(***************************************************************************)
LEMMA Constants ==
  /\ MaxNow \in Nat /\ MaxEntries \in Nat \ {0} /\ MaxFaults \in Nat /\ Window \in Nat
  /\ TicksPerDay \in Nat \ {0} /\ MaxNow \div TicksPerDay \in Nat
  /\ Days \subseteq Nat /\ 0 \in Days /\ Ids \subseteq Nat /\ 1 \in Ids /\ Ids \subseteq 0..Torn
  /\ NL \in 0..Torn /\ NL \notin Ids /\ Torn \in 0..Torn /\ Torn \notin Ids
  /\ \A t \in 0..MaxNow : SegmentOf(t) \in Days
<1>1. /\ MaxNow \in Nat /\ MaxEntries \in Nat \ {0} /\ MaxFaults \in Nat /\ Window \in Nat
      /\ TicksPerDay \in Nat \ {0}
  BY JournalAssumption
<1>2. ASSUME NEW t \in 0..MaxNow
      PROVE  t \div TicksPerDay \in Nat /\ t \div TicksPerDay <= MaxNow \div TicksPerDay
  BY <1>1
<1>3. MaxNow \div TicksPerDay \in Nat
  BY <1>1
<1> QED  BY <1>1, <1>2, <1>3 DEF Days, Ids, NL, Torn, SegmentOf

LEMMA MinExists ==
  ASSUME NEW S \in SUBSET Nat, S # {}
  PROVE  Min(S) \in S /\ \A y \in S : Min(S) <= y
<1>1. \E x \in S : \A y \in S : ~(<<y, x>> \in OpToRel(<, Nat))
  BY NatLessThanWellFounded, WFMin
<1>2. PICK x \in S : \A y \in S : ~(<<y, x>> \in OpToRel(<, Nat))
  BY <1>1
<1>3. \A y \in S : y < x => <<y, x>> \in OpToRel(<, Nat)
  BY DEF OpToRel
<1>4. \A y \in S : x \in Nat /\ y \in Nat /\ ~(y < x)
  BY <1>2, <1>3
<1>5. \A y \in S : x <= y
  BY <1>4
<1> QED  BY <1>5 DEF Min

\* The greatest element is the least upper bound.
LEMMA MaxExists ==
  ASSUME NEW n \in Nat, NEW S \in SUBSET (0..n), S # {}
  PROVE  Max(S) \in S /\ \A y \in S : Max(S) >= y
<1> DEFINE above == {m \in Nat : \A y \in S : m >= y}
<1>1. n \in above /\ above \in SUBSET Nat
  OBVIOUS
<1>2. Min(above) \in above /\ \A m \in above : Min(above) <= m
  BY <1>1, MinExists
<1> DEFINE x == Min(above)
<1>3. x \in Nat /\ (\A y \in S : x >= y) /\ \A m \in above : x <= m
  BY <1>2
<1> HIDE DEF x
<1>4. x \in S
  <2>1. SUFFICES ASSUME x \notin S  PROVE  FALSE
    OBVIOUS
  <2>2. \A y \in S : y \in Nat /\ y < x
    BY <1>3, <2>1
  <2>3. x - 1 \in Nat /\ \A y \in S : x - 1 >= y
    <3>1. \A y \in S : x - 1 \in Nat /\ x - 1 >= y
      BY <1>3, <2>2
    <3>2. PICK y \in S : TRUE
      OBVIOUS
    <3> QED  BY <3>1, <3>2
  <2>4. x - 1 \in above
    BY <2>3
  <2> QED  BY <1>3, <2>3, <2>4
<1> QED  BY <1>3, <1>4 DEF Max

\* Ranks: every position has one of its own, and every rank is taken.
LEMMA RankOfEach ==
  ASSUME NEW n \in Nat, NEW at \in SUBSET (1..n)
  PROVE  /\ IsFiniteSet(at) /\ Cardinality(at) \in Nat
         /\ \A i \in at : Cardinality({j \in at : j <= i}) \in 1..Cardinality(at)
         /\ \A i, k \in at : Cardinality({j \in at : j <= i}) = Cardinality({j \in at : j <= k}) => i = k
<1> DEFINE upto(i) == {j \in at : j <= i}
<1>1. IsFiniteSet(at) /\ Cardinality(at) \in Nat /\ at \subseteq Nat
  <2>1. IsFiniteSet(1..n)
    BY FS_Interval
  <2>2. IsFiniteSet(at)
    BY <2>1, FS_Subset
  <2> QED  BY <2>2, FS_CardinalityType
<1>2. ASSUME NEW i \in at  PROVE  Cardinality(upto(i)) \in 1..Cardinality(at) /\ IsFiniteSet(upto(i))
  <2>1. IsFiniteSet(upto(i)) /\ Cardinality(upto(i)) <= Cardinality(at)
    BY <1>1, FS_Subset
  <2>2. Cardinality(upto(i)) \in Nat /\ upto(i) # {}
    BY <2>1, FS_CardinalityType
  <2>3. Cardinality(upto(i)) # 0
    BY <2>1, <2>2, FS_EmptySet
  <2> QED  BY <1>1, <2>1, <2>2, <2>3
<1>3. ASSUME NEW i \in at, NEW j \in at, i < j  PROVE  Cardinality(upto(i)) # Cardinality(upto(j))
  <2>0. i \in Nat /\ j \in Nat /\ j <= j /\ ~(j <= i) /\ \A x \in Nat : x <= i => x <= j
    BY <1>1, <1>3
  <2>1. upto(i) \subseteq upto(j) /\ j \in upto(j) /\ j \notin upto(i)
    BY <1>1, <2>0, Zenon
  <2>2. upto(i) # upto(j)
    BY <2>1
  <2> QED  BY <1>2, <2>1, <2>2, FS_Subset
<1>4. \A i, k \in at : Cardinality(upto(i)) = Cardinality(upto(k)) => i = k
  <2> HIDE DEF upto
  <2>1. \A i, k \in at : i \in Nat /\ k \in Nat
    BY <1>1
  <2> QED  BY <1>3, <2>1
<1> QED  BY <1>1, <1>2, <1>4

LEMMA NthExists ==
  ASSUME NEW n \in Nat, NEW at \in SUBSET (1..n), NEW k \in 1..Cardinality(at)
  PROVE  Nth(at, k) \in at /\ Cardinality({j \in at : j <= Nth(at, k)}) = k
<1> DEFINE rank == [i \in at |-> Cardinality({j \in at : j <= i})]
<1>1. IsFiniteSet(at) /\ Cardinality(at) \in Nat
  BY RankOfEach
<1>2. rank \in Injection(at, 1..Cardinality(at))
  <2>1. rank \in [at -> 1..Cardinality(at)]
    BY RankOfEach
  <2>2. ASSUME NEW i \in at, NEW k1 \in at, rank[i] = rank[k1]  PROVE  i = k1
    <3>1. Cardinality({j \in at : j <= i}) = Cardinality({j \in at : j <= k1})
      BY <2>2
    <3>2. \A x, y \in at : Cardinality({j \in at : j <= x}) = Cardinality({j \in at : j <= y}) => x = y
      BY RankOfEach
    <3> QED  BY <3>1, <3>2, Zenon
  <2> HIDE DEF rank
  <2> QED  BY <2>1, <2>2 DEF Injection, IsInjective
<1>3. rank \in Surjection(at, 1..Cardinality(at))
  <2>1. IsFiniteSet(1..Cardinality(at)) /\ Cardinality(1..Cardinality(at)) = Cardinality(at)
    BY <1>1, FS_Interval
  <2> HIDE DEF rank
  <2> QED  BY <1>1, <1>2, <2>1, FS_Injection
<1>4. \E i \in at : rank[i] = k
  <2> HIDE DEF rank
  <2> QED  BY <1>3 DEF Surjection
<1> QED  BY <1>4 DEF Nth

LEMMA NthOnto ==
  ASSUME NEW n \in Nat, NEW at \in SUBSET (1..n), NEW i \in at
  PROVE  \E k \in 1..Cardinality(at) : Nth(at, k) = i
<1> DEFINE rank(x) == Cardinality({j \in at : j <= x})
<1>1. rank(i) \in 1..Cardinality(at) /\ \A x, y \in at : rank(x) = rank(y) => x = y
  BY RankOfEach
<1>2. Nth(at, rank(i)) \in at /\ rank(Nth(at, rank(i))) = rank(i)
  BY <1>1, NthExists
<1> HIDE DEF rank
<1>3. Nth(at, rank(i)) = i
  BY <1>1, <1>2
<1> QED  BY <1>1, <1>3

LEMMA PickedTyped ==
  ASSUME NEW S, NEW s \in Seq(S), NEW at \in SUBSET (1..Len(s))
  PROVE  /\ Picked(s, at) \in Seq({s[i] : i \in at})
         /\ Len(Picked(s, at)) = Cardinality(at) /\ Cardinality(at) \in Nat
<1>1. Len(s) \in Nat
  BY LenProperties
<1>2. Cardinality(at) \in Nat
  <2>1. IsFiniteSet(1..Len(s))
    BY <1>1, FS_Interval
  <2> QED  BY <2>1, FS_Subset, FS_CardinalityType
<1>3. \A k \in 1..Cardinality(at) : s[Nth(at, k)] \in {s[i] : i \in at}
  BY <1>1, NthExists
<1>4. Picked(s, at) \in Seq({s[i] : i \in at})
  BY <1>2, <1>3, IsASeq DEF Picked
<1>5. Len(Picked(s, at)) = Cardinality(at)
  BY <1>2 DEF Picked
<1> QED  BY <1>2, <1>4, <1>5

-----------------------------------------------------------------------------
(***************************************************************************)
(* Types, and the shape of a process at each stage.                        *)
(***************************************************************************)
LEMMA IdleTyped == Idle \in Process
BY Constants DEF Idle, Process, Stages, Offset

LEMMA Started == Init => TypeOK /\ Shape
<1> SUFFICES ASSUME Init  PROVE  TypeOK /\ Shape
  OBVIOUS
<1>1. TypeOK
  <2>1. proc \in [Procs -> Process]
    BY IdleTyped DEF Init
  <2>2. entries \in Seq(Entry) /\ Len(entries) <= MaxEntries
    BY Constants, EmptySeq DEF Init
  <2>3. log \in [Days -> Seq(0..Torn)] /\ \A d \in Days \ live : log[d] = <<>>
    BY EmptySeq DEF Init
  <2>4. /\ now \in 0..MaxNow /\ live \subseteq Days /\ offset \in Offset /\ faults \in 0..MaxFaults
        /\ counted \in [Ids -> Nat] /\ wrote \in [Ids -> 0..(MaxNow + 1)]
    BY Constants DEF Init, Offset
  <2>5. {late, handed, crossed} \subseteq SUBSET Ids /\ shared \in BOOLEAN /\ anchors \subseteq Pair
    BY DEF Init
  <2> QED  BY <2>1, <2>2, <2>3, <2>4, <2>5 DEF TypeOK
<1>2. Shape
  BY DEF Init, Shape, Fit, Idle
<1> QED  BY <1>1, <1>2

\* A new segment takes nothing away from a process.
LEMMA FitGrows ==
  ASSUME NEW m, NEW alive, NEW more, alive \subseteq more, Fit(m, alive)
  PROVE  Fit(m, more)
BY DEF Fit, NewerIn

LEMMA AppendTyped ==
  ASSUME TypeOK, NEW d \in live, NEW piece \in Seq(0..Torn), AppendTo(d, piece)
  PROVE  /\ log' = [log EXCEPT ![d] = @ \o piece]
         /\ log' \in [Days -> Seq(0..Torn)] /\ \A e \in Days \ live : log'[e] = <<>>
         /\ wrote' \in [Ids -> 0..(MaxNow + 1)] /\ late' \in SUBSET Ids
<1>1. d \in Days /\ log[d] \o piece \in Seq(0..Torn)
  BY ConcatProperties DEF TypeOK
<1>2. log' = [log EXCEPT ![d] = @ \o piece]
  BY DEF AppendTo
<1>3. log' \in [Days -> Seq(0..Torn)] /\ \A e \in Days \ live : log'[e] = <<>>
  BY <1>1, <1>2 DEF TypeOK
<1> DEFINE data  == log[d] \o piece
           fresh == {data[i] : i \in LinesAfter(data, 0) \ LinesAfter(log[d], 0)}
<1>4. fresh \subseteq Ids
  BY DEF LinesAfter
<1>5. /\ wrote' = [i \in Ids |-> IF i \in fresh THEN now ELSE wrote[i]]
      /\ late' \in {late, late \cup fresh}
  BY DEF AppendTo
<1> HIDE DEF fresh, data
<1>6. wrote' \in [Ids -> 0..(MaxNow + 1)]
  BY <1>5, Constants DEF TypeOK
<1>7. late' \in SUBSET Ids
  BY <1>4, <1>5 DEF TypeOK
<1> QED  BY <1>2, <1>3, <1>6, <1>7

LEMMA TickTyped == ASSUME TypeOK, Shape, Tick  PROVE  TypeOK' /\ Shape'
BY Constants DEF TypeOK, Shape, Tick, files, ghosts

LEMMA BeginTyped ==
  ASSUME TypeOK, Shape, NEW p \in Procs, NEW s \in Sessions, NEW k \in Kinds, Begin(p, s, k)
  PROVE  TypeOK' /\ Shape'
<1> DEFINE d == SegmentOf(now)
           repaired == log[d] = <<>> \/ Last(log[d]) = NL
           stage == IF repaired THEN "write" ELSE "fix"
<1>1. /\ proc' = [proc EXCEPT ![p].pc = stage, ![p].id = Len(entries) + 1, ![p].day = d]
      /\ live' = IF repaired THEN live \cup {d} ELSE live
      /\ entries' = Append(entries, [session |-> s, kind |-> k, ts |-> now])
      /\ Len(entries) < MaxEntries /\ At(p, "idle")
      /\ UNCHANGED <<now, log, offset, counted, faults, ghosts>>
  BY DEF Begin
<1>2. d \in Days /\ stage \in {"write", "fix"}
  BY Constants DEF TypeOK
<1>3. Len(entries) \in Nat /\ Len(entries) + 1 \in Ids
  BY <1>1, Constants, LenProperties DEF TypeOK, Ids
<1>4. entries' \in Seq(Entry) /\ Len(entries') <= MaxEntries
  <2>1. [session |-> s, kind |-> k, ts |-> now] \in Entry
    BY DEF TypeOK, Entry
  <2> QED  BY <1>1, <1>3, <2>1, Constants, AppendProperties DEF TypeOK
<1>5. proc[p] = Idle
  BY <1>1 DEF Shape, Fit, At
<1>6. proc' = [proc EXCEPT ![p] = [Idle EXCEPT !.pc = stage, !.id = Len(entries) + 1, !.day = d]]
  BY <1>1, <1>5 DEF TypeOK
<1>7. live' \subseteq Days /\ live \subseteq live' /\ (stage = "write" => d \in live')
  BY <1>1, <1>2 DEF TypeOK
<1> HIDE DEF d, stage, repaired
<1>8. [Idle EXCEPT !.pc = stage, !.id = Len(entries) + 1, !.day = d] \in Process
  BY <1>2, <1>3, IdleTyped DEF Process, Stages
<1>9. TypeOK'
  BY <1>1, <1>4, <1>6, <1>7, <1>8 DEF TypeOK, ghosts
<1>10. Fit([Idle EXCEPT !.pc = stage, !.id = Len(entries) + 1, !.day = d], live')
  BY <1>2, <1>7 DEF Fit, Idle
<1>11. Shape'
  <2>1. ASSUME NEW q \in Procs  PROVE  Fit(proc'[q], live')
    <3>1. q # p => proc'[q] = proc[q] /\ Fit(proc[q], live')
      BY <1>6, <1>7, FitGrows DEF TypeOK, Shape
    <3> QED  BY <1>6, <1>10, <3>1 DEF TypeOK
  <2> QED  BY <2>1 DEF Shape
<1> QED  BY <1>9, <1>11

\* Where a process goes is either the idle process or itself at a stage.
LEMMA GoneTyped ==
  ASSUME TypeOK, NEW p \in Procs, NEW stage \in Stages
  PROVE  /\ GoneTo(p, stage) \in Process /\ GoneTo(p, stage).pc = stage
         /\ stage # "idle" => GoneTo(p, stage) = [proc[p] EXCEPT !.pc = stage]
         /\ stage = "idle" => GoneTo(p, stage) = Idle
<1>1. CASE stage = "idle"
  BY <1>1, IdleTyped DEF GoneTo, Idle
<1>2. CASE stage # "idle"
  BY <1>2 DEF GoneTo, TypeOK, Process
<1> QED  BY <1>1, <1>2

LEMMA PassTyped == \A p : PassOf(p) \in {"idle", "load"}
BY DEF PassOf

LEMMA GoneFits ==
  ASSUME TypeOK, NEW p \in Procs, NEW stage \in {"idle", "load", "decide", "store", "fix"}, NEW alive
  PROVE  Fit(GoneTo(p, stage), alive)
BY GoneTyped DEF Fit, Stages, Idle

\* A process that changes alone.
LEMMA ShapeOfOne ==
  ASSUME TypeOK, Shape, NEW p \in Procs, NEW m, proc' = [proc EXCEPT ![p] = m],
         Fit(m, live'), live \subseteq live'
  PROVE  Shape'
<1>1. ASSUME NEW q \in Procs  PROVE  Fit(proc'[q], live')
  <2>1. q # p => proc'[q] = proc[q] /\ Fit(proc[q], live')
    BY FitGrows DEF TypeOK, Shape
  <2> QED  BY <2>1 DEF TypeOK
<1> QED  BY <1>1 DEF Shape
LEMMA FixTyped ==
  ASSUME TypeOK, Shape, NEW p \in Procs, Fix(p)  PROVE  TypeOK' /\ Shape'
<1>1. /\ proc' = [proc EXCEPT ![p] = GoneTo(p, "write")] /\ live' = live \cup {proc[p].day}
      /\ UNCHANGED <<now, entries, offset, counted, faults, handed, crossed, shared, anchors>>
  BY DEF Fix, Goto
<1>2. /\ GoneTo(p, "write") \in Process /\ GoneTo(p, "write") = [proc[p] EXCEPT !.pc = "write"]
      /\ proc[p] \in Process /\ proc[p].day \in Days
  BY GoneTyped DEF Stages, TypeOK, Process
<1>3. /\ log' \in [Days -> Seq(0..Torn)] /\ \A e \in Days \ live : log'[e] = <<>>
      /\ wrote' \in [Ids -> 0..(MaxNow + 1)] /\ late' \in SUBSET Ids
  <2>1. CASE proc[p].day \in live
    <3>1. AppendTo(proc[p].day, <<NL>>) /\ <<NL>> \in Seq(0..Torn)
      BY <2>1, Constants DEF Fix
    <3> QED  BY <2>1, <3>1, AppendTyped
  <2>2. CASE proc[p].day \notin live
    BY <2>2 DEF Fix, TypeOK
  <2> QED  BY <2>1, <2>2
<1>4. TypeOK'
  BY <1>1, <1>2, <1>3 DEF TypeOK
<1>5. Fit([proc[p] EXCEPT !.pc = "write"], live')
  BY <1>1, <1>2 DEF Fit, Process
<1>6. Shape'
  BY <1>1, <1>2, <1>5, ShapeOfOne
<1> QED  BY <1>4, <1>6

LEMMA PrunableOld ==
  ASSUME NEW listed, NEW held, NEW d \in Prunable(listed, held)
  PROVE  d \in listed /\ NewerIn(listed, d)
BY Zenon DEF Prunable, NewerIn

\* The pieces a process appends.
LEMMA PieceTyped ==
  ASSUME TypeOK, NEW p \in Procs
  PROVE  /\ proc[p] \in Process /\ proc[p].id \in Ids
         /\ <<proc[p].id, NL>> \in Seq(0..Torn)
         /\ \A rest \in {Torn, proc[p].id} : <<rest>> \in Seq(0..Torn)
<1>1. proc[p] \in Process
  BY DEF TypeOK
<1>2. proc[p].id \in Ids
  BY <1>1 DEF Process
<1>3. proc[p].id \in 0..Torn /\ NL \in 0..Torn /\ Torn \in 0..Torn
  BY <1>2, Constants
<1> QED  BY <1>1, <1>2, <1>3

\* What Write and WriteTorn do to the files.
LEMMA WrittenTyped ==
  ASSUME TypeOK, Shape, NEW p \in Procs, At(p, "write"), NEW piece \in Seq(0..Torn),
         IF proc[p].unlinked THEN UNCHANGED <<log, wrote, late>> ELSE AppendTo(proc[p].day, piece)
  PROVE  /\ log' \in [Days -> Seq(0..Torn)] /\ \A e \in Days \ live : log'[e] = <<>>
         /\ wrote' \in [Ids -> 0..(MaxNow + 1)] /\ late' \in SUBSET Ids
<1>1. CASE proc[p].unlinked
  BY <1>1 DEF TypeOK
<1>2. CASE ~proc[p].unlinked
  <2>1. proc[p].day \in live /\ AppendTo(proc[p].day, piece)
    BY <1>2 DEF Shape, Fit, At
  <2> QED  BY <2>1, AppendTyped
<1> QED  BY <1>1, <1>2

LEMMA WriteTyped ==
  ASSUME TypeOK, Shape, NEW p \in Procs, Write(p)  PROVE  TypeOK' /\ Shape'
<1> DEFINE victims == Prunable(live, log')
           m == IF victims = {} THEN GoneTo(p, PassOf(p))
                ELSE [proc[p] EXCEPT !.pc = "clean", !.todo = victims]
<1>1. /\ proc' = [proc EXCEPT ![p] = m] /\ At(p, "write")
      /\ UNCHANGED <<now, entries, live, offset, counted, faults, handed, crossed, shared, anchors>>
  BY DEF Write, Goto
<1>2. proc[p] \in Process /\ <<proc[p].id, NL>> \in Seq(0..Torn)
  BY PieceTyped
<1>3. /\ log' \in [Days -> Seq(0..Torn)] /\ \A e \in Days \ live : log'[e] = <<>>
      /\ wrote' \in [Ids -> 0..(MaxNow + 1)] /\ late' \in SUBSET Ids
  BY <1>1, <1>2, WrittenTyped DEF Write
<1>4. \A d \in victims : d \in live /\ NewerIn(live, d)
  BY PrunableOld
<1> HIDE DEF victims
<1>5. m \in Process /\ Fit(m, live')
  <2>1. CASE victims = {}
    <3>1. PassOf(p) \in Stages /\ PassOf(p) \in {"idle", "load", "decide", "store", "fix"}
      BY PassTyped DEF Stages
    <3> QED  BY <2>1, <3>1, GoneTyped, GoneFits
  <2>2. CASE victims # {}
    <3>1. m = [proc[p] EXCEPT !.pc = "clean", !.todo = victims]
      BY <2>2
    <3>2. m \in Process /\ m.pc = "clean" /\ m.todo = victims
      BY <1>2, <1>4, <3>1 DEF Process, Stages, TypeOK
    <3> QED  BY <1>1, <1>4, <2>2, <3>2 DEF Fit
  <2> QED  BY <2>1, <2>2
<1> HIDE DEF m
<1>6. TypeOK'
  BY <1>1, <1>3, <1>5 DEF TypeOK
<1>7. Shape'
  BY <1>1, <1>5, ShapeOfOne
<1> QED  BY <1>6, <1>7

LEMMA WriteTornTyped ==
  ASSUME TypeOK, Shape, NEW p \in Procs, NEW survives \in BOOLEAN, WriteTorn(p, survives)
  PROVE  TypeOK' /\ Shape'
<1> DEFINE stage == IF survives THEN PassOf(p) ELSE "idle"
<1>1. /\ proc' = [proc EXCEPT ![p] = GoneTo(p, stage)] /\ At(p, "write")
      /\ faults < MaxFaults /\ faults' = faults + 1
      /\ UNCHANGED <<now, entries, live, offset, counted, handed, crossed, shared, anchors>>
  BY DEF WriteTorn, Goto
<1>2. stage \in Stages /\ stage \in {"idle", "load", "decide", "store", "fix"}
  BY PassTyped DEF Stages
<1>3. \E rest \in {Torn, proc[p].id} :
        IF proc[p].unlinked THEN UNCHANGED <<log, wrote, late>> ELSE AppendTo(proc[p].day, <<rest>>)
  BY DEF WriteTorn
<1>4. \A rest \in {Torn, proc[p].id} : <<rest>> \in Seq(0..Torn)
  BY PieceTyped
<1>5. /\ log' \in [Days -> Seq(0..Torn)] /\ \A e \in Days \ live : log'[e] = <<>>
      /\ wrote' \in [Ids -> 0..(MaxNow + 1)] /\ late' \in SUBSET Ids
  BY <1>1, <1>3, <1>4, WrittenTyped
<1> HIDE DEF stage
<1>6. GoneTo(p, stage) \in Process /\ Fit(GoneTo(p, stage), live')
  BY <1>2, GoneTyped, GoneFits
<1>7. TypeOK'
  BY <1>1, <1>5, <1>6, Constants DEF TypeOK
<1>8. Shape'
  BY <1>1, <1>6, ShapeOfOne
<1> QED  BY <1>7, <1>8
\* What RemoveSegment does to a process.
AfterRemoval(p, q, d) ==
  IF q = p THEN IF d \in live /\ proc[p].todo # {d} THEN [proc[p] EXCEPT !.todo = @ \ {d}]
                ELSE [GoneTo(p, PassOf(p)) EXCEPT !.todo = {}]
  ELSE IF At(q, "write") /\ proc[q].day = d THEN [proc[q] EXCEPT !.unlinked = TRUE]
  ELSE proc[q]

LEMMA Removal ==
  ASSUME TypeOK, Shape, NEW p \in Procs, RemoveSegment(p)
  PROVE  \E d \in proc[p].todo :
           /\ d \in Days /\ NewerIn(live, d) /\ live' = live \ {d} /\ log' = [log EXCEPT ![d] = <<>>]
           /\ proc' = [q \in Procs |-> AfterRemoval(p, q, d)]
           /\ At(p, "clean") /\ \A e \in proc[p].todo : d <= e /\ e \in Days
           /\ UNCHANGED <<now, entries, offset, counted, faults, ghosts>>
<1> DEFINE d == Min(proc[p].todo)
<1>1. /\ live' = live \ {d} /\ log' = [log EXCEPT ![d] = <<>>] /\ At(p, "clean")
      /\ proc' = [q \in Procs |-> AfterRemoval(p, q, d)]
      /\ UNCHANGED <<now, entries, offset, counted, faults, ghosts>>
  BY DEF RemoveSegment, AfterRemoval
<1>2. proc[p].todo # {} /\ proc[p].todo \in SUBSET Days
  BY <1>1 DEF Shape, Fit, At, TypeOK, Process
<1>3. d \in proc[p].todo /\ \A e \in proc[p].todo : d <= e
  BY <1>2, MinExists, Constants
<1>4. NewerIn(live, d)
  BY <1>1, <1>3 DEF Shape, Fit, At
<1> HIDE DEF d
<1> QED  BY <1>1, <1>2, <1>3, <1>4

LEMMA RemoveTyped ==
  ASSUME TypeOK, Shape, NEW p \in Procs, RemoveSegment(p)  PROVE  TypeOK' /\ Shape'
<1>1. PICK d \in proc[p].todo :
           /\ d \in Days /\ NewerIn(live, d) /\ live' = live \ {d} /\ log' = [log EXCEPT ![d] = <<>>]
           /\ proc' = [q \in Procs |-> AfterRemoval(p, q, d)]
           /\ At(p, "clean") /\ \A e \in proc[p].todo : d <= e /\ e \in Days
           /\ UNCHANGED <<now, entries, offset, counted, faults, ghosts>>
  BY Removal
<1>2. ASSUME NEW x \in Days, NewerIn(live, x)  PROVE  NewerIn(live', x)
  <2>1. PICK e \in live : e > x
    BY <1>2 DEF NewerIn
  <2>2. PICK f \in live : f > d
    BY <1>1 DEF NewerIn
  <2>3. x \in Nat /\ d \in Nat /\ e \in Nat /\ f \in Nat
    BY <1>1, Constants DEF TypeOK
  <2>4. CASE e # d
    BY <1>1, <2>1, <2>4 DEF NewerIn
  <2>5. CASE e = d
    BY <1>1, <2>1, <2>2, <2>3, <2>5 DEF NewerIn
  <2> QED  BY <2>4, <2>5
<1>3. ASSUME NEW q \in Procs
      PROVE  AfterRemoval(p, q, d) \in Process /\ Fit(AfterRemoval(p, q, d), live')
  <2>1. proc[q] \in Process /\ Fit(proc[q], live) /\ proc[q].todo \subseteq Days
    BY DEF TypeOK, Shape, Process
  <2>2. CASE q = p /\ d \in live /\ proc[p].todo # {d}
    <3>1. AfterRemoval(p, q, d) = [proc[p] EXCEPT !.todo = @ \ {d}]
      BY <2>2 DEF AfterRemoval
    <3>2. proc[p].todo \ {d} # {} /\ proc[p].pc = "clean"
      BY <1>1, <2>2 DEF At
    <3>3. /\ AfterRemoval(p, q, d) \in Process /\ AfterRemoval(p, q, d).pc = "clean"
          /\ AfterRemoval(p, q, d).todo = proc[p].todo \ {d}
      BY <2>1, <2>2, <3>1, <3>2 DEF Process
    <3>4. \A x \in proc[p].todo : NewerIn(live', x)
      BY <1>2, <2>1, <2>2, <3>2 DEF Fit
    <3> QED  BY <3>2, <3>3, <3>4 DEF Fit
  <2>3. CASE q = p /\ ~(d \in live /\ proc[p].todo # {d})
    <3>1. PassOf(p) \in Stages /\ PassOf(p) \in {"idle", "load"}
      BY PassTyped DEF Stages
    <3>2. /\ GoneTo(p, PassOf(p)) \in Process /\ GoneTo(p, PassOf(p)).pc = PassOf(p)
          /\ PassOf(p) = "idle" => GoneTo(p, PassOf(p)) = Idle
      BY <3>1, GoneTyped
    <3>3. AfterRemoval(p, q, d) = [GoneTo(p, PassOf(p)) EXCEPT !.todo = {}]
      BY <2>3 DEF AfterRemoval
    <3>4. AfterRemoval(p, q, d) \in Process /\ AfterRemoval(p, q, d).pc = PassOf(p)
      BY <3>2, <3>3 DEF Process
    <3>5. PassOf(p) = "idle" => AfterRemoval(p, q, d) = Idle
      <4>1. [Idle EXCEPT !.todo = {}] = Idle
        <5> DEFINE no == FALSE
                   nil == <<>>
                   zero == [day |-> 0, byte |-> 0]
        <5> HIDE DEF no, nil, zero
        <5> DEFINE m == [pc |-> "idle", id |-> 1, day |-> 0, unlinked |-> no, todo |-> {}, off |-> zero,
                         next |-> zero, batch |-> nil, since |-> 0, pairs |-> nil]
        <5>1. Idle = m
          BY DEF Idle, no, nil, zero
        <5>2. [m EXCEPT !.todo = {}] = m
          OBVIOUS
        <5> HIDE DEF m
        <5> QED  BY <5>1, <5>2
      <4> QED  BY <3>2, <3>3, <4>1
    <3> QED  BY <3>1, <3>4, <3>5 DEF Fit
  <2>4. CASE q # p /\ At(q, "write") /\ proc[q].day = d
    <3>1. AfterRemoval(p, q, d) = [proc[q] EXCEPT !.unlinked = TRUE]
      BY <2>4 DEF AfterRemoval
    <3>2. /\ AfterRemoval(p, q, d) \in Process /\ AfterRemoval(p, q, d).pc = "write"
          /\ AfterRemoval(p, q, d).unlinked
      BY <2>1, <2>4, <3>1 DEF Process, At
    <3> QED  BY <3>2 DEF Fit
  <2>5. CASE q # p /\ ~(At(q, "write") /\ proc[q].day = d)
    <3>1. AfterRemoval(p, q, d) = proc[q]
      BY <2>5 DEF AfterRemoval
    <3>2. proc[q].pc = "write" /\ ~proc[q].unlinked => proc[q].day \in live'
      BY <1>1, <2>1, <2>5 DEF Fit, At
    <3>3. proc[q].pc = "clean" => \A x \in proc[q].todo : NewerIn(live', x)
      BY <1>2, <2>1 DEF Fit
    <3> QED  BY <2>1, <3>1, <3>2, <3>3 DEF Fit
  <2> QED  BY <2>2, <2>3, <2>4, <2>5
<1>4. proc' \in [Procs -> Process] /\ \A q \in Procs : Fit(proc'[q], live')
  BY <1>1, <1>3
<1>5. log' \in [Days -> Seq(0..Torn)] /\ \A e \in Days \ live' : log'[e] = <<>>
  BY <1>1, EmptySeq DEF TypeOK
<1>6. TypeOK'
  BY <1>1, <1>4, <1>5 DEF TypeOK, ghosts
<1> QED  BY <1>4, <1>6 DEF Shape
LEMMA LoadTyped ==
  ASSUME TypeOK, Shape, NEW p \in Procs, Load(p)  PROVE  TypeOK' /\ Shape'
<1> DEFINE todo == {d \in live : d >= offset.day}
           m == [Idle EXCEPT !.pc = IF todo = {} THEN "decide" ELSE "read", !.id = proc[p].id, !.todo = todo,
                             !.off = offset, !.next = offset, !.since = now]
<1>1. /\ proc' = [proc EXCEPT ![p] = m] /\ shared' \in BOOLEAN
      /\ UNCHANGED <<now, entries, files, offset, counted, faults, wrote, late, handed, crossed, anchors>>
  BY DEF Load
<1>2. todo \in SUBSET Days /\ offset \in Offset /\ proc[p].id \in Ids /\ now \in 0..MaxNow
  BY DEF TypeOK, Process
<1> HIDE DEF todo
<1>3. m \in Process
  BY <1>2, IdleTyped DEF Process, Stages
<1>4. Fit(m, live')
  BY DEF Fit, Idle
<1> HIDE DEF m
<1>5. TypeOK'
  BY <1>1, <1>3 DEF TypeOK, files
<1>6. Shape'
  BY <1>1, <1>4, ShapeOfOne DEF files
<1> QED  BY <1>5, <1>6

\* The end of the last complete line lies between the start and the end.
LEMMA ConsumedTyped ==
  ASSUME NEW data \in Seq(0..Torn), NEW from \in 0..Len(data)
  PROVE  /\ Consumed(data, from) \in from..Len(data)
         /\ Consumed(data, from) = from \/ data[Consumed(data, from)] = NL
         /\ \A i \in from + 1..Len(data) : data[i] = NL => i <= Consumed(data, from)
<1> DEFINE ends == {from} \cup {i \in from + 1 .. Len(data) : data[i] = NL}
<1>1. Len(data) \in Nat
  BY LenProperties
<1>2. ends \in SUBSET (0..Len(data)) /\ ends # {}
  BY <1>1
<1>3. Max(ends) \in ends /\ \A y \in ends : Max(ends) >= y
  BY <1>1, <1>2, MaxExists
<1>4. Consumed(data, from) = Max(ends)
  BY DEF Consumed
<1> QED  BY <1>1, <1>3, <1>4

LEMMA EntriesTyped ==
  ASSUME NEW data \in Seq(0..Torn), NEW from \in Nat
  PROVE  EntriesAt(data, from) \in Seq(Ids)
<1>1. LinesAfter(data, from) \in SUBSET (1..Len(data))
  BY LenProperties DEF LinesAfter
<1>2. EntriesAt(data, from) \in Seq({data[i] : i \in LinesAfter(data, from)})
  BY <1>1, PickedTyped DEF EntriesAt
<1>3. {data[i] : i \in LinesAfter(data, from)} \subseteq Ids
  BY DEF LinesAfter
<1> QED  BY <1>2, <1>3, SeqMonotonic

\* Where a pass starts reading a segment.
From(p, d) == IF d = proc[p].off.day THEN Smaller(proc[p].off.byte, Len(log[d])) ELSE 0

AfterReading(p, d) ==
  [proc[p] EXCEPT
     !.todo  = proc[p].todo \ {d},
     !.pc    = IF proc[p].todo \ {d} = {} THEN "decide" ELSE "read",
     !.batch = IF d \in live THEN proc[p].batch \o EntriesAt(log[d], From(p, d)) ELSE proc[p].batch,
     !.next  = IF d \in live THEN [day |-> d, byte |-> Consumed(log[d], From(p, d))] ELSE proc[p].next]

LEMMA Reading ==
  ASSUME TypeOK, Shape, NEW p \in Procs, Read(p)
  PROVE  \E d \in proc[p].todo :
           /\ d \in Days /\ \A e \in proc[p].todo : d <= e /\ e \in Days
           /\ log[d] \in Seq(0..Torn) /\ From(p, d) \in 0..Len(log[d]) /\ Len(log[d]) \in Nat
           /\ proc' = [proc EXCEPT ![p] = AfterReading(p, d)]
           /\ At(p, "read")
           /\ UNCHANGED <<now, entries, files, offset, counted, faults, ghosts>>
<1> DEFINE d == Min(proc[p].todo)
<1>0. At(p, "read") /\ UNCHANGED <<now, entries, files, offset, counted, faults, ghosts>>
  BY DEF Read
<1>1. proc' = [proc EXCEPT ![p] = AfterReading(p, d)]
  BY Zenon DEF Read, AfterReading, From
<1>2. proc[p].todo # {} /\ proc[p].todo \in SUBSET Days /\ proc[p].off.byte \in Nat
  BY <1>0 DEF Shape, Fit, At, TypeOK, Process, Offset
<1>3. d \in proc[p].todo /\ \A e \in proc[p].todo : d <= e
  BY <1>2, MinExists, Constants
<1> HIDE DEF d
<1>4. d \in Days /\ log[d] \in Seq(0..Torn) /\ Len(log[d]) \in Nat
  BY <1>2, <1>3, LenProperties DEF TypeOK
<1>5. From(p, d) \in 0..Len(log[d])
  BY <1>2, <1>4 DEF From, Smaller
<1> QED  BY <1>0, <1>1, <1>2, <1>3, <1>4, <1>5

LEMMA ReadTyped ==
  ASSUME TypeOK, Shape, NEW p \in Procs, Read(p)  PROVE  TypeOK' /\ Shape'
<1>1. PICK d \in proc[p].todo :
           /\ d \in Days /\ \A e \in proc[p].todo : d <= e /\ e \in Days
           /\ log[d] \in Seq(0..Torn) /\ From(p, d) \in 0..Len(log[d]) /\ Len(log[d]) \in Nat
           /\ proc' = [proc EXCEPT ![p] = AfterReading(p, d)]
           /\ At(p, "read")
           /\ UNCHANGED <<now, entries, files, offset, counted, faults, ghosts>>
  BY Reading
<1>2. proc[p] \in Process /\ proc[p].batch \in Seq(Ids)
  BY DEF TypeOK, Process
<1>3. EntriesAt(log[d], From(p, d)) \in Seq(Ids) /\ Consumed(log[d], From(p, d)) \in Nat
  <2>1. From(p, d) \in Nat
    BY <1>1
  <2> QED  BY <1>1, <2>1, EntriesTyped, ConsumedTyped
<1>4. proc[p].batch \o EntriesAt(log[d], From(p, d)) \in Seq(Ids)
  BY <1>2, <1>3, ConcatProperties
<1>5. [day |-> d, byte |-> Consumed(log[d], From(p, d))] \in Offset
  BY <1>1, <1>3 DEF Offset
<1>6. AfterReading(p, d) \in Process
  BY <1>2, <1>4, <1>5 DEF AfterReading, Process, Stages
<1>7. Fit(AfterReading(p, d), live')
  BY <1>2 DEF AfterReading, Fit, Process
<1>8. TypeOK'
  BY <1>1, <1>6 DEF TypeOK, files, ghosts
<1>9. Shape'
  BY <1>1, <1>7, ShapeOfOne DEF files
<1> QED  BY <1>8, <1>9
LEMMA FrontTyped ==
  ASSUME NEW S, NEW s \in Seq(S), NEW n \in 0..Len(s)
  PROVE  SubSeq(s, 1, n) \in Seq(S)
<1>1. n \in Int /\ 1 \in Int /\ \A i \in 1..n : s[i] \in S
  BY LenProperties, ElementOfSeq
<1> QED  BY ONLY <1>1, SubSeqProperties

\* A piece between newlines stands somewhere in the text, and every line is one.
LEMMA PieceParts ==
  ASSUME NEW data \in Seq(0..Torn)
  PROVE  /\ \A i \in Pieces(data) : i \in 1..Len(data) /\ data[i] \in Ids
         /\ LinesAfter(data, 0) \subseteq Pieces(data)
<1> DEFINE more == Append(data, NL)
<1>1. /\ Len(data) \in Nat /\ Len(more) = Len(data) + 1 /\ more[Len(data) + 1] = NL
      /\ \A i \in 1..Len(data) : more[i] = data[i]
  OBVIOUS
<1> HIDE DEF more
<1>2. Pieces(data) = LinesAfter(more, 0)
  BY DEF Pieces, more
<1>3. \A i \in LinesAfter(more, 0) : i \in 1..Len(data) /\ data[i] \in Ids
  BY <1>1 DEF LinesAfter
<1>4. ASSUME NEW i \in LinesAfter(data, 0)  PROVE  i \in LinesAfter(more, 0)
  <2>1. /\ i \in 1..Len(data) - 1 /\ data[i] \in Ids /\ data[i + 1] = NL
        /\ i = 1 \/ data[i - 1] = NL
    BY <1>1 DEF LinesAfter
  <2>2. i \in 1..Len(data) /\ i + 1 \in 1..Len(data) /\ (i = 1 \/ i - 1 \in 1..Len(data))
    BY <1>1, <2>1
  <2> QED  BY <1>1, <2>1, <2>2 DEF LinesAfter
<1> QED  BY <1>2, <1>3, <1>4

LEMMA SeedTyped ==
  ASSUME TypeOK, NEW off \in Offset, NEW session
  PROVE  SeedFamily(off, session) \in 0..MaxEntries
<1> DEFINE before(d) == SubSeq(log[d], 1, IF d = off.day THEN Smaller(off.byte, Len(log[d])) ELSE Len(log[d]))
           recalls(d) == {i \in Pieces(before(d)) :
                            E(before(d)[i]).kind = "recall" /\ E(before(d)[i]).session = session}
           seen(d) == {i \in Pieces(before(d)) :
                         E(log[d][i]).kind = "recall" /\ E(log[d][i]).session = session}
           days == {d \in live : d <= off.day /\ seen(d) # {}}
<1>1. SeedFamily(off, session) = IF off = [day |-> 0, byte |-> 0] \/ days = {} THEN 0
                                 ELSE log[Max(days)][Max(seen(Max(days)))]
  BY DEF SeedFamily
<1>2. ASSUME NEW d \in Days, NEW i \in Pieces(before(d))
      PROVE  log[d][i] \in Ids /\ i \in 0..Len(log[d])
  <2> DEFINE n == IF d = off.day THEN Smaller(off.byte, Len(log[d])) ELSE Len(log[d])
  <2>1. log[d] \in Seq(0..Torn) /\ Len(log[d]) \in Nat
    BY LenProperties DEF TypeOK
  <2>2. n \in 0..Len(log[d])
    BY <2>1 DEF Smaller, Offset
  <2> HIDE DEF n
  <2>3. /\ Len(SubSeq(log[d], 1, n)) = n
        /\ \A j \in 1..n : SubSeq(log[d], 1, n)[j] = log[d][j]
    BY <2>1, <2>2
  <2> DEFINE part == SubSeq(log[d], 1, n)
  <2>4. i \in Pieces(part)
    BY DEF n
  <2>0. part \in Seq(0..Torn)
    BY <2>1, <2>2, FrontTyped
  <2> HIDE DEF part
  <2>5. i \in 1..Len(part) /\ part[i] \in Ids
    BY <2>0, <2>4, PieceParts
  <2>6. Len(part) = n /\ \A j \in 1..n : part[j] = log[d][j]
    BY <2>3 DEF part
  <2>7. i \in 1..n
    BY <2>2, <2>5, <2>6
  <2> QED  BY <2>1, <2>2, <2>5, <2>6, <2>7
<1>3. CASE days = {}
  <2>1. SeedFamily(off, session) = 0
    BY <1>1, <1>3, Zenon
  <2> QED  BY <2>1, Constants
<1>4. CASE days # {}
  <2>1. days \in SUBSET (0..(MaxNow \div TicksPerDay))
    BY DEF TypeOK, Days
  <2>2. Max(days) \in days
    BY <1>4, <2>1, MaxExists, Constants
  <2> DEFINE d == Max(days)
  <2> HIDE DEF days
  <2>3. d \in Days /\ seen(d) # {}
    BY <2>1, <2>2 DEF days, Days
  <2> HIDE DEF d
  <2>4. seen(d) \in SUBSET (0..Len(log[d])) /\ Len(log[d]) \in Nat
    <3>1. \A i \in seen(d) : i \in 0..Len(log[d])
      BY <1>2, <2>3
    <3> QED  BY <2>3, <3>1, LenProperties DEF TypeOK
  <2>5. Max(seen(d)) \in seen(d)
    BY <2>3, <2>4, MaxExists
  <2>6. log[d][Max(seen(d))] \in Ids
    BY <1>2, <2>3, <2>5
  <2> HIDE DEF seen
  <2> QED  BY <1>1, <2>6, Constants DEF d, Ids
<1> QED  BY <1>3, <1>4

LEMMA PairsTyped ==
  ASSUME TypeOK, NEW batch \in Seq(Ids), NEW off \in Offset
  PROVE  /\ PairsOf(batch, off) \in Seq(Pair)
         /\ \A k \in 1..Len(PairsOf(batch, off)) :
               /\ Nth({i \in Failures(batch) : Corrected(batch, i)}, k) \in 1..Len(batch)
               /\ PairsOf(batch, off)[k].f = batch[Nth({i \in Failures(batch) : Corrected(batch, i)}, k)]
         /\ Len(PairsOf(batch, off)) = Cardinality({i \in Failures(batch) : Corrected(batch, i)})
<1> DEFINE at == {i \in Failures(batch) : Corrected(batch, i)}
           pair(i) == [f |-> batch[i], s |-> batch[Min(Retries(batch, i))], family |-> Family(batch, off, i)]
<1>1. Len(batch) \in Nat /\ at \in SUBSET (1..Len(batch)) /\ at \subseteq Failures(batch)
  BY LenProperties DEF Failures
<1>2. Cardinality(at) \in Nat
  <2>1. IsFiniteSet(1..Len(batch))
    BY <1>1, FS_Interval
  <2> HIDE DEF at
  <2> QED  BY <1>1, <2>1, FS_Subset, FS_CardinalityType
<1>3. ASSUME NEW i \in at  PROVE  pair(i) \in Pair
  <2>1. i \in 1..Len(batch) /\ batch[i] \in Ids
    BY <1>1
  <2>2. Retries(batch, i) # {} /\ Retries(batch, i) \in SUBSET (1..Len(batch))
    BY <1>1, <2>1 DEF Corrected, Retries
  <2>3. batch[Min(Retries(batch, i))] \in Ids
    <3>1. Retries(batch, i) \in SUBSET Nat
      BY <2>2
    <3> QED  BY <2>2, <3>1, MinExists
  <2>4. Family(batch, off, i) \in 0..MaxEntries
    <3> DEFINE session == E(batch[i]).session
               recalls == {j \in 1..i - 1 : E(batch[j]).kind = "recall" /\ E(batch[j]).session = session}
    <3>1. Family(batch, off, i) = IF recalls = {} THEN SeedFamily(off, session) ELSE batch[Max(recalls)]
      BY DEF Family
    <3>2. recalls \in SUBSET (0..Len(batch)) /\ recalls \in SUBSET (1..Len(batch))
      BY <1>1, <2>1
    <3> HIDE DEF recalls, session
    <3>3. recalls # {} => Max(recalls) \in recalls
      BY <1>1, <3>2, MaxExists
    <3>4. ASSUME recalls # {}  PROVE  batch[Max(recalls)] \in Ids
      <4>1. Max(recalls) \in 1..Len(batch)
        BY <3>2, <3>3, <3>4
      <4> QED  BY <4>1, ElementOfSeq
    <3> QED  BY <3>1, <3>4, SeedTyped, Constants DEF Ids
  <2> QED  BY <2>1, <2>3, <2>4 DEF Pair
<1>4. PairsOf(batch, off) = [k \in 1..Cardinality(at) |-> pair(Nth(at, k))]
  BY DEF PairsOf
<1>5. \A k \in 1..Cardinality(at) : Nth(at, k) \in at
  <2> HIDE DEF at
  <2> QED  BY <1>1, NthExists
<1>6. \A k \in 1..Cardinality(at) : pair(Nth(at, k)) \in Pair /\ pair(Nth(at, k)).f = batch[Nth(at, k)]
  BY <1>3, <1>5
<1> HIDE DEF pair, at
<1>7. PairsOf(batch, off) \in Seq(Pair)
  BY <1>2, <1>4, <1>6, IsASeq
<1>8. Len(PairsOf(batch, off)) = Cardinality(at)
  BY <1>2, <1>4
<1> QED  BY <1>1, <1>4, <1>5, <1>6, <1>7, <1>8 DEF at

AfterDeciding(p) ==
  [proc[p] EXCEPT !.pairs = PairsOf(proc[p].batch, proc[p].off), !.since = 0, !.off = Idle.off,
                  !.pc = IF PairsOf(proc[p].batch, proc[p].off) = <<>> THEN "store" ELSE "derive"]

LEMMA Deciding ==
  ASSUME TypeOK, NEW p \in Procs, Decide(p)
  PROVE  /\ At(p, "decide") /\ proc[p] \in Process
         /\ \/ proc' = [proc EXCEPT ![p] = GoneTo(p, "idle")]
            \/ proc' = [proc EXCEPT ![p] = AfterDeciding(p)]
         /\ UNCHANGED <<now, entries, files, offset, counted, faults, wrote, late, handed, shared, anchors>>
<1>1. proc[p] \in Process
  BY DEF TypeOK
<1>2. At(p, "decide") /\ UNCHANGED <<now, entries, files, offset, counted, faults, wrote, late, handed, shared, anchors>>
  BY DEF Decide
<1> DEFINE pairs == PairsOf(proc[p].batch, proc[p].off)
<1>3. \/ proc' = [proc EXCEPT ![p] = GoneTo(p, "idle")]
      \/ proc' = [proc EXCEPT ![p].pairs = pairs, ![p].since = 0, ![p].off = Idle.off,
                              ![p].pc = IF pairs = <<>> THEN "store" ELSE "derive"]
  BY DEF Decide, Goto
<1>4. AfterDeciding(p) = [proc[p] EXCEPT !.pairs = pairs, !.since = 0, !.off = Idle.off,
                              !.pc = IF pairs = <<>> THEN "store" ELSE "derive"]
  BY DEF AfterDeciding
<1> HIDE DEF pairs
<1> QED  BY <1>1, <1>2, <1>3, <1>4 DEF TypeOK

LEMMA DecideTyped ==
  ASSUME TypeOK, Shape, NEW p \in Procs, Decide(p)  PROVE  TypeOK' /\ Shape'
<1>1. /\ At(p, "decide") /\ proc[p] \in Process
      /\ \/ proc' = [proc EXCEPT ![p] = GoneTo(p, "idle")]
         \/ proc' = [proc EXCEPT ![p] = AfterDeciding(p)]
      /\ UNCHANGED <<now, entries, files, offset, counted, faults, wrote, late, handed, shared, anchors>>
  BY Deciding
<1>2. crossed' \in SUBSET Ids
  <2> DEFINE b == proc[p].batch
             given == {b[i] : i \in {j \in Failures(b) : /\ Retries(b, j) = {}
                                                     /\ proc[p].since <= E(b[j]).ts + Window
                                                     /\ now > E(b[j]).ts + Window}}
  <2>1. crossed' = crossed \/ crossed' = crossed \cup given
    BY DEF Decide
  <2>2. b \in Seq(Ids)
    BY <1>1 DEF Process
  <2>3. given \subseteq Ids
    BY <2>2 DEF Failures
  <2> HIDE DEF given
  <2> QED  BY <2>1, <2>3 DEF TypeOK
<1>3. PairsOf(proc[p].batch, proc[p].off) \in Seq(Pair)
  BY <1>1, PairsTyped DEF Process
<1>4. Idle.off \in Offset
  BY IdleTyped DEF Process
<1>5. AfterDeciding(p) \in Process /\ Fit(AfterDeciding(p), live)
  <2>1. AfterDeciding(p) \in Process
    <3> DEFINE pairs == PairsOf(proc[p].batch, proc[p].off)
               stage == IF pairs = <<>> THEN "store" ELSE "derive"
    <3>1. AfterDeciding(p) = [proc[p] EXCEPT !.pairs = pairs, !.since = 0, !.off = Idle.off, !.pc = stage]
      BY DEF AfterDeciding
    <3>2. pairs \in Seq(Pair) /\ stage \in Stages /\ 0 \in 0..MaxNow
      BY <1>3, Constants DEF Stages
    <3> HIDE DEF pairs, stage
    <3> QED  BY <1>1, <1>4, <3>1, <3>2 DEF Process
  <2>2. /\ AfterDeciding(p).pc = IF PairsOf(proc[p].batch, proc[p].off) = <<>> THEN "store" ELSE "derive"
        /\ AfterDeciding(p).pairs = PairsOf(proc[p].batch, proc[p].off)
    BY <1>1 DEF AfterDeciding, Process
  <2> QED  BY <2>1, <2>2 DEF Fit
<1>6. GoneTo(p, "idle") \in Process /\ Fit(GoneTo(p, "idle"), live)
  BY GoneTyped, GoneFits DEF Stages
<1>7. \E m \in Process : proc' = [proc EXCEPT ![p] = m] /\ Fit(m, live)
  BY <1>1, <1>5, <1>6
<1>8. TypeOK'
  BY <1>1, <1>2, <1>7 DEF TypeOK, files
<1>9. Shape'
  BY <1>1, <1>7, ShapeOfOne DEF files
<1> QED  BY <1>8, <1>9

AfterDeriving(p) ==
  [proc[p] EXCEPT !.pairs = Tail(proc[p].pairs),
                  !.pc = IF Len(proc[p].pairs) = 1 THEN "store" ELSE "derive"]

LEMMA Deriving ==
  ASSUME TypeOK, Shape, NEW p \in Procs, Derive(p)
  PROVE  /\ At(p, "derive") /\ proc[p] \in Process /\ proc[p].pairs \in Seq(Pair) /\ proc[p].pairs # <<>>
         /\ Head(proc[p].pairs) \in Pair /\ Head(proc[p].pairs).f \in Ids
         /\ counted' = [counted EXCEPT ![Head(proc[p].pairs).f] = @ + 1]
         /\ proc' = [proc EXCEPT ![p] = AfterDeriving(p)]
         /\ anchors' = anchors \cup {Head(proc[p].pairs)}
         /\ UNCHANGED <<now, entries, files, offset, faults, wrote, late, handed, crossed, shared>>
<1>1. At(p, "derive") /\ proc[p] \in Process /\ proc[p].pairs \in Seq(Pair) /\ proc[p].pairs # <<>>
  BY DEF Derive, At, TypeOK, Process, Shape, Fit
<1>2. Head(proc[p].pairs) \in Pair
  BY <1>1
<1>3. Head(proc[p].pairs).f \in Ids
  BY <1>2 DEF Pair
<1>4. proc' = [proc EXCEPT ![p] = AfterDeriving(p)]
  BY <1>1 DEF Derive, AfterDeriving, TypeOK
<1>5. /\ counted' = [counted EXCEPT ![Head(proc[p].pairs).f] = @ + 1]
      /\ anchors' = anchors \cup {Head(proc[p].pairs)}
      /\ UNCHANGED <<now, entries, files, offset, faults, wrote, late, handed, crossed, shared>>
  BY DEF Derive
<1> QED  BY <1>1, <1>2, <1>3, <1>4, <1>5

LEMMA DeriveTyped ==
  ASSUME TypeOK, Shape, NEW p \in Procs, Derive(p)  PROVE  TypeOK' /\ Shape'
<1> DEFINE pairs == proc[p].pairs
<1>1. /\ At(p, "derive") /\ proc[p] \in Process /\ pairs \in Seq(Pair) /\ pairs # <<>>
      /\ Head(pairs) \in Pair /\ Head(pairs).f \in Ids
      /\ counted' = [counted EXCEPT ![Head(pairs).f] = @ + 1]
      /\ proc' = [proc EXCEPT ![p] = AfterDeriving(p)]
      /\ anchors' = anchors \cup {Head(pairs)}
      /\ UNCHANGED <<now, entries, files, offset, faults, wrote, late, handed, crossed, shared>>
  BY Deriving
<1>2. Tail(pairs) \in Seq(Pair) /\ (Len(pairs) # 1 => Tail(pairs) # <<>>)
  <2>1. pairs \in Seq(Pair) /\ pairs # <<>>
    BY <1>1
  <2> HIDE DEF pairs
  <2>2. Tail(pairs) \in Seq(Pair) /\ Len(Tail(pairs)) = Len(pairs) - 1 /\ Len(pairs) \in Nat
    BY <2>1, HeadTailProperties, LenProperties
  <2>3. Len(pairs) # 1 => Len(Tail(pairs)) # 0
    BY <2>2
  <2> QED  BY <2>2, <2>3, EmptySeq
<1>3. /\ AfterDeriving(p) \in Process
      /\ AfterDeriving(p).pairs = Tail(pairs)
      /\ AfterDeriving(p).pc = IF Len(pairs) = 1 THEN "store" ELSE "derive"
  BY <1>1, <1>2 DEF AfterDeriving, Process, Stages
<1>4. Fit(AfterDeriving(p), live')
  BY <1>2, <1>3 DEF Fit
<1>5. counted' \in [Ids -> Nat] /\ anchors' \subseteq Pair
  BY <1>1 DEF TypeOK
<1>6. TypeOK'
  BY <1>1, <1>3, <1>5 DEF TypeOK, files
<1>7. Shape'
  BY <1>1, <1>4, ShapeOfOne DEF files
<1> QED  BY <1>6, <1>7

LEMMA StoreTyped ==
  ASSUME TypeOK, Shape, NEW p \in Procs, StoreOffset(p)  PROVE  TypeOK' /\ Shape'
<1>1. /\ proc' = [proc EXCEPT ![p] = GoneTo(p, "idle")] /\ offset' = proc[p].next
      /\ handed' = handed \cup Range(proc[p].batch)
      /\ UNCHANGED <<now, entries, files, counted, faults, wrote, late, crossed, shared, anchors>>
  BY DEF StoreOffset, Goto
<1>2. proc[p].next \in Offset /\ proc[p].batch \in Seq(Ids)
  BY DEF TypeOK, Process
<1>3. Range(proc[p].batch) \subseteq Ids
  BY <1>2 DEF Range
<1>4. GoneTo(p, "idle") \in Process /\ Fit(GoneTo(p, "idle"), live')
  BY GoneTyped, GoneFits DEF Stages
<1>5. TypeOK'
  BY <1>1, <1>2, <1>3, <1>4 DEF TypeOK, files
<1>6. Shape'
  BY <1>1, <1>4, ShapeOfOne DEF files
<1> QED  BY <1>5, <1>6

LEMMA StopTyped ==
  ASSUME TypeOK, Shape, NEW p \in Procs, Stop(p)  PROVE  TypeOK' /\ Shape'
<1>1. /\ proc' = [proc EXCEPT ![p] = GoneTo(p, "idle")] /\ faults < MaxFaults /\ faults' = faults + 1
      /\ shared' \in BOOLEAN
      /\ UNCHANGED <<now, entries, files, offset, counted, wrote, late, handed, crossed, anchors>>
  BY DEF Stop, Goto
<1>2. GoneTo(p, "idle") \in Process /\ Fit(GoneTo(p, "idle"), live')
  BY GoneTyped, GoneFits DEF Stages
<1>3. TypeOK'
  BY <1>1, <1>2, Constants DEF TypeOK, files
<1>4. Shape'
  BY <1>1, <1>2, ShapeOfOne DEF files
<1> QED  BY <1>3, <1>4

LEMMA StepTyped == TypeOK /\ Shape /\ [Next]_vars => TypeOK' /\ Shape'
<1> SUFFICES ASSUME TypeOK, Shape, [Next]_vars  PROVE  TypeOK' /\ Shape'
  OBVIOUS
<1>1. CASE Tick
  BY <1>1, TickTyped
<1>2. CASE \E p \in Procs, s \in Sessions, k \in Kinds : Begin(p, s, k)
  BY <1>2, BeginTyped
<1>3. CASE \E p \in Procs : Fix(p) \/ Write(p) \/ RemoveSegment(p)
  BY <1>3, FixTyped, WriteTyped, RemoveTyped
<1>4. CASE \E p \in Procs, survives \in BOOLEAN : WriteTorn(p, survives)
  BY <1>4, WriteTornTyped
<1>5. CASE \E p \in Procs : Load(p) \/ Read(p) \/ Decide(p)
  BY <1>5, LoadTyped, ReadTyped, DecideTyped
<1>6. CASE \E p \in Procs : Derive(p) \/ StoreOffset(p) \/ Stop(p)
  BY <1>6, DeriveTyped, StoreTyped, StopTyped
<1>7. CASE UNCHANGED vars
  BY <1>7 DEF vars, files, ghosts, TypeOK, Shape
<1> QED  BY <1>1, <1>2, <1>3, <1>4, <1>5, <1>6, <1>7 DEF Next

\* Every process, segment and offset keeps its type.
THEOREM Typed == Spec => [](TypeOK /\ Shape)
BY Started, StepTyped, PTL DEF Spec

-----------------------------------------------------------------------------
(***************************************************************************)
(* Nothing behind the offset is skipped.                                   *)
(*                                                                         *)
(* An offset is settled when no line can come up behind it any more except *)
(* a late one: its segment, or a newer one, still exists, and it is at the *)
(* start of that segment, or behind a newline, or the segment is closed.   *)
(* Appends land behind the last newline, and cleanup never takes the       *)
(* newest segment, so a settled offset stays settled.                      *)
(***************************************************************************)
LinesOf(alive, held) ==
  UNION {{[id |-> held[d][k], day |-> d, at |-> k] : k \in LinesAfter(held[d], 0)} : d \in alive}

BehindAt(x, o) == x.day < o.day \/ (x.day = o.day /\ x.at <= o.byte)
ReachedIn(alive, d) == \E e \in alive : e >= d
Settled(o, alive, held) ==
  /\ ReachedIn(alive, o.day) \/ (o.day = 0 /\ o.byte = 0)
  /\ \/ o.byte = 0
     \/ NewerIn(alive, o.day)
     \/ o.day \in alive /\ o.byte <= Len(held[o.day]) /\ held[o.day][o.byte] = NL

\* A pass: where it began and where it got are settled, and the lines behind
\* are handed over or in its batch; while it reads, each line in front of a
\* segment it has still to read is behind it already, or in one of those.
Safe(m, alive, held, rows, hand) ==
  m.pc \in {"read", "decide", "derive", "store"} =>
    /\ Settled(m.next, alive, held) /\ Settled(m.off, alive, held)
    /\ \A x \in rows : BehindAt(x, m.next) => x.id \in hand \cup Range(m.batch)
    /\ m.pc = "read" =>
         /\ \A x \in rows : BehindAt(x, m.off) => x.id \in hand
         /\ \A d \in m.todo :
              /\ ReachedIn(alive, d) /\ m.next.day <= d
              /\ \A x \in rows : x.day < d => BehindAt(x, m.next) \/ x.day \in m.todo

Sound ==
  /\ Settled(offset, live, log)
  /\ NothingSkipped
  /\ \A p \in Procs : Safe(proc[p], live, log, OnTime, handed)

\* What a step does to the files: offsets stay settled, segments stay reached,
\* the lines behind them are those that were there, and new ones come up behind
\* all of those that are on time.
FilesKept ==
  /\ \A o \in Offset : Settled(o, live, log) =>
       /\ Settled(o, live', log')
       /\ \A x \in OnTime' : BehindAt(x, o) => x \in OnTime
  /\ \A d \in Days : ReachedIn(live, d) =>
       /\ ReachedIn(live', d)
       /\ \A x \in OnTime' : x.day < d => x \in OnTime
  /\ \A x \in OnTime' : x \in OnTime \/ \A y \in OnTime : Before(y, x)

LEMMA LineParts ==
  ASSUME NEW alive, NEW held, NEW x
  PROVE  x \in LinesOf(alive, held) <=>
           \E d \in alive : \E k \in LinesAfter(held[d], 0) : x = [id |-> held[d][k], day |-> d, at |-> k]
<1> DEFINE part(d) == {[id |-> held[d][k], day |-> d, at |-> k] : k \in LinesAfter(held[d], 0)}
<1>1. LinesOf(alive, held) = UNION {part(d) : d \in alive}
  BY DEF LinesOf
<1>2. \A d \in alive : x \in part(d) <=> \E k \in LinesAfter(held[d], 0) : x = [id |-> held[d][k], day |-> d, at |-> k]
  BY Zenon
<1> HIDE DEF part
<1>3. x \in UNION {part(d) : d \in alive} <=> \E d \in alive : x \in part(d)
  BY Zenon
<1> QED  BY <1>1, <1>2, <1>3, Zenon

LEMMA LinesAre ==
  /\ Lines = LinesOf(live, log) /\ Lines' = LinesOf(live', log')
  /\ OnTime = {x \in LinesOf(live, log) : x.id \notin late}
  /\ OnTime' = {x \in LinesOf(live', log') : x.id \notin late'}
BY DEF Lines, LinesOf, OnTime

LEMMA OnTimeParts ==
  /\ \A x : x \in OnTime <=>
       /\ x.id \notin late
       /\ \E d \in live : \E k \in LinesAfter(log[d], 0) : x = [id |-> log[d][k], day |-> d, at |-> k]
  /\ \A x : x \in OnTime' <=>
       /\ x.id \notin late'
       /\ \E d \in live' : \E k \in LinesAfter(log'[d], 0) : x = [id |-> log'[d][k], day |-> d, at |-> k]
<1>1. \A x : x \in OnTime <=> x.id \notin late /\ x \in LinesOf(live, log)
  BY LinesAre
<1>2. \A x : x \in OnTime' <=> x.id \notin late' /\ x \in LinesOf(live', log')
  BY LinesAre
<1>3. \A x : x \in LinesOf(live, log) <=>
        \E d \in live : \E k \in LinesAfter(log[d], 0) : x = [id |-> log[d][k], day |-> d, at |-> k]
  BY LineParts
<1>4. \A x : x \in LinesOf(live', log') <=>
        \E d \in live' : \E k \in LinesAfter(log'[d], 0) : x = [id |-> log'[d][k], day |-> d, at |-> k]
  BY LineParts
<1> QED  BY <1>1, <1>2, <1>3, <1>4, Zenon

LEMMA LineIn ==
  ASSUME NEW alive \in SUBSET Days, NEW held \in [Days -> Seq(0..Torn)], NEW x \in LinesOf(alive, held)
  PROVE  /\ x.day \in alive /\ x.day \in Days /\ x.day \in Nat /\ x.at \in Nat \ {0} /\ x.id \in Ids
         /\ x.id = held[x.day][x.at] /\ x.at \in LinesAfter(held[x.day], 0)
         /\ x.at \in 1..Len(held[x.day]) /\ x.at < Len(held[x.day]) /\ Len(held[x.day]) \in Nat
         /\ x = [id |-> x.id, day |-> x.day, at |-> x.at]
<1>1. PICK d \in alive : \E k \in LinesAfter(held[d], 0) : x = [id |-> held[d][k], day |-> d, at |-> k]
  BY LineParts
<1>2. PICK k \in LinesAfter(held[d], 0) : x = [id |-> held[d][k], day |-> d, at |-> k]
  BY <1>1
<1>3. x.day = d /\ x.at = k /\ x.id = held[d][k] /\ x = [id |-> x.id, day |-> x.day, at |-> x.at]
  BY <1>2
<1>4. d \in Days /\ d \in Nat /\ Len(held[d]) \in Nat
  BY Constants, LenProperties
<1>5. k \in 0 + 1 .. Len(held[d]) - 1 /\ held[d][k] \in Ids
  BY <1>2 DEF LinesAfter
<1>6. k \in Nat \ {0} /\ k \in 1..Len(held[d]) /\ k < Len(held[d])
  BY <1>4, <1>5
<1> QED  BY <1>2, <1>3, <1>4, <1>5, <1>6

LEMMA LineTyped ==
  ASSUME TypeOK, NEW x \in Lines
  PROVE  /\ x.day \in live /\ x.day \in Days /\ x.day \in Nat /\ x.at \in Nat \ {0} /\ x.id \in Ids
         /\ x.id = log[x.day][x.at] /\ x.at \in LinesAfter(log[x.day], 0)
         /\ x.at \in 1..Len(log[x.day]) /\ x.at < Len(log[x.day]) /\ Len(log[x.day]) \in Nat
         /\ x = [id |-> x.id, day |-> x.day, at |-> x.at]
<1>1. live \in SUBSET Days /\ log \in [Days -> Seq(0..Torn)]
  BY DEF TypeOK
<1>2. x \in LinesOf(live, log)
  BY LinesAre
<1> QED  BY <1>1, <1>2, LineIn

LEMMA OnTimeLines == OnTime = {x \in Lines : x.id \notin late} /\ OnTime' = {x \in Lines' : x.id \notin late'}
BY DEF OnTime

\* The files as they were.
LEMMA FilesSame ==
  ASSUME UNCHANGED <<live, log, late>>
  PROVE  FilesKept
<1>1. OnTime' = OnTime
  BY LinesAre
<1> QED  BY <1>1 DEF FilesKept

LEMMA SettledGrows ==
  ASSUME NEW alive, NEW more, NEW held, NEW o, alive \subseteq more, Settled(o, alive, held)
  PROVE  Settled(o, more, held)
BY DEF Settled, ReachedIn, NewerIn

\* A segment that is created is empty.
LEMMA FilesGrow ==
  ASSUME TypeOK, TypeOK', live \subseteq live', UNCHANGED <<log, late>>
  PROVE  FilesKept
<1>1. ASSUME NEW x \in OnTime'  PROVE  x \in OnTime
  <2>1. x.id \notin late
    BY OnTimeParts
  <2>2. PICK d \in live' : \E k \in LinesAfter(log[d], 0) : x = [id |-> log[d][k], day |-> d, at |-> k]
    BY OnTimeParts
  <2>3. d \in live
    <3>1. SUFFICES ASSUME d \notin live  PROVE  FALSE
      OBVIOUS
    <3>2. log[d] = <<>>
      BY <3>1 DEF TypeOK
    <3>3. LinesAfter(log[d], 0) = {}
      <4>1. Len(<<>>) = 0
        BY EmptySeq
      <4> QED  BY <3>2, <4>1 DEF LinesAfter
    <3> QED  BY <2>2, <3>3
  <2> QED  BY <2>1, <2>2, <2>3, OnTimeParts
<1>2. \A o \in Offset : Settled(o, live, log) => Settled(o, live', log')
  BY SettledGrows
<1>3. \A d \in Days : ReachedIn(live, d) => ReachedIn(live', d)
  BY DEF ReachedIn
<1> QED  BY <1>1, <1>2, <1>3 DEF FilesKept

\* A segment that is deleted has a newer one.
LEMMA FilesShrink ==
  ASSUME TypeOK, NEW d \in Days, NewerIn(live, d), live' = live \ {d}, log' = [log EXCEPT ![d] = <<>>],
         late' = late
  PROVE  FilesKept
<1>1. PICK f \in live : f > d
  BY DEF NewerIn
<1>2. f \in live' /\ f \in Nat /\ d \in Nat /\ live \subseteq Nat
  BY <1>1, Constants DEF TypeOK
<1>3. ASSUME NEW x \in OnTime'  PROVE  x \in OnTime
  <2>1. x.id \notin late
    BY OnTimeParts
  <2>2. PICK e \in live' : \E k \in LinesAfter(log'[e], 0) : x = [id |-> log'[e][k], day |-> e, at |-> k]
    BY OnTimeParts
  <2>3. e \in live /\ log'[e] = log[e]
    BY DEF TypeOK
  <2> QED  BY <2>1, <2>2, <2>3, OnTimeParts
<1>4. ASSUME NEW e \in Days, ReachedIn(live, e)  PROVE  ReachedIn(live', e)
  <2>1. PICK g \in live : g >= e
    BY <1>4 DEF ReachedIn
  <2>2. e \in Nat /\ g \in Nat
    BY <1>2, Constants
  <2>3. CASE g = d
    BY <1>1, <1>2, <2>1, <2>2, <2>3 DEF ReachedIn
  <2>4. CASE g # d
    BY <2>1, <2>4 DEF ReachedIn
  <2> QED  BY <2>3, <2>4
<1>5. ASSUME NEW e \in Days, NewerIn(live, e)  PROVE  NewerIn(live', e)
  <2>1. PICK g \in live : g > e
    BY <1>5 DEF NewerIn
  <2>2. e \in Nat /\ g \in Nat
    BY <1>2, Constants
  <2>3. CASE g = d
    BY <1>1, <1>2, <2>1, <2>2, <2>3 DEF NewerIn
  <2>4. CASE g # d
    BY <2>1, <2>4 DEF NewerIn
  <2> QED  BY <2>3, <2>4
<1>6. ASSUME NEW o \in Offset, Settled(o, live, log)  PROVE  Settled(o, live', log')
  <2>1. o.day \in Days
    BY DEF Offset
  <2>2. o.day = d => NewerIn(live', o.day)
    BY <1>5
  <2>3. o.day # d /\ o.day \in live => o.day \in live' /\ log'[o.day] = log[o.day]
    BY <2>1 DEF TypeOK
  <2> QED  BY <1>4, <1>5, <1>6, <2>1, <2>2, <2>3 DEF Settled
<1> QED  BY <1>3, <1>4, <1>6 DEF FilesKept
\* Appending changes no line that was there; a line it completes ends behind
\* what the segment held.
LEMMA LinesAppended ==
  ASSUME NEW data \in Seq(0..Torn), NEW piece \in Seq(0..Torn), NEW k \in LinesAfter(data \o piece, 0)
  PROVE  /\ k \in Nat \ {0} /\ (data \o piece)[k] \in Ids
         /\ k \in LinesAfter(data, 0) => (data \o piece)[k] = data[k]
         /\ k \notin LinesAfter(data, 0) => k >= Len(data)
         /\ Len(data) <= Len(data \o piece) /\ \A i \in 1..Len(data) : (data \o piece)[i] = data[i]
<1> DEFINE both == data \o piece
<1>1. /\ Len(data) \in Nat /\ Len(piece) \in Nat /\ Len(both) = Len(data) + Len(piece)
      /\ \A i \in 1..Len(data) : both[i] = data[i]
  BY ConcatProperties, LenProperties
<1> HIDE DEF both
<1>2. k \in LinesAfter(both, 0)
  BY DEF both
<1>3. k \in 0 + 1 .. Len(both) - 1 /\ both[k] \in Ids /\ both[k + 1] = NL /\ (k = 0 + 1 \/ both[k - 1] = NL)
  BY <1>2 DEF LinesAfter
<1>4. k \in Nat \ {0}
  BY <1>1, <1>3
<1>5. ASSUME ~(k >= Len(data))  PROVE  k \in LinesAfter(data, 0)
  <2>1. k \in 0 + 1..Len(data) - 1 /\ k \in 1..Len(data) /\ k + 1 \in 1..Len(data)
    BY <1>1, <1>4, <1>5
  <2>2. k = 1 \/ k - 1 \in 1..Len(data)
    BY <2>1, <1>1
  <2>3. data[k] \in Ids /\ data[k + 1] = NL /\ (k = 0 + 1 \/ data[k - 1] = NL)
    BY <1>1, <1>3, <2>1, <2>2
  <2> QED  BY <2>1, <2>3 DEF LinesAfter
<1>6. k \in LinesAfter(data, 0) => k \in 1..Len(data)
  BY <1>1 DEF LinesAfter
<1>7. Len(data) <= Len(both)
  BY <1>1
<1> QED  BY <1>1, <1>3, <1>4, <1>5, <1>6, <1>7 DEF both

LEMMA FilesAppend ==
  ASSUME TypeOK, NEW d \in live, NEW piece \in Seq(0..Torn), AppendTo(d, piece), live' = live
  PROVE  FilesKept
<1> DEFINE data  == log[d] \o piece
           fresh == {data[i] : i \in LinesAfter(data, 0) \ LinesAfter(log[d], 0)}
<1>1. log' = [log EXCEPT ![d] = data] /\ late' = IF NewerIn(live, d) THEN late \cup fresh ELSE late
  BY DEF AppendTo, NewerIn
<1>2. d \in Days /\ d \in Nat /\ live \subseteq Nat /\ log[d] \in Seq(0..Torn) /\ Len(log[d]) \in Nat /\ log'[d] = data
  BY <1>1, Constants, LenProperties DEF TypeOK
<1>3. late \subseteq late'
  <2> HIDE DEF fresh
  <2> QED  BY <1>1
<1>4. ASSUME NEW x \in OnTime', x \notin OnTime
      PROVE  /\ x.day = d /\ ~NewerIn(live, d) /\ x.at \in Nat \ {0} /\ x.at >= Len(log[d])
             /\ data[x.at] \in Ids
  <2>1. PICK e \in live : \E k \in LinesAfter(log'[e], 0) : x = [id |-> log'[e][k], day |-> e, at |-> k]
    BY OnTimeParts
  <2>0. PICK k \in LinesAfter(log'[e], 0) : x = [id |-> log'[e][k], day |-> e, at |-> k]
    BY <2>1
  <2>2. x.id = log'[e][k] /\ x.day = e /\ x.at = k /\ x.id \notin late' /\ x.id \notin late
    BY <1>3, <1>4, <2>0, OnTimeParts
  <2>3. e = d
    <3>1. SUFFICES ASSUME e # d  PROVE  FALSE
      OBVIOUS
    <3>2. log'[e] = log[e]
      BY <1>1, <3>1 DEF TypeOK
    <3> QED  BY <1>4, <2>0, <2>2, <3>2, OnTimeParts
  <2>4. k \in LinesAfter(data, 0) /\ x.id = data[k]
    BY <1>2, <2>0, <2>2, <2>3
  <2>5. /\ k \in Nat \ {0} /\ data[k] \in Ids
        /\ k \in LinesAfter(log[d], 0) => data[k] = log[d][k]
        /\ k \notin LinesAfter(log[d], 0) => k >= Len(log[d])
    BY <1>2, <2>4, LinesAppended
  <2>6. k \notin LinesAfter(log[d], 0)
    <3>1. SUFFICES ASSUME k \in LinesAfter(log[d], 0)  PROVE  FALSE
      OBVIOUS
    <3>2. x = [id |-> log[d][k], day |-> d, at |-> k]
      BY <1>2, <2>0, <2>3, <2>5, <3>1
    <3> QED  BY <1>4, <2>2, <3>1, <3>2, OnTimeParts
  <2>7. x.id \in fresh
    BY <2>4, <2>6
  <2>8. ~NewerIn(live, d)
    <3> HIDE DEF fresh, data
    <3> QED  BY <1>1, <2>2, <2>7
  <2> QED  BY <2>2, <2>3, <2>5, <2>6, <2>8
<1>8. ASSUME NEW x \in OnTime', x \notin OnTime, NEW y \in OnTime  PROVE  Before(y, x)
  <2>1. x.day = d /\ ~NewerIn(live, d) /\ x.at \in Nat /\ x.at >= Len(log[d])
    BY <1>4, <1>8
  <2>2. y \in Lines
    BY OnTimeLines
  <2>3. y.day \in live /\ y.day \in Nat /\ y.at \in Nat /\ y.at < Len(log[y.day])
    BY <2>2, LineTyped
  <2>4. ~(y.day > d)
    BY <2>1, <2>3 DEF NewerIn
  <2> QED  BY <1>2, <2>1, <2>3, <2>4 DEF Before
<1>5. ASSUME NEW e \in Days, ReachedIn(live, e), NEW x \in OnTime', x.day < e  PROVE  x \in OnTime
  <2>1. SUFFICES ASSUME x \notin OnTime  PROVE  FALSE
    OBVIOUS
  <2>2. x.day = d /\ ~NewerIn(live, d)
    BY <1>4, <2>1
  <2>3. PICK g \in live : g >= e
    BY <1>5 DEF ReachedIn
  <2>4. e \in Nat /\ g \in Nat /\ g > d
    BY <1>2, <1>5, <2>2, <2>3, Constants
  <2> QED  BY <2>2, <2>4 DEF NewerIn
<1>6. ASSUME NEW o \in Offset, Settled(o, live, log), NEW x \in OnTime', BehindAt(x, o)  PROVE  x \in OnTime
  <2>1. SUFFICES ASSUME x \notin OnTime  PROVE  FALSE
    OBVIOUS
  <2>2. /\ x.day = d /\ ~NewerIn(live, d) /\ x.at \in Nat \ {0} /\ x.at >= Len(log[d])
        /\ data[x.at] \in Ids
    BY <1>4, <2>1
  <2>3. o.day \in Days /\ o.day \in Nat /\ o.byte \in Nat
    BY Constants DEF Offset
  <2>4. ~(x.day < o.day)
    <3>1. SUFFICES ASSUME x.day < o.day  PROVE  FALSE
      OBVIOUS
    <3>2. ReachedIn(live, o.day)
      BY <1>2, <1>6, <2>2, <2>3, <3>1 DEF Settled
    <3> QED  BY <1>5, <2>1, <2>3, <3>1, <3>2
  <2>5. x.day = o.day /\ x.at <= o.byte
    BY <1>6, <2>4 DEF BehindAt
  <2>6. o.byte <= Len(log[d]) /\ log[d][o.byte] = NL
    BY <1>6, <2>2, <2>3, <2>5 DEF Settled
  <2>7. o.byte = x.at /\ o.byte \in 1..Len(log[d])
    BY <1>2, <2>2, <2>3, <2>5, <2>6
  <2>8. data[o.byte] = log[d][o.byte]
    BY <1>2, <2>7, ConcatProperties
  <2> QED  BY <2>2, <2>6, <2>7, <2>8, Constants
<1>7. ASSUME NEW o \in Offset, Settled(o, live, log)  PROVE  Settled(o, live', log')
  <2>1. CASE o.day = d
    <3>1. Len(log[d]) <= Len(data) /\ \A i \in 1..Len(log[d]) : data[i] = log[d][i]
      BY <1>2, ConcatProperties, LenProperties
    <3>2. o.byte \in Nat /\ Len(data) \in Nat
      BY <1>2, ConcatProperties, LenProperties DEF Offset
    <3> HIDE DEF data
    <3>3. o.byte # 0 /\ o.byte <= Len(log[d]) /\ log[d][o.byte] = NL => o.byte <= Len(log'[d]) /\ log'[d][o.byte] = NL
      BY <1>2, <3>1, <3>2
    <3> QED  BY <1>7, <2>1, <3>3 DEF Settled
  <2>2. CASE o.day # d
    <3>1. o.day \in live => log'[o.day] = log[o.day]
      BY <1>1, <2>2 DEF TypeOK
    <3> QED  BY <1>7, <3>1 DEF Settled
  <2> QED  BY <2>1, <2>2
<1> QED  BY <1>5, <1>6, <1>7, <1>8 DEF FilesKept
InPassAt(m) == m.pc \in {"read", "decide", "derive", "store"}

\* A pass that a step leaves alone stays safe.
LEMMA SafeKept ==
  ASSUME FilesKept, handed \subseteq handed', NEW m \in Process, Safe(m, live, log, OnTime, handed)
  PROVE  Safe(m, live', log', OnTime', handed')
<1> SUFFICES ASSUME InPassAt(m)  PROVE  Safe(m, live', log', OnTime', handed')
  BY DEF Safe, InPassAt
<1>1. m.next \in Offset /\ m.off \in Offset /\ m.todo \subseteq Days
  BY DEF Process
<1>2. /\ Settled(m.next, live, log) /\ Settled(m.off, live, log)
      /\ \A x \in OnTime : BehindAt(x, m.next) => x.id \in handed \cup Range(m.batch)
      /\ m.pc = "read" =>
           /\ \A x \in OnTime : BehindAt(x, m.off) => x.id \in handed
           /\ \A d \in m.todo :
                /\ ReachedIn(live, d) /\ m.next.day <= d
                /\ \A x \in OnTime : x.day < d => BehindAt(x, m.next) \/ x.day \in m.todo
  BY DEF Safe, InPassAt
<1>3. Settled(m.next, live', log') /\ Settled(m.off, live', log')
  BY <1>1, <1>2 DEF FilesKept
<1>4. \A x \in OnTime' : BehindAt(x, m.next) => x.id \in handed' \cup Range(m.batch)
  BY <1>1, <1>2 DEF FilesKept
<1>5. \A x \in OnTime' : BehindAt(x, m.off) => x \in OnTime
  BY <1>1, <1>2 DEF FilesKept
<1>6. \A d \in m.todo : ReachedIn(live, d) => ReachedIn(live', d) /\ \A x \in OnTime' : x.day < d => x \in OnTime
  BY <1>1 DEF FilesKept
<1>7. m.pc = "read" =>
           /\ \A x \in OnTime' : BehindAt(x, m.off) => x.id \in handed'
           /\ \A d \in m.todo :
                /\ ReachedIn(live', d) /\ m.next.day <= d
                /\ \A x \in OnTime' : x.day < d => BehindAt(x, m.next) \/ x.day \in m.todo
  BY <1>2, <1>5, <1>6
<1> QED  BY <1>3, <1>4, <1>7 DEF Safe

\* A step that leaves the offset alone: every process is as it was, or in no
\* pass, or safe.
LEMMA SoundStep ==
  ASSUME TypeOK, Sound, FilesKept, UNCHANGED <<offset, handed>>,
         \A q \in Procs : \/ proc'[q] = proc[q] \/ ~InPassAt(proc'[q])
                          \/ Safe(proc'[q], live', log', OnTime', handed')
  PROVE  Sound'
<1>1. Settled(offset, live, log)' /\ \A x \in OnTime' : BehindAt(x, offset) => x \in OnTime
  <2>1. offset \in Offset /\ Settled(offset, live, log)
    BY DEF TypeOK, Sound
  <2> QED  BY <2>1 DEF FilesKept
<1>2. NothingSkipped'
  <2>1. \A x \in OnTime : BehindAt(x, offset) => x.id \in handed
    BY DEF Sound, NothingSkipped, Behind, BehindAt
  <2>2. \A x \in OnTime' : BehindAt(x, offset) => x.id \in handed'
    BY <1>1, <2>1
  <2>3. \A x \in OnTime' : Behind(x)' => BehindAt(x, offset)
    BY DEF Behind, BehindAt
  <2> QED  BY <2>2, <2>3 DEF NothingSkipped, Behind
<1>3. ASSUME NEW q \in Procs  PROVE  Safe(proc'[q], live', log', OnTime', handed')
  <2>1. CASE proc'[q] = proc[q]
    <3>1. proc[q] \in Process /\ Safe(proc[q], live, log, OnTime, handed) /\ handed \subseteq handed'
      BY DEF TypeOK, Sound
    <3>2. Safe(proc[q], live', log', OnTime', handed')
      BY <3>1, SafeKept
    <3> QED  BY <2>1, <3>2
  <2>2. CASE ~InPassAt(proc'[q])
    BY <2>2 DEF Safe, InPassAt
  <2> QED  BY <2>1, <2>2
<1> QED  BY <1>1, <1>2, <1>3 DEF Sound

LEMMA SoundAtStart == Init => Sound
<1> SUFFICES ASSUME Init  PROVE  Sound
  OBVIOUS
<1>1. OnTime = {}
  <2>1. live = {}
    BY DEF Init
  <2> QED  BY <2>1, OnTimeParts
<1>2. \A p \in Procs : ~InPassAt(proc[p])
  BY DEF Init, Idle, InPassAt
<1>3. Settled(offset, live, log)
  BY DEF Init, Settled
<1> QED  BY <1>1, <1>2, <1>3 DEF Sound, NothingSkipped, Safe, InPassAt

\* One process changes, and is in no pass afterwards.
LEMMA SoundOutside ==
  ASSUME TypeOK, Sound, FilesKept, UNCHANGED <<offset, handed>>,
         NEW p \in Procs, NEW m, proc' = [proc EXCEPT ![p] = m], ~InPassAt(m)
  PROVE  Sound'
<1>1. \A q \in Procs : proc'[q] = proc[q] \/ ~InPassAt(proc'[q])
  BY DEF TypeOK
<1> QED  BY <1>1, SoundStep

LEMMA WrittenFiles ==
  ASSUME TypeOK, Shape, NEW p \in Procs, At(p, "write"), NEW piece \in Seq(0..Torn), live' = live,
         IF proc[p].unlinked THEN UNCHANGED <<log, wrote, late>> ELSE AppendTo(proc[p].day, piece)
  PROVE  FilesKept
<1>1. CASE proc[p].unlinked
  BY <1>1, FilesSame
<1>2. CASE ~proc[p].unlinked
  <2>1. proc[p].day \in live /\ AppendTo(proc[p].day, piece)
    BY <1>2 DEF Shape, Fit, At
  <2> QED  BY <2>1, FilesAppend
<1> QED  BY <1>1, <1>2

LEMMA GoneOutside ==
  ASSUME TypeOK, NEW p \in Procs, NEW stage \in {"idle", "load", "write"}
  PROVE  ~InPassAt(GoneTo(p, stage))
<1>1. stage \in Stages
  BY DEF Stages
<1> QED  BY <1>1, GoneTyped DEF InPassAt

LEMMA BeginSound ==
  ASSUME TypeOK, TypeOK', Sound, NEW p \in Procs, NEW s \in Sessions, NEW k \in Kinds, Begin(p, s, k)
  PROVE  Sound'
<1>1. live \subseteq live' /\ UNCHANGED <<log, late, offset, handed>>
  BY DEF Begin, ghosts
<1>2. FilesKept
  BY <1>1, FilesGrow
<1> DEFINE stage == IF log[SegmentOf(now)] = <<>> \/ Last(log[SegmentOf(now)]) = NL THEN "write" ELSE "fix"
           m == [proc[p] EXCEPT !.pc = stage, !.id = Len(entries) + 1, !.day = SegmentOf(now)]
<1>3. proc' = [proc EXCEPT ![p].pc = stage, ![p].id = Len(entries) + 1, ![p].day = SegmentOf(now)]
  BY DEF Begin
<1>4. proc[p] \in Process /\ stage \in {"write", "fix"}
  BY DEF TypeOK
<1> HIDE DEF stage
<1>5. proc' = [proc EXCEPT ![p] = m] /\ m.pc = stage
  BY <1>3, <1>4 DEF TypeOK, Process
<1>6. ~InPassAt(m)
  BY <1>4, <1>5 DEF InPassAt
<1> HIDE DEF m
<1> QED  BY <1>1, <1>2, <1>5, <1>6, SoundOutside

LEMMA FixSound ==
  ASSUME TypeOK, TypeOK', Sound, NEW p \in Procs, Fix(p)  PROVE  Sound'
<1>1. /\ proc' = [proc EXCEPT ![p] = GoneTo(p, "write")] /\ live' = live \cup {proc[p].day}
      /\ UNCHANGED <<offset, handed>>
  BY DEF Fix, Goto
<1>2. FilesKept
  <2>1. CASE proc[p].day \in live
    <3>1. AppendTo(proc[p].day, <<NL>>) /\ <<NL>> \in Seq(0..Torn) /\ live' = live
      BY <1>1, <2>1, Constants DEF Fix
    <3> QED  BY <2>1, <3>1, FilesAppend
  <2>2. CASE proc[p].day \notin live
    <3>1. live \subseteq live' /\ UNCHANGED <<log, late>>
      BY <1>1, <2>2 DEF Fix
    <3> QED  BY <3>1, FilesGrow
  <2> QED  BY <2>1, <2>2
<1>3. ~InPassAt(GoneTo(p, "write"))
  BY GoneOutside
<1> QED  BY <1>1, <1>2, <1>3, SoundOutside

LEMMA WriteSound ==
  ASSUME TypeOK, Shape, Sound, NEW p \in Procs, Write(p)  PROVE  Sound'
<1> DEFINE victims == Prunable(live, log')
           m == IF victims = {} THEN GoneTo(p, PassOf(p))
                ELSE [proc[p] EXCEPT !.pc = "clean", !.todo = victims]
<1>1. proc' = [proc EXCEPT ![p] = m] /\ At(p, "write") /\ UNCHANGED <<live, offset, handed>>
  BY DEF Write, Goto
<1>2. FilesKept
  <2>1. <<proc[p].id, NL>> \in Seq(0..Torn)
    BY PieceTyped
  <2>2. IF proc[p].unlinked THEN UNCHANGED <<log, wrote, late>> ELSE AppendTo(proc[p].day, <<proc[p].id, NL>>)
    BY DEF Write
  <2> HIDE DEF m
  <2> QED  BY <1>1, <2>1, <2>2, WrittenFiles
<1> HIDE DEF victims
<1>3. ~InPassAt(m)
  <2>1. CASE victims = {}
    BY <2>1, PassTyped, GoneOutside
  <2>2. CASE victims # {}
    <3>1. proc[p] \in Process
      BY DEF TypeOK
    <3> QED  BY <2>2, <3>1 DEF InPassAt, Process
  <2> QED  BY <2>1, <2>2
<1> HIDE DEF m
<1> QED  BY <1>1, <1>2, <1>3, SoundOutside

LEMMA WriteTornSound ==
  ASSUME TypeOK, Shape, Sound, NEW p \in Procs, NEW survives \in BOOLEAN, WriteTorn(p, survives)
  PROVE  Sound'
<1> DEFINE stage == IF survives THEN PassOf(p) ELSE "idle"
<1>1. /\ proc' = [proc EXCEPT ![p] = GoneTo(p, stage)] /\ At(p, "write") /\ UNCHANGED <<live, offset, handed>>
  BY DEF WriteTorn, Goto
<1>2. PICK rest \in {Torn, proc[p].id} :
        IF proc[p].unlinked THEN UNCHANGED <<log, wrote, late>> ELSE AppendTo(proc[p].day, <<rest>>)
  BY DEF WriteTorn
<1>3. <<rest>> \in Seq(0..Torn)
  BY PieceTyped
<1>4. FilesKept
  BY <1>1, <1>2, <1>3, WrittenFiles
<1>5. ~InPassAt(GoneTo(p, stage))
  BY PassTyped, GoneOutside
<1> HIDE DEF stage
<1> QED  BY <1>1, <1>4, <1>5, SoundOutside

LEMMA RemoveSound ==
  ASSUME TypeOK, Shape, Sound, NEW p \in Procs, RemoveSegment(p)  PROVE  Sound'
<1>1. PICK d \in proc[p].todo :
           /\ d \in Days /\ NewerIn(live, d) /\ live' = live \ {d} /\ log' = [log EXCEPT ![d] = <<>>]
           /\ proc' = [q \in Procs |-> AfterRemoval(p, q, d)]
           /\ At(p, "clean") /\ \A e \in proc[p].todo : d <= e /\ e \in Days
           /\ UNCHANGED <<now, entries, offset, counted, faults, ghosts>>
  BY Removal
<1>2. FilesKept
  BY <1>1, FilesShrink DEF ghosts
<1>3. ASSUME NEW q \in Procs  PROVE  proc'[q] = proc[q] \/ ~InPassAt(proc'[q])
  <2>1. proc'[q] = AfterRemoval(p, q, d) /\ proc[q] \in Process
    BY <1>1 DEF TypeOK
  <2>2. CASE q = p
    <3>1. PassOf(p) \in {"idle", "load"} /\ PassOf(p) \in Stages
      BY PassTyped DEF Stages
    <3>2. GoneTo(p, PassOf(p)) \in Process /\ GoneTo(p, PassOf(p)).pc = PassOf(p)
      BY <3>1, GoneTyped
    <3>3. AfterRemoval(p, q, d).pc \in {"clean", "idle", "load"}
      BY <1>1, <2>1, <2>2, <3>1, <3>2 DEF AfterRemoval, At, Process
    <3> QED  BY <2>1, <3>3 DEF InPassAt
  <2>3. CASE q # p
    BY <2>1, <2>3 DEF AfterRemoval, At, InPassAt, Process
  <2> QED  BY <2>2, <2>3
<1> QED  BY <1>1, <1>2, <1>3, SoundStep DEF ghosts
LEMMA PickedOnto ==
  ASSUME NEW S, NEW s \in Seq(S), NEW at \in SUBSET (1..Len(s)), NEW i \in at
  PROVE  s[i] \in Range(Picked(s, at))
<1>1. Len(s) \in Nat
  BY LenProperties
<1>2. PICK k \in 1..Cardinality(at) : Nth(at, k) = i
  BY <1>1, NthOnto
<1>3. k \in DOMAIN Picked(s, at) /\ Picked(s, at)[k] = s[i]
  BY <1>2 DEF Picked
<1> QED  BY <1>3 DEF Range

LEMMA RangeOfConcat ==
  ASSUME NEW S, NEW a \in Seq(S), NEW b \in Seq(S)
  PROVE  Range(a \o b) = Range(a) \cup Range(b)
<1>1. /\ Len(a) \in Nat /\ Len(b) \in Nat /\ Len(a \o b) = Len(a) + Len(b)
      /\ DOMAIN a = 1..Len(a) /\ DOMAIN b = 1..Len(b) /\ DOMAIN (a \o b) = 1..Len(a) + Len(b)
      /\ \A i \in 1..Len(a) + Len(b) : (a \o b)[i] = IF i <= Len(a) THEN a[i] ELSE b[i - Len(a)]
  BY ConcatProperties, LenProperties
<1> DEFINE both == a \o b
<1> HIDE DEF both
<1>2. ASSUME NEW x \in Range(both)  PROVE  x \in Range(a) \cup Range(b)
  <2>1. PICK i \in 1..Len(a) + Len(b) : x = both[i]
    BY <1>1 DEF Range, both
  <2>2. CASE i <= Len(a)
    <3>1. i \in DOMAIN a /\ x = a[i]
      BY <1>1, <2>1, <2>2 DEF both
    <3> QED  BY <3>1 DEF Range
  <2>3. CASE ~(i <= Len(a))
    <3>1. i - Len(a) \in DOMAIN b /\ x = b[i - Len(a)]
      BY <1>1, <2>1, <2>3 DEF both
    <3> QED  BY <3>1 DEF Range
  <2> QED  BY <2>2, <2>3
<1>3. ASSUME NEW x \in Range(a)  PROVE  x \in Range(both)
  <2>1. PICK i \in 1..Len(a) : x = a[i]
    BY <1>1 DEF Range
  <2>2. i \in DOMAIN both /\ both[i] = x
    BY <1>1, <2>1 DEF both
  <2> QED  BY <2>2 DEF Range
<1>4. ASSUME NEW x \in Range(b)  PROVE  x \in Range(both)
  <2>1. PICK i \in 1..Len(b) : x = b[i]
    BY <1>1 DEF Range
  <2>2. i + Len(a) \in 1..Len(a) + Len(b) /\ (i + Len(a)) - Len(a) = i /\ ~(i + Len(a) <= Len(a))
    BY <1>1, <2>1
  <2>3. i + Len(a) \in DOMAIN both /\ both[i + Len(a)] = x
    BY <1>1, <2>1, <2>2 DEF both
  <2> QED  BY <2>3 DEF Range
<1> QED  BY <1>2, <1>3, <1>4 DEF both

LEMMA LoadSound ==
  ASSUME TypeOK, Sound, NEW p \in Procs, Load(p)  PROVE  Sound'
<1> DEFINE todo == {d \in live : d >= offset.day}
           m == [Idle EXCEPT !.pc = IF todo = {} THEN "decide" ELSE "read", !.id = proc[p].id, !.todo = todo,
                             !.off = offset, !.next = offset, !.since = now]
<1>1. /\ proc' = [proc EXCEPT ![p] = m]
      /\ UNCHANGED <<live, log, late, handed, offset>>
  BY DEF Load, files
<1>2. FilesKept /\ OnTime' = OnTime
  BY <1>1, FilesSame, LinesAre
<1>3. Settled(offset, live, log) /\ \A x \in OnTime : BehindAt(x, offset) => x.id \in handed
  BY DEF Sound, NothingSkipped, Behind, BehindAt
<1>4. ASSUME NEW d \in todo
      PROVE  /\ ReachedIn(live, d) /\ offset.day <= d
             /\ \A x \in OnTime : x.day < d => BehindAt(x, offset) \/ x.day \in todo
  <2>1. d \in live /\ d \in Nat /\ offset.day \in Nat /\ d >= offset.day
    BY Constants DEF TypeOK, Offset
  <2>2. ASSUME NEW x \in OnTime  PROVE  x.day \in live /\ x.day \in Nat
    <3>1. PICK e \in live : \E k \in LinesAfter(log[e], 0) : x = [id |-> log[e][k], day |-> e, at |-> k]
      BY OnTimeParts
    <3>2. x.day = e
      BY <3>1
    <3> QED  BY <3>2, Constants DEF TypeOK
  <2>3. \A x \in OnTime : x.day < d => BehindAt(x, offset) \/ x.day \in todo
    BY <2>1, <2>2 DEF BehindAt
  <2> QED  BY <2>1, <2>3 DEF ReachedIn
<1> HIDE DEF todo
<1>5. m.off = offset /\ m.next = offset /\ m.todo = todo
  BY DEF Idle
<1> HIDE DEF m
<1>6. Safe(m, live', log', OnTime', handed')
  BY <1>1, <1>2, <1>3, <1>4, <1>5 DEF Safe
<1>7. \A q \in Procs : proc'[q] = proc[q] \/ Safe(proc'[q], live', log', OnTime', handed')
  BY <1>1, <1>6 DEF TypeOK
<1> QED  BY <1>1, <1>2, <1>7, SoundStep
\* A complete line of a segment is behind where the segment has been read to;
\* it was read, unless it lies in front of where reading began.
LEMMA LineWasRead ==
  ASSUME NEW data \in Seq(0..Torn), NEW from \in 0..Len(data), NEW k \in LinesAfter(data, 0)
  PROVE  /\ k \in Nat \ {0} /\ k <= Consumed(data, from)
         /\ k <= from \/ data[k] \in Range(EntriesAt(data, from))
<1>1. Len(data) \in Nat /\ k \in 0 + 1..Len(data) - 1 /\ data[k] \in Ids /\ data[k + 1] = NL
      /\ (k = 0 + 1 \/ data[k - 1] = NL)
  BY LenProperties DEF LinesAfter
<1>2. /\ Consumed(data, from) \in from..Len(data)
      /\ \A i \in from + 1..Len(data) : data[i] = NL => i <= Consumed(data, from)
  BY ConsumedTyped
<1> DEFINE end == Consumed(data, from)
<1> HIDE DEF end
<1>3. k <= end
  <2>1. CASE k + 1 \in from + 1..Len(data)
    <3>1. k + 1 <= end
      BY <1>1, <1>2, <2>1 DEF end
    <3> QED  BY <1>1, <1>2, <3>1 DEF end
  <2>2. CASE k + 1 \notin from + 1..Len(data)
    BY <1>1, <1>2, <2>2 DEF end
  <2> QED  BY <2>1, <2>2
<1>4. ASSUME ~(k <= from)  PROVE  data[k] \in Range(EntriesAt(data, from))
  <2>1. k = from + 1 \/ data[k - 1] = NL
    BY <1>1, <1>4
  <2>2. k \in from + 1..Len(data) - 1
    BY <1>1, <1>4
  <2>3. k \in LinesAfter(data, from)
    BY <1>1, <2>1, <2>2 DEF LinesAfter
  <2>4. LinesAfter(data, from) \in SUBSET (1..Len(data))
    BY <1>1 DEF LinesAfter
  <2> QED  BY <2>3, <2>4, PickedOnto DEF EntriesAt
<1> QED  BY <1>1, <1>3, <1>4 DEF end

LEMMA ReadSound ==
  ASSUME TypeOK, Shape, Sound, NEW p \in Procs, Read(p)  PROVE  Sound'
<1>1. PICK d \in proc[p].todo :
           /\ d \in Days /\ \A e \in proc[p].todo : d <= e /\ e \in Days
           /\ log[d] \in Seq(0..Torn) /\ From(p, d) \in 0..Len(log[d]) /\ Len(log[d]) \in Nat
           /\ proc' = [proc EXCEPT ![p] = AfterReading(p, d)]
           /\ At(p, "read")
           /\ UNCHANGED <<now, entries, files, offset, counted, faults, ghosts>>
  BY Reading
<1> DEFINE m == proc[p]
           from == From(p, d)
           read == EntriesAt(log[d], from)
           end == Consumed(log[d], from)
           n == AfterReading(p, d)
<1>2. UNCHANGED <<live, log, late, handed, offset>> /\ FilesKept /\ OnTime' = OnTime
  BY <1>1, FilesSame, LinesAre DEF files, ghosts
<1>3. /\ m \in Process /\ m.pc = "read" /\ m.batch \in Seq(Ids) /\ m.off \in Offset /\ m.next \in Offset
      /\ d \in Nat /\ m.off.day \in Nat /\ m.off.byte \in Nat /\ m.next.day \in Nat
  BY <1>1, Constants DEF TypeOK, Process, Offset, At
<1>4. /\ Settled(m.next, live, log) /\ Settled(m.off, live, log)
      /\ \A x \in OnTime : BehindAt(x, m.next) => x.id \in handed \cup Range(m.batch)
      /\ \A x \in OnTime : BehindAt(x, m.off) => x.id \in handed
      /\ \A e \in m.todo :
           /\ ReachedIn(live, e) /\ m.next.day <= e
           /\ \A x \in OnTime : x.day < e => BehindAt(x, m.next) \/ x.day \in m.todo
  BY <1>3 DEF Sound, Safe
<1>5. from \in 0..Len(log[d]) /\ read \in Seq(Ids) /\ end \in from..Len(log[d]) /\ end \in Nat
      /\ (end = from \/ log[d][end] = NL)
  <2>1. from \in Nat
    BY <1>1
  <2>2. end \in from..Len(log[d]) /\ (end = from \/ log[d][end] = NL)
    BY <1>1, ConsumedTyped
  <2> HIDE DEF from, end
  <2> QED  BY <1>1, <2>1, <2>2, EntriesTyped DEF from
<1>6. /\ n.off = m.off /\ n.todo = m.todo \ {d} /\ n.pc \in {"read", "decide"}
      /\ (n.pc = "read" => m.todo \ {d} # {})
      /\ d \in live => n.batch = m.batch \o read /\ n.next = [day |-> d, byte |-> end]
      /\ d \notin live => n.batch = m.batch /\ n.next = m.next
  <2> HIDE DEF from, read, end
  <2> QED  BY <1>3 DEF AfterReading, Process, from, read, end
<1>7. ASSUME NEW x \in OnTime
      PROVE  /\ x.day \in live /\ x.day \in Nat /\ x.at \in LinesAfter(log[x.day], 0) /\ x.id = log[x.day][x.at]
  <2>1. PICK e \in live : \E k \in LinesAfter(log[e], 0) : x = [id |-> log[e][k], day |-> e, at |-> k]
    BY OnTimeParts
  <2>2. PICK k \in LinesAfter(log[e], 0) : x = [id |-> log[e][k], day |-> e, at |-> k]
    BY <2>1
  <2>3. x.day = e /\ x.at = k /\ x.id = log[e][k]
    BY <2>2
  <2> QED  BY <2>2, <2>3, Constants DEF TypeOK
<1> HIDE DEF m, n, from, read, end
<1>8. ASSUME d \notin live  PROVE  Safe(n, live, log, OnTime, handed)
  <2>1. \A e \in n.todo : \A x \in OnTime : x.day < e => BehindAt(x, n.next) \/ x.day \in n.todo
    BY <1>4, <1>6, <1>7, <1>8
  <2> QED  BY <1>4, <1>6, <1>8, <2>1 DEF Safe
<1>9. ASSUME d \in live  PROVE  Safe(n, live, log, OnTime, handed)
  <2>1. n.batch = m.batch \o read /\ n.next.day = d /\ n.next.byte = end
    BY <1>6, <1>9
  <2>2. Settled(n.next, live, log)
    <3>1. ReachedIn(live, d)
      BY <1>1, <1>4 DEF m
    <3>2. end = 0 \/ NewerIn(live, d) \/ log[d][end] = NL
      <4>1. SUFFICES ASSUME end = from, end # 0  PROVE  NewerIn(live, d) \/ log[d][end] = NL
        BY <1>5
      <4>2. d = m.off.day /\ from = Smaller(m.off.byte, Len(log[d]))
        BY <4>1 DEF from, From, m
      <4>3. m.off.byte = 0 \/ NewerIn(live, d) \/ (m.off.byte <= Len(log[d]) /\ log[d][m.off.byte] = NL)
        BY <1>4, <4>2 DEF Settled
      <4>4. m.off.byte <= Len(log[d]) => from = m.off.byte
        BY <1>1, <1>3, <4>2 DEF Smaller
      <4>5. m.off.byte # 0
        BY <1>1, <1>3, <4>1, <4>4
      <4> QED  BY <4>1, <4>3, <4>4, <4>5
    <3>3. end <= Len(log[d])
      BY <1>1, <1>5
    <3> QED  BY <1>9, <2>1, <3>1, <3>2, <3>3 DEF Settled
  <2>3. Range(n.batch) = Range(m.batch) \cup Range(read)
    BY <1>3, <1>5, <2>1, RangeOfConcat
  <2>4. ASSUME NEW x \in OnTime, x.day = d
        PROVE  x.at <= end /\ (x.id \in handed \/ x.id \in Range(read))
    <3>1. x.at \in LinesAfter(log[d], 0) /\ x.id = log[d][x.at]
      BY <1>7, <2>4
    <3>2. x.at \in Nat \ {0} /\ x.at <= end /\ (x.at <= from \/ x.id \in Range(read))
      BY <1>1, <1>5, <3>1, LineWasRead DEF end, read
    <3>3. x.at <= from => x.id \in handed
      <4>1. SUFFICES ASSUME x.at <= from  PROVE  x.id \in handed
        OBVIOUS
      <4>2. from \in Nat /\ from # 0
        BY <1>5, <3>2, <4>1
      <4>3. d = m.off.day /\ from = Smaller(m.off.byte, Len(log[d]))
        BY <4>2 DEF from, From, m
      <4>4. x.at <= m.off.byte
        BY <1>1, <1>3, <3>2, <4>1, <4>2, <4>3 DEF Smaller
      <4>5. BehindAt(x, m.off)
        BY <2>4, <4>3, <4>4 DEF BehindAt
      <4> QED  BY <1>4, <4>5
    <3> QED  BY <3>2, <3>3
  <2>5. ASSUME NEW x \in OnTime, x.day < d  PROVE  x.id \in handed \cup Range(m.batch)
    <3>1. d \in m.todo /\ \A e \in m.todo : d <= e
      BY <1>1 DEF m
    <3>2. BehindAt(x, m.next) \/ x.day \in m.todo
      BY <1>4, <2>5, <3>1
    <3>3. x.day \notin m.todo
      BY <1>3, <1>7, <2>5, <3>1
    <3> QED  BY <1>4, <3>2, <3>3
  <2>6. \A x \in OnTime : BehindAt(x, n.next) => x.id \in handed \cup Range(n.batch)
    BY <2>1, <2>3, <2>4, <2>5 DEF BehindAt
  <2>7. ASSUME NEW e \in n.todo
        PROVE  /\ ReachedIn(live, e) /\ n.next.day <= e
               /\ \A x \in OnTime : x.day < e => BehindAt(x, n.next) \/ x.day \in n.todo
    <3>1. e \in m.todo /\ d <= e
      BY <1>1, <1>6 DEF m
    <3>2. ASSUME NEW x \in OnTime, x.day < e  PROVE  BehindAt(x, n.next) \/ x.day \in n.todo
      <4>1. CASE x.day = d
        BY <2>1, <2>4, <4>1 DEF BehindAt
      <4>2. CASE x.day < d
        BY <2>1, <4>2 DEF BehindAt
      <4>3. CASE x.day > d
        <5>1. d \in m.todo /\ m.next.day <= d
          BY <1>1, <1>4 DEF m
        <5>2. ~BehindAt(x, m.next)
          BY <1>3, <1>7, <4>3, <5>1 DEF BehindAt
        <5>3. x.day \in m.todo /\ x.day # d
          BY <1>3, <1>4, <1>7, <3>1, <3>2, <4>3, <5>2
        <5> QED  BY <1>6, <5>3
      <4> QED  BY <1>3, <1>7, <4>1, <4>2, <4>3
    <3> QED  BY <1>4, <2>1, <3>1, <3>2
  <2> QED  BY <1>4, <1>6, <2>2, <2>6, <2>7 DEF Safe
<1>10. Safe(n, live', log', OnTime', handed')
  <2>1. Safe(n, live, log, OnTime, handed)
    BY <1>8, <1>9
  <2> QED  BY <1>2, <2>1
<1>11. \A q \in Procs : proc'[q] = proc[q] \/ Safe(proc'[q], live', log', OnTime', handed')
  BY <1>1, <1>10 DEF TypeOK, n
<1> QED  BY <1>2, <1>11, SoundStep

LEMMA DecideSound ==
  ASSUME TypeOK, Sound, NEW p \in Procs, Decide(p)  PROVE  Sound'
<1>1. /\ At(p, "decide") /\ proc[p] \in Process
      /\ \/ proc' = [proc EXCEPT ![p] = GoneTo(p, "idle")]
         \/ proc' = [proc EXCEPT ![p] = AfterDeciding(p)]
      /\ UNCHANGED <<now, entries, files, offset, counted, faults, wrote, late, handed, shared, anchors>>
  BY Deciding
<1>2. UNCHANGED <<live, log, late, handed, offset>> /\ FilesKept /\ OnTime' = OnTime
  BY <1>1, FilesSame, LinesAre DEF files
<1>3. ~InPassAt(GoneTo(p, "idle"))
  BY GoneOutside
<1>4. Safe(AfterDeciding(p), live', log', OnTime', handed')
  <2> DEFINE m == AfterDeciding(p)
  <2>1. /\ m.pc \in {"store", "derive"} /\ m.next = proc[p].next /\ m.batch = proc[p].batch
        /\ m.off = [day |-> 0, byte |-> 0]
    BY <1>1 DEF AfterDeciding, Process, Idle
  <2>2. Safe(proc[p], live, log, OnTime, handed) /\ proc[p].pc = "decide"
    BY <1>1 DEF Sound, At
  <2>3. Settled(m.off, live, log)
    BY <2>1 DEF Settled
  <2> HIDE DEF m
  <2>4. Safe(m, live, log, OnTime, handed)
    BY <2>1, <2>2, <2>3 DEF Safe
  <2> QED  BY <1>2, <2>4 DEF m
<1>5. \A q \in Procs : \/ proc'[q] = proc[q] \/ ~InPassAt(proc'[q])
                       \/ Safe(proc'[q], live', log', OnTime', handed')
  BY <1>1, <1>3, <1>4 DEF TypeOK
<1> QED  BY <1>2, <1>5, SoundStep

LEMMA DeriveSound ==
  ASSUME TypeOK, Shape, Sound, NEW p \in Procs, Derive(p)  PROVE  Sound'
<1>1. /\ At(p, "derive") /\ proc[p] \in Process
      /\ proc' = [proc EXCEPT ![p] = AfterDeriving(p)]
      /\ UNCHANGED <<now, entries, files, offset, faults, wrote, late, handed, crossed, shared>>
  BY Deriving
<1>2. UNCHANGED <<live, log, late, handed, offset>> /\ FilesKept /\ OnTime' = OnTime
  BY <1>1, FilesSame, LinesAre DEF files
<1>3. Safe(AfterDeriving(p), live', log', OnTime', handed')
  <2> DEFINE m == AfterDeriving(p)
  <2>1. m.pc \in {"store", "derive"} /\ m.next = proc[p].next /\ m.batch = proc[p].batch /\ m.off = proc[p].off
    BY <1>1 DEF AfterDeriving, Process
  <2>2. Safe(proc[p], live, log, OnTime, handed) /\ proc[p].pc = "derive"
    BY <1>1 DEF Sound, At
  <2> HIDE DEF m
  <2>3. Safe(m, live, log, OnTime, handed)
    BY <2>1, <2>2 DEF Safe
  <2> QED  BY <1>2, <2>3 DEF m
<1>4. \A q \in Procs : proc'[q] = proc[q] \/ Safe(proc'[q], live', log', OnTime', handed')
  BY <1>1, <1>3 DEF TypeOK
<1> QED  BY <1>2, <1>4, SoundStep

LEMMA StoreSound ==
  ASSUME TypeOK, Sound, NEW p \in Procs, StoreOffset(p)  PROVE  Sound'
<1>1. /\ At(p, "store") /\ proc' = [proc EXCEPT ![p] = GoneTo(p, "idle")] /\ offset' = proc[p].next
      /\ handed' = handed \cup Range(proc[p].batch) /\ UNCHANGED <<live, log, late>>
  BY DEF StoreOffset, Goto, files
<1>2. FilesKept /\ OnTime' = OnTime /\ handed \subseteq handed'
  BY <1>1, FilesSame, LinesAre
<1>3. Safe(proc[p], live, log, OnTime, handed) /\ InPassAt(proc[p])
  BY <1>1 DEF Sound, At, InPassAt
<1>4. Settled(offset, live, log)'
  BY <1>1, <1>3 DEF Safe, InPassAt
<1>5. NothingSkipped'
  <2>1. \A x \in OnTime : BehindAt(x, proc[p].next) => x.id \in handed'
    BY <1>1, <1>3 DEF Safe, InPassAt
  <2>2. \A x \in OnTime : BehindAt(x, offset') => x.id \in handed'
    BY <1>1, <2>1
  <2> QED  BY <1>2, <2>2 DEF NothingSkipped, Behind, BehindAt
<1>6. ASSUME NEW q \in Procs  PROVE  Safe(proc'[q], live', log', OnTime', handed')
  <2>1. CASE q = p
    <3>1. ~InPassAt(proc'[q])
      BY <1>1, <2>1, GoneOutside DEF TypeOK
    <3> QED  BY <3>1 DEF Safe, InPassAt
  <2>2. CASE q # p
    <3>1. proc'[q] = proc[q] /\ proc[q] \in Process /\ Safe(proc[q], live, log, OnTime, handed)
      BY <1>1, <2>2 DEF TypeOK, Sound
    <3>2. Safe(proc[q], live', log', OnTime', handed')
      BY <1>2, <3>1, SafeKept
    <3> QED  BY <3>1, <3>2
  <2> QED  BY <2>1, <2>2
<1> QED  BY <1>4, <1>5, <1>6 DEF Sound

LEMMA StopSound ==
  ASSUME TypeOK, Sound, NEW p \in Procs, Stop(p)  PROVE  Sound'
<1>1. /\ proc' = [proc EXCEPT ![p] = GoneTo(p, "idle")] /\ UNCHANGED <<live, log, late, handed, offset>>
  BY DEF Stop, Goto, files
<1>2. FilesKept /\ ~InPassAt(GoneTo(p, "idle"))
  BY <1>1, FilesSame, GoneOutside
<1> QED  BY <1>1, <1>2, SoundOutside

LEMMA StepSound == TypeOK /\ TypeOK' /\ Shape /\ Sound /\ [Next]_vars => Sound'
<1> SUFFICES ASSUME TypeOK, TypeOK', Shape, Sound, [Next]_vars  PROVE  Sound'
  OBVIOUS
<1>1. CASE Tick \/ UNCHANGED vars
  <2>1. UNCHANGED <<live, log, late, handed, offset, proc>>
    BY <1>1 DEF Tick, vars, files, ghosts
  <2>2. FilesKept
    BY <2>1, FilesSame
  <2> QED  BY <2>1, <2>2, SoundStep
<1>2. CASE \E p \in Procs, s \in Sessions, k \in Kinds : Begin(p, s, k)
  BY <1>2, BeginSound
<1>3. CASE \E p \in Procs : Fix(p) \/ Write(p) \/ RemoveSegment(p)
  BY <1>3, FixSound, WriteSound, RemoveSound
<1>4. CASE \E p \in Procs, survives \in BOOLEAN : WriteTorn(p, survives)
  BY <1>4, WriteTornSound
<1>5. CASE \E p \in Procs : Load(p) \/ Read(p) \/ Decide(p)
  BY <1>5, LoadSound, ReadSound, DecideSound
<1>6. CASE \E p \in Procs : Derive(p) \/ StoreOffset(p) \/ Stop(p)
  BY <1>6, DeriveSound, StoreSound, StopSound
<1> QED  BY <1>1, <1>2, <1>3, <1>4, <1>5, <1>6 DEF Next

\* Whatever lies behind the stored offset was consumed by a pass that stored
\* an offset, however many processes append, tear lines, delete segments, read
\* and die in between; lines completed in a segment that was not the newest
\* are the exception (derive.go:68, journal.go:178).
THEOREM NothingIsSkipped == Spec => []NothingSkipped
<1>1. Init => TypeOK /\ Shape /\ Sound
  BY Started, SoundAtStart
<1>2. TypeOK /\ Shape /\ Sound /\ [Next]_vars => (TypeOK /\ Shape /\ Sound)'
  BY StepTyped, StepSound
<1>3. Sound => NothingSkipped
  BY DEF Sound
<1> QED  BY <1>1, <1>2, <1>3, PTL DEF Spec

-----------------------------------------------------------------------------
(***************************************************************************)
(* An invocation is one line.                                              *)
(*                                                                         *)
(* Ids are given out in order, so the one a process is about to write is   *)
(* nowhere yet: in no segment, in no batch, never counted, and no other    *)
(* process holds it.                                                       *)
(***************************************************************************)
WritingAt(m) == m.pc \in {"fix", "write"}

PlacedOnce(held) ==
  \A d \in Days, e \in Days : \A k \in 1..Len(held[d]), l \in 1..Len(held[e]) :
    held[d][k] \in Ids /\ held[d][k] = held[e][l] => d = e /\ k = l

Unwritten(i, held, cnt, procs) ==
  /\ \A d \in Days : \A k \in 1..Len(held[d]) : held[d][k] # i
  /\ cnt[i] = 0
  /\ \A q \in Procs : i \notin Range(procs[q].batch)

PairsAreRead(m) == \A i \in 1..Len(m.pairs) : m.pairs[i].f \in Range(m.batch)

Numbered ==
  /\ PlacedOnce(log)
  /\ \A i \in Ids : i > Len(entries) => Unwritten(i, log, counted, proc)
  /\ \A p \in Procs : WritingAt(proc[p]) =>
       proc[p].id <= Len(entries) /\ Unwritten(proc[p].id, log, counted, proc)
  /\ \A p, q \in Procs : WritingAt(proc[p]) /\ WritingAt(proc[q]) /\ proc[p].id = proc[q].id => p = q
  /\ \A p \in Procs : PairsAreRead(proc[p])

\* The entries a step leaves in the segments are those that were there; only i
\* may be new, at the end of the segment of day e.
Tokens(i, e) ==
  \A d \in Days : \A k \in 1..Len(log'[d]) : log'[d][k] \in Ids =>
    \/ k \in 1..Len(log[d]) /\ log[d][k] = log'[d][k]
    \/ log'[d][k] = i /\ d = e /\ k = Len(log[d]) + 1

Brings(p) ==
  \E i \in 0..Torn, e \in Days :
    Tokens(i, e) /\ (i \in Ids => WritingAt(proc[p]) /\ ~WritingAt(proc'[p]) /\ i = proc[p].id)

LEMMA NumberedAtStart == Init => Numbered
<1> SUFFICES ASSUME Init  PROVE  Numbered
  OBVIOUS
<1>1. \A d \in Days : Len(log[d]) = 0
  BY EmptySeq DEF Init
<1>2. \A p \in Procs : proc[p].batch = <<>> /\ proc[p].pairs = <<>> /\ ~WritingAt(proc[p])
  BY DEF Init, Idle, WritingAt
<1>3. Range(<<>>) = {} /\ Len(<<>>) = 0
  BY EmptySeq DEF Range
<1>4. \A i \in Ids : Unwritten(i, log, counted, proc)
  BY <1>1, <1>2, <1>3 DEF Unwritten, Init
<1> QED  BY <1>1, <1>2, <1>3, <1>4 DEF Numbered, PlacedOnce, PairsAreRead

\* A step other than the start of an invocation.
LEMMA NumberedStep ==
  ASSUME TypeOK, TypeOK', Numbered, entries' = entries,
         NEW p \in Procs, Brings(p),
         \A q \in Procs : \A f \in Range(proc'[q].batch) :
           \/ f \in Range(proc[q].batch)
           \/ \E d \in Days : \E k \in 1..Len(log[d]) : log[d][k] = f,
         \A f \in Ids : counted'[f] = counted[f] \/ \E q \in Procs : f \in Range(proc[q].batch),
         \A q \in Procs : WritingAt(proc'[q]) => WritingAt(proc[q]) /\ proc'[q].id = proc[q].id,
         \A q \in Procs : PairsAreRead(proc'[q])
  PROVE  Numbered'
<1>0. PICK i \in 0..Torn, e \in Days :
        Tokens(i, e) /\ (i \in Ids => WritingAt(proc[p]) /\ ~WritingAt(proc'[p]) /\ i = proc[p].id)
  BY DEF Brings
<1>1. \A q \in Procs : proc[q] \in Process /\ proc[q].id \in Ids /\ proc[q].id \in Nat
  BY Constants DEF TypeOK, Process
<1>2. \A d \in Days : Len(log[d]) \in Nat /\ Len(log'[d]) \in Nat
  BY LenProperties DEF TypeOK
<1>3. ASSUME NEW j \in Ids, j # i, Unwritten(j, log, counted, proc)
      PROVE  Unwritten(j, log', counted', proc')
  <2>1. \A d \in Days : \A k \in 1..Len(log'[d]) : log'[d][k] # j
    BY <1>0, <1>3 DEF Tokens, Unwritten
  <2>2. counted'[j] = 0
    BY <1>3 DEF Unwritten
  <2>3. \A q \in Procs : j \notin Range(proc'[q].batch)
    BY <1>3 DEF Unwritten
  <2> QED  BY <2>1, <2>2, <2>3 DEF Unwritten
<1>4. i \in Ids => Unwritten(i, log, counted, proc) /\ i <= Len(entries)
  BY <1>0 DEF Numbered
<1>5. PlacedOnce(log')
  <2> SUFFICES ASSUME NEW d \in Days, NEW f \in Days, NEW k \in 1..Len(log'[d]), NEW l \in 1..Len(log'[f]),
                      log'[d][k] \in Ids, log'[d][k] = log'[f][l]
               PROVE  d = f /\ k = l
    BY DEF PlacedOnce
  <2> DEFINE Old(x, y) == y \in 1..Len(log[x]) /\ log[x][y] = log'[x][y]
             New(x, y) == log'[x][y] = i /\ x = e /\ y = Len(log[x]) + 1
  <2>1. (Old(d, k) \/ New(d, k)) /\ (Old(f, l) \/ New(f, l))
    BY <1>0 DEF Tokens
  <2>2. CASE Old(d, k) /\ Old(f, l)
    BY <2>2 DEF Numbered, PlacedOnce
  <2>3. CASE Old(d, k) /\ New(f, l)
    BY <1>4, <2>3 DEF Unwritten
  <2>4. CASE New(d, k) /\ Old(f, l)
    BY <1>4, <2>4 DEF Unwritten
  <2>5. CASE New(d, k) /\ New(f, l)
    BY <2>5
  <2> QED  BY <2>1, <2>2, <2>3, <2>4, <2>5
<1>6. \A j \in Ids : j > Len(entries') => Unwritten(j, log', counted', proc')
  <2>1. Len(entries) \in Nat /\ Ids \subseteq Nat
    BY Constants, LenProperties DEF TypeOK
  <2>2. \A j \in Ids : j > Len(entries) => j # i
    BY <1>4, <2>1
  <2> QED  BY <1>3, <2>2 DEF Numbered
<1>7. ASSUME NEW q \in Procs, WritingAt(proc'[q])
      PROVE  proc'[q].id <= Len(entries') /\ Unwritten(proc'[q].id, log', counted', proc')
  <2>1. WritingAt(proc[q]) /\ proc'[q].id = proc[q].id /\ proc[q].id <= Len(entries)
        /\ Unwritten(proc[q].id, log, counted, proc)
    BY <1>7 DEF Numbered
  <2>2. proc[q].id # i
    BY <1>0, <1>1, <1>7, <2>1 DEF Numbered
  <2> QED  BY <1>1, <1>3, <2>1, <2>2
<1>8. \A q, r \in Procs : WritingAt(proc'[q]) /\ WritingAt(proc'[r]) /\ proc'[q].id = proc'[r].id => q = r
  BY DEF Numbered
<1> QED  BY <1>5, <1>6, <1>7, <1>8 DEF Numbered

\* Most steps change one process, whose batch and pairs stay or become empty.
LEMMA NumberedOne ==
  ASSUME TypeOK, TypeOK', Numbered, entries' = entries, counted' = counted,
         NEW p \in Procs, Brings(p), NEW m, proc' = [proc EXCEPT ![p] = m],
         WritingAt(m) => WritingAt(proc[p]) /\ m.id = proc[p].id,
         m.batch \in {<<>>, proc[p].batch}, m.pairs = <<>> \/ (m.pairs = proc[p].pairs /\ m.batch = proc[p].batch)
  PROVE  Numbered'
<1>0. Range(<<>>) = {} /\ Len(<<>>) = 0
  BY EmptySeq DEF Range
<1>1. ASSUME NEW q \in Procs
      PROVE  /\ \A f \in Range(proc'[q].batch) : f \in Range(proc[q].batch)
             /\ WritingAt(proc'[q]) => WritingAt(proc[q]) /\ proc'[q].id = proc[q].id
             /\ PairsAreRead(proc'[q])
  <2>1. CASE q = p
    <3>1. proc'[q] = m
      BY <2>1 DEF TypeOK
    <3>2. PairsAreRead(proc[p])
      BY DEF Numbered
    <3>3. PairsAreRead(m)
      BY <1>0, <3>2 DEF PairsAreRead
    <3> QED  BY <1>0, <2>1, <3>1, <3>3
  <2>2. CASE q # p
    <3>1. proc'[q] = proc[q]
      BY <2>2 DEF TypeOK
    <3> QED  BY <3>1 DEF Numbered
  <2> QED  BY <2>1, <2>2
<1> QED  BY <1>1, NumberedStep

LEMMA BringsNothing ==
  ASSUME log' = log, NEW p  PROVE  Brings(p)
<1>1. Tokens(NL, 0) /\ NL \in 0..Torn /\ NL \notin Ids /\ 0 \in Days
  BY Constants DEF Tokens
<1> QED  BY <1>1 DEF Brings

LEMMA TokensAppended ==
  ASSUME TypeOK, NEW d \in Days, NEW i \in 0..Torn, NEW piece \in {<<i>>, <<i, NL>>},
         log' = [log EXCEPT ![d] = @ \o piece]
  PROVE  Tokens(i, d)
<1>1. /\ log[d] \in Seq(0..Torn) /\ piece \in Seq(0..Torn) /\ Len(piece) \in {1, 2} /\ piece[1] = i
      /\ Len(piece) = 2 => piece[2] = NL
  <2>1. log[d] \in Seq(0..Torn) /\ NL \in 0..Torn
    BY Constants DEF TypeOK
  <2>2. CASE piece = <<i>>
    BY <2>1, <2>2
  <2>3. CASE piece = <<i, NL>>
    BY <2>1, <2>3
  <2> QED  BY <2>1, <2>2, <2>3
<1>2. log'[d] = log[d] \o piece /\ \A e \in Days : e # d => log'[e] = log[e]
  BY DEF TypeOK
<1> HIDE DEF Tokens
<1>3. /\ Len(log[d]) \in Nat /\ Len(log'[d]) = Len(log[d]) + Len(piece)
      /\ \A k \in 1..Len(log[d]) + Len(piece) :
           log'[d][k] = IF k <= Len(log[d]) THEN log[d][k] ELSE piece[k - Len(log[d])]
  BY <1>1, <1>2, ConcatProperties, LenProperties
<1>4. ASSUME NEW k \in 1..Len(log'[d]), log'[d][k] \in Ids
      PROVE  \/ k \in 1..Len(log[d]) /\ log[d][k] = log'[d][k]
             \/ log'[d][k] = i /\ k = Len(log[d]) + 1
  <2>1. CASE k <= Len(log[d])
    BY <1>3, <2>1
  <2>2. CASE k = Len(log[d]) + 1
    BY <1>1, <1>3, <2>2
  <2>3. CASE k > Len(log[d]) + 1
    <3>1. Len(piece) = 2 /\ k - Len(log[d]) = 2
      <4>1. k \in 1..Len(log[d]) + Len(piece) /\ Len(log[d]) \in Nat /\ Len(piece) \in {1, 2}
        <5>1. k \in 1..Len(log'[d])
          OBVIOUS
        <5>2. Len(log'[d]) = Len(log[d]) + Len(piece)
          BY <1>3, Zenon
        <5> QED  BY <1>1, <1>3, <5>1, <5>2, Zenon
      <4>2. \A a \in Nat, b \in {1, 2} : \A x \in 1..a + b : x > a + 1 => b = 2 /\ x - a = 2
        OBVIOUS
      <4> QED  BY <2>3, <4>1, <4>2, Zenon
    <3>2. log'[d][k] = NL
      BY <1>1, <1>3, <2>3, <3>1
    <3> QED  BY <1>4, <3>2, Constants
  <2> QED  BY <1>3, <2>1, <2>2, <2>3
<1> QED  BY <1>2, <1>4 DEF Tokens
LEMMA FixBrings ==
  ASSUME TypeOK, NEW p \in Procs, Fix(p)  PROVE  Brings(p)
<1>1. CASE proc[p].day \in live
  <2>1. proc[p].day \in Days /\ log' = [log EXCEPT ![proc[p].day] = @ \o <<NL>>]
    BY <1>1 DEF Fix, AppendTo, TypeOK
  <2>2. Tokens(NL, proc[p].day)
    BY <2>1, TokensAppended, Constants
  <2> QED  BY <2>1, <2>2, Constants DEF Brings
<1>2. CASE proc[p].day \notin live
  BY <1>2, BringsNothing DEF Fix
<1> QED  BY <1>1, <1>2

LEMMA WriteBrings ==
  ASSUME TypeOK, NEW p \in Procs, At(p, "write"), ~WritingAt(proc'[p]),
         NEW i \in {Torn, proc[p].id}, NEW piece \in {<<i>>, <<i, NL>>},
         IF proc[p].unlinked THEN UNCHANGED <<log, wrote, late>> ELSE AppendTo(proc[p].day, piece)
  PROVE  Brings(p)
<1>1. CASE proc[p].unlinked
  BY <1>1, BringsNothing
<1>2. CASE ~proc[p].unlinked
  <2>1. proc[p].day \in Days /\ proc[p].id \in Ids
    BY DEF TypeOK, Process
  <2>2. log' = [log EXCEPT ![proc[p].day] = @ \o piece] /\ i \in 0..Torn
    BY <1>2, <2>1, Constants DEF AppendTo
  <2>3. Tokens(i, proc[p].day)
    BY <2>1, <2>2, TokensAppended
  <2>4. i \in Ids => i = proc[p].id
    BY Constants
  <2> QED  BY <2>1, <2>2, <2>3, <2>4 DEF Brings, WritingAt, At
<1> QED  BY <1>1, <1>2

LEMMA RemoveBrings ==
  ASSUME TypeOK, Shape, NEW p \in Procs, RemoveSegment(p)  PROVE  Brings(p)
<1>1. PICK d \in proc[p].todo :
           /\ d \in Days /\ NewerIn(live, d) /\ live' = live \ {d} /\ log' = [log EXCEPT ![d] = <<>>]
           /\ proc' = [q \in Procs |-> AfterRemoval(p, q, d)]
           /\ At(p, "clean") /\ \A e \in proc[p].todo : d <= e /\ e \in Days
           /\ UNCHANGED <<now, entries, offset, counted, faults, ghosts>>
  BY Removal
<1>2. Len(<<>>) = 0 /\ log'[d] = <<>> /\ \A e \in Days : e # d => log'[e] = log[e]
  BY <1>1, EmptySeq DEF TypeOK
<1>3. Tokens(NL, 0)
  BY <1>2 DEF Tokens
<1> QED  BY <1>3, Constants DEF Brings

LEMMA BeginNumbered ==
  ASSUME TypeOK, TypeOK', Shape, Numbered, NEW p \in Procs, NEW s \in Sessions, NEW k \in Kinds, Begin(p, s, k)
  PROVE  Numbered'
<1> DEFINE i == Len(entries) + 1
           stage == IF log[SegmentOf(now)] = <<>> \/ Last(log[SegmentOf(now)]) = NL THEN "write" ELSE "fix"
<1>1. /\ proc' = [proc EXCEPT ![p].pc = stage, ![p].id = i, ![p].day = SegmentOf(now)]
      /\ entries' = Append(entries, [session |-> s, kind |-> k, ts |-> now])
      /\ Len(entries) < MaxEntries /\ At(p, "idle") /\ UNCHANGED <<log, counted>>
  BY DEF Begin
<1>2. Len(entries) \in Nat /\ Len(entries') = i /\ i \in Ids /\ i > Len(entries) /\ i \in Nat
  <2> DEFINE new == [session |-> s, kind |-> k, ts |-> now]
  <2>1. entries \in Seq(Entry) /\ new \in Entry
    BY DEF TypeOK, Entry
  <2> HIDE DEF new
  <2>2. Len(entries) \in Nat /\ Len(Append(entries, new)) = Len(entries) + 1
    BY <2>1, LenProperties, AppendProperties
  <2>3. Len(entries') = i
    BY <1>1, <2>2 DEF new
  <2> QED  BY <1>1, <2>2, <2>3, Constants DEF Ids
<1>3. Unwritten(i, log, counted, proc)
  BY <1>2 DEF Numbered
<1> HIDE DEF stage, i
<1>4. /\ proc'[p].id = i /\ proc'[p].batch = proc[p].batch /\ proc'[p].pairs = proc[p].pairs
      /\ \A q \in Procs : q # p => proc'[q] = proc[q]
  BY <1>1 DEF TypeOK, Process
<1>5. \A j : Unwritten(j, log, counted, proc) => Unwritten(j, log', counted', proc')
  BY <1>1, <1>4 DEF Unwritten
<1>6. PlacedOnce(log')
  BY <1>1 DEF Numbered
<1>7. \A j \in Ids : j > Len(entries') => Unwritten(j, log', counted', proc')
  <2>1. \A j \in Ids : j > i => j > Len(entries)
    BY <1>2, Constants
  <2> QED  BY <1>2, <1>5, <2>1 DEF Numbered
<1>8. ASSUME NEW q \in Procs, WritingAt(proc'[q])
      PROVE  /\ proc'[q].id <= Len(entries') /\ Unwritten(proc'[q].id, log', counted', proc')
             /\ q # p => proc'[q].id # i /\ proc'[q] = proc[q] /\ WritingAt(proc[q])
  <2>1. CASE q = p
    BY <1>2, <1>3, <1>4, <1>5, <2>1
  <2>2. CASE q # p
    <3>1. proc'[q] = proc[q] /\ proc[q].id <= Len(entries) /\ Unwritten(proc[q].id, log, counted, proc)
      BY <1>4, <1>8, <2>2 DEF Numbered
    <3>2. proc[q].id \in Nat
      BY Constants DEF TypeOK, Process
    <3>3. proc[q].id <= i /\ proc[q].id # i
      BY <1>2, <3>1, <3>2
    <3> QED  BY <1>2, <1>5, <1>8, <3>1, <3>3
  <2> QED  BY <2>1, <2>2
<1>9. \A q, r \in Procs : WritingAt(proc'[q]) /\ WritingAt(proc'[r]) /\ proc'[q].id = proc'[r].id => q = r
  BY <1>4, <1>8 DEF Numbered
<1>10. \A q \in Procs : PairsAreRead(proc'[q])
  BY <1>4 DEF Numbered, PairsAreRead
<1> QED  BY <1>6, <1>7, <1>8, <1>9, <1>10 DEF Numbered

\* A process that goes to another stage.
LEMMA GoneParts ==
  ASSUME TypeOK, NEW p \in Procs, NEW stage \in Stages
  PROVE  /\ GoneTo(p, stage).pc = stage
         /\ GoneTo(p, stage).batch \in {<<>>, proc[p].batch}
         /\ \/ GoneTo(p, stage).pairs = <<>>
            \/ GoneTo(p, stage).pairs = proc[p].pairs /\ GoneTo(p, stage).batch = proc[p].batch
         /\ stage # "idle" => GoneTo(p, stage).id = proc[p].id
<1>1. CASE stage = "idle"
  BY <1>1 DEF GoneTo, Idle
<1>2. CASE stage # "idle"
  BY <1>2 DEF GoneTo, TypeOK, Process
<1> QED  BY <1>1, <1>2

LEMMA GoneNumbered ==
  ASSUME TypeOK, TypeOK', Numbered, entries' = entries, counted' = counted, NEW p \in Procs, Brings(p),
         NEW stage \in Stages, proc' = [proc EXCEPT ![p] = GoneTo(p, stage)],
         stage \in {"fix", "write"} => WritingAt(proc[p])
  PROVE  Numbered'
<1> DEFINE m == GoneTo(p, stage)
<1>1. /\ m.pc = stage /\ m.batch \in {<<>>, proc[p].batch}
      /\ m.pairs = <<>> \/ (m.pairs = proc[p].pairs /\ m.batch = proc[p].batch)
      /\ stage # "idle" => m.id = proc[p].id
  BY GoneParts
<1>2. WritingAt(m) => WritingAt(proc[p]) /\ m.id = proc[p].id
  BY <1>1 DEF WritingAt
<1> HIDE DEF m
<1>3. proc' = [proc EXCEPT ![p] = m]
  BY DEF m
<1> QED  BY <1>1, <1>2, <1>3, NumberedOne
LEMMA WriteNumbered ==
  ASSUME TypeOK, TypeOK', Numbered, NEW p \in Procs, Write(p)  PROVE  Numbered' /\ Brings(p)
<1> DEFINE victims == Prunable(live, log')
           m == [proc[p] EXCEPT !.pc = "clean", !.todo = victims]
<1>1. /\ At(p, "write") /\ UNCHANGED <<entries, counted>>
      /\ proc' = [proc EXCEPT ![p] = IF victims = {} THEN GoneTo(p, PassOf(p)) ELSE m]
      /\ IF proc[p].unlinked THEN UNCHANGED <<log, wrote, late>> ELSE AppendTo(proc[p].day, <<proc[p].id, NL>>)
  BY DEF Write, Goto
<1>2. /\ PassOf(p) \in {"idle", "load"} /\ PassOf(p) \in Stages /\ GoneTo(p, PassOf(p)).pc = PassOf(p)
      /\ proc[p] \in Process
  BY PassTyped, GoneTyped DEF Stages, TypeOK
<1>3. m.pc = "clean" /\ m.batch = proc[p].batch /\ m.pairs = proc[p].pairs
  BY <1>2 DEF Process
<1> HIDE DEF victims, m
<1>4. ~WritingAt(proc'[p])
  BY <1>1, <1>2, <1>3 DEF WritingAt, TypeOK
<1>5. Brings(p)
  BY <1>1, <1>4, WriteBrings
<1>6. CASE victims = {}
  BY <1>1, <1>2, <1>5, <1>6, GoneNumbered
<1>7. CASE victims # {}
  <2>1. proc' = [proc EXCEPT ![p] = m] /\ ~WritingAt(m)
    BY <1>1, <1>3, <1>7 DEF WritingAt
  <2> QED  BY <1>1, <1>3, <1>5, <2>1, NumberedOne
<1> QED  BY <1>5, <1>6, <1>7

LEMMA WriteTornNumbered ==
  ASSUME TypeOK, TypeOK', Numbered, NEW p \in Procs, NEW survives \in BOOLEAN, WriteTorn(p, survives)
  PROVE  Numbered' /\ Brings(p)
<1> DEFINE stage == IF survives THEN PassOf(p) ELSE "idle"
<1>1. /\ proc' = [proc EXCEPT ![p] = GoneTo(p, stage)] /\ At(p, "write") /\ UNCHANGED <<entries, counted>>
  BY DEF WriteTorn, Goto
<1>2. PICK rest \in {Torn, proc[p].id} :
        IF proc[p].unlinked THEN UNCHANGED <<log, wrote, late>> ELSE AppendTo(proc[p].day, <<rest>>)
  BY DEF WriteTorn
<1>3. stage \in {"idle", "load"} /\ stage \in Stages
  BY PassTyped DEF Stages
<1> HIDE DEF stage
<1>4. ~WritingAt(proc'[p])
  BY <1>1, <1>3, GoneParts DEF WritingAt, TypeOK
<1>5. Brings(p)
  BY <1>1, <1>2, <1>4, WriteBrings
<1> QED  BY <1>1, <1>3, <1>5, GoneNumbered

LEMMA RemoveNumbered ==
  ASSUME TypeOK, TypeOK', Shape, Numbered, NEW p \in Procs, RemoveSegment(p)  PROVE  Numbered'
<1>1. PICK d \in proc[p].todo :
           /\ d \in Days /\ NewerIn(live, d) /\ live' = live \ {d} /\ log' = [log EXCEPT ![d] = <<>>]
           /\ proc' = [q \in Procs |-> AfterRemoval(p, q, d)]
           /\ At(p, "clean") /\ \A e \in proc[p].todo : d <= e /\ e \in Days
           /\ UNCHANGED <<now, entries, offset, counted, faults, ghosts>>
  BY Removal
<1>2. Brings(p)
  BY RemoveBrings
<1>3. ASSUME NEW q \in Procs
      PROVE  /\ \A f \in Range(proc'[q].batch) : f \in Range(proc[q].batch)
             /\ WritingAt(proc'[q]) => WritingAt(proc[q]) /\ proc'[q].id = proc[q].id
             /\ PairsAreRead(proc'[q])
  <2>0. Range(<<>>) = {} /\ Len(<<>>) = 0
    BY EmptySeq DEF Range
  <2>1. proc'[q] = AfterRemoval(p, q, d) /\ proc[q] \in Process /\ PairsAreRead(proc[q]) /\ PairsAreRead(proc[p])
    BY <1>1 DEF TypeOK, Numbered
  <2>2. CASE q = p
    <3>1. /\ PassOf(p) \in {"idle", "load"} /\ PassOf(p) \in Stages
          /\ GoneTo(p, PassOf(p)) \in Process /\ GoneTo(p, PassOf(p)).pc = PassOf(p)
      BY PassTyped, GoneTyped DEF Stages
    <3>2. /\ GoneTo(p, PassOf(p)).batch \in {<<>>, proc[p].batch}
          /\ \/ GoneTo(p, PassOf(p)).pairs = <<>>
             \/ GoneTo(p, PassOf(p)).pairs = proc[p].pairs /\ GoneTo(p, PassOf(p)).batch = proc[p].batch
      BY <3>1, GoneParts
    <3> DEFINE m == AfterRemoval(p, q, d)
    <3>3. /\ m.pc \in {"clean", "idle", "load"} /\ m.batch \in {<<>>, proc[p].batch}
          /\ m.pairs = <<>> \/ (m.pairs = proc[p].pairs /\ m.batch = proc[p].batch)
      BY <1>1, <2>1, <2>2, <3>1, <3>2 DEF AfterRemoval, At, Process
    <3> HIDE DEF m
    <3>4. PairsAreRead(m)
      BY <2>0, <2>1, <3>3 DEF PairsAreRead
    <3>5. ~WritingAt(m) /\ \A f \in Range(m.batch) : f \in Range(proc[p].batch)
      BY <2>0, <3>3 DEF WritingAt
    <3> QED  BY <2>1, <2>2, <3>4, <3>5 DEF m
  <2>3. CASE q # p /\ At(q, "write") /\ proc[q].day = d
    <3>1. proc'[q] = [proc[q] EXCEPT !.unlinked = TRUE]
      BY <2>1, <2>3 DEF AfterRemoval
    <3>2. /\ proc'[q].pc = proc[q].pc /\ proc'[q].id = proc[q].id /\ proc'[q].batch = proc[q].batch
          /\ proc'[q].pairs = proc[q].pairs
      BY <2>1, <3>1 DEF Process
    <3> QED  BY <2>1, <3>2 DEF WritingAt, PairsAreRead
  <2>4. CASE q # p /\ ~(At(q, "write") /\ proc[q].day = d)
    <3>1. proc'[q] = proc[q]
      BY <2>1, <2>4 DEF AfterRemoval
    <3> QED  BY <2>1, <3>1
  <2> QED  BY <2>2, <2>3, <2>4
<1> QED  BY <1>1, <1>2, <1>3, NumberedStep

LEMMA LoadNumbered ==
  ASSUME TypeOK, TypeOK', Numbered, NEW p \in Procs, Load(p)  PROVE  Numbered'
<1> DEFINE todo == {d \in live : d >= offset.day}
           m == [Idle EXCEPT !.pc = IF todo = {} THEN "decide" ELSE "read", !.id = proc[p].id, !.todo = todo,
                             !.off = offset, !.next = offset, !.since = now]
<1>1. proc' = [proc EXCEPT ![p] = m] /\ log' = log /\ UNCHANGED <<entries, counted>>
  BY DEF Load, files
<1> HIDE DEF todo
<1>2. m.batch = <<>> /\ m.pairs = <<>> /\ ~WritingAt(m)
  BY DEF Idle, WritingAt
<1> HIDE DEF m
<1>3. Brings(p)
  BY <1>1, BringsNothing
<1> QED  BY <1>1, <1>2, <1>3, NumberedOne

\* What a pass reads lies in the segment.
LEMMA EntriesFrom ==
  ASSUME NEW data \in Seq(0..Torn), NEW from \in Nat
  PROVE  LET read == EntriesAt(data, from)
             at   == LinesAfter(data, from) IN
         /\ at \in SUBSET (1..Len(data)) /\ Len(read) = Cardinality(at) /\ Cardinality(at) \in Nat
         /\ \A k \in 1..Len(read) : Nth(at, k) \in at /\ read[k] = data[Nth(at, k)]
         /\ \A k, l \in 1..Len(read) : Nth(at, k) = Nth(at, l) => k = l
<1> DEFINE read == EntriesAt(data, from)
           at   == LinesAfter(data, from)
<1>1. Len(data) \in Nat /\ at \in SUBSET (1..Len(data))
  BY LenProperties DEF LinesAfter
<1>2. read = Picked(data, at)
  BY DEF EntriesAt
<1> HIDE DEF at
<1>3. Len(read) = Cardinality(at) /\ Cardinality(at) \in Nat
  BY <1>1, <1>2, PickedTyped
<1>4. \A k \in 1..Cardinality(at) : Nth(at, k) \in at /\ Cardinality({j \in at : j <= Nth(at, k)}) = k
  BY <1>1, NthExists
<1>5. \A k \in 1..Cardinality(at) : read[k] = data[Nth(at, k)]
  BY <1>2 DEF Picked
<1>6. \A k, l \in 1..Cardinality(at) : Nth(at, k) = Nth(at, l) => k = l
  BY <1>4
<1> HIDE DEF read
<1> QED  BY <1>1, <1>3, <1>4, <1>5, <1>6 DEF at, read

LEMMA ReadNumbered ==
  ASSUME TypeOK, TypeOK', Shape, Numbered, NEW p \in Procs, Read(p)  PROVE  Numbered'
<1>1. PICK d \in proc[p].todo :
           /\ d \in Days /\ \A e \in proc[p].todo : d <= e /\ e \in Days
           /\ log[d] \in Seq(0..Torn) /\ From(p, d) \in 0..Len(log[d]) /\ Len(log[d]) \in Nat
           /\ proc' = [proc EXCEPT ![p] = AfterReading(p, d)]
           /\ At(p, "read")
           /\ UNCHANGED <<now, entries, files, offset, counted, faults, ghosts>>
  BY Reading
<1>2. log' = log /\ UNCHANGED <<entries, counted>>
  BY <1>1 DEF files
<1> DEFINE read == EntriesAt(log[d], From(p, d))
           m == AfterReading(p, d)
<1>3. m.pc \in {"read", "decide"} /\ m.pairs = proc[p].pairs /\ m.batch \in {proc[p].batch, proc[p].batch \o read}
      /\ proc[p].batch \in Seq(Ids)
  <2>1. proc[p] \in Process
    BY DEF TypeOK
  <2> HIDE DEF read
  <2> QED  BY <2>1 DEF AfterReading, Process, read
<1>4. read \in Seq(Ids) /\ \A f \in Range(read) : \E k \in 1..Len(log[d]) : log[d][k] = f
  <2>0. From(p, d) \in Nat
    BY <1>1
  <2>1. /\ LinesAfter(log[d], From(p, d)) \in SUBSET (1..Len(log[d]))
        /\ \A k \in 1..Len(read) : /\ Nth(LinesAfter(log[d], From(p, d)), k) \in LinesAfter(log[d], From(p, d))
                                   /\ read[k] = log[d][Nth(LinesAfter(log[d], From(p, d)), k)]
    BY <1>1, <2>0, EntriesFrom
  <2>2. read \in Seq(Ids)
    BY <1>1, <2>0, EntriesTyped
  <2> HIDE DEF read
  <2>3. \A f \in Range(read) : \E k \in 1..Len(read) : f = read[k]
    BY <2>2 DEF Range
  <2> QED  BY <2>1, <2>2, <2>3
<1> HIDE DEF m, read
<1>10. Range(proc[p].batch \o read) = Range(proc[p].batch) \cup Range(read)
  BY <1>3, <1>4, RangeOfConcat
<1>5. \A f \in Range(m.batch) : f \in Range(proc[p].batch) \/ f \in Range(read)
  BY <1>3, <1>10, Zenon
<1>6. \A f \in Range(proc[p].batch) : f \in Range(m.batch)
  BY <1>3, <1>10, Zenon
<1>7. PairsAreRead(m)
  BY <1>3, <1>6 DEF Numbered, PairsAreRead
<1>8. ASSUME NEW q \in Procs
      PROVE  /\ \A f \in Range(proc'[q].batch) :
                   f \in Range(proc[q].batch) \/ \E e \in Days : \E k \in 1..Len(log[e]) : log[e][k] = f
             /\ WritingAt(proc'[q]) => WritingAt(proc[q]) /\ proc'[q].id = proc[q].id
             /\ PairsAreRead(proc'[q])
  <2>1. CASE q = p
    <3>1. proc'[q] = m
      BY <1>1, <2>1 DEF TypeOK, m
    <3> QED  BY <1>1, <1>3, <1>4, <1>5, <1>7, <2>1, <3>1 DEF WritingAt
  <2>2. CASE q # p
    <3>1. proc'[q] = proc[q]
      BY <1>1, <2>2 DEF TypeOK
    <3> QED  BY <3>1 DEF Numbered
  <2> QED  BY <2>1, <2>2
<1>9. Brings(p)
  BY <1>2, BringsNothing
<1> QED  BY <1>2, <1>8, <1>9, NumberedStep
LEMMA DecideNumbered ==
  ASSUME TypeOK, TypeOK', Numbered, NEW p \in Procs, Decide(p)  PROVE  Numbered'
<1>1. /\ At(p, "decide") /\ proc[p] \in Process
      /\ \/ proc' = [proc EXCEPT ![p] = GoneTo(p, "idle")]
         \/ proc' = [proc EXCEPT ![p] = AfterDeciding(p)]
      /\ UNCHANGED <<now, entries, files, offset, counted, faults, wrote, late, handed, shared, anchors>>
  BY Deciding
<1>2. Brings(p) /\ UNCHANGED <<entries, counted>>
  BY <1>1, BringsNothing DEF files
<1>3. CASE proc' = [proc EXCEPT ![p] = GoneTo(p, "idle")]
  BY <1>2, <1>3, GoneNumbered DEF Stages
<1>4. CASE proc' = [proc EXCEPT ![p] = AfterDeciding(p)]
  <2> DEFINE m == AfterDeciding(p)
             pairs == PairsOf(proc[p].batch, proc[p].off)
             at == {i \in Failures(proc[p].batch) : Corrected(proc[p].batch, i)}
  <2>1. proc[p].batch \in Seq(Ids) /\ proc[p].off \in Offset
    BY <1>1 DEF Process
  <2>2. \A k \in 1..Len(pairs) : Nth(at, k) \in 1..Len(proc[p].batch) /\ pairs[k].f = proc[p].batch[Nth(at, k)]
    BY <2>1, PairsTyped
  <2> HIDE DEF pairs, at
  <2>3. m.pc \in {"store", "derive"} /\ m.batch = proc[p].batch /\ m.pairs = pairs
    BY <1>1 DEF AfterDeciding, Process, pairs
  <2> HIDE DEF m
  <2>4. PairsAreRead(m)
    BY <2>1, <2>2, <2>3 DEF PairsAreRead, Range
  <2>5. ASSUME NEW q \in Procs
        PROVE  /\ \A f \in Range(proc'[q].batch) : f \in Range(proc[q].batch)
               /\ WritingAt(proc'[q]) => WritingAt(proc[q]) /\ proc'[q].id = proc[q].id
               /\ PairsAreRead(proc'[q])
    <3>1. q # p => proc'[q] = proc[q]
      BY <1>4 DEF TypeOK
    <3>2. proc'[p] = m
      BY <1>4 DEF TypeOK, m
    <3> QED  BY <2>3, <2>4, <3>1, <3>2 DEF WritingAt, Numbered
  <2> QED  BY <1>2, <2>5, NumberedStep
<1> QED  BY <1>1, <1>3, <1>4

LEMMA DeriveNumbered ==
  ASSUME TypeOK, TypeOK', Shape, Numbered, NEW p \in Procs, Derive(p)  PROVE  Numbered'
<1> DEFINE pairs == proc[p].pairs
           m == AfterDeriving(p)
<1>1. /\ At(p, "derive") /\ proc[p] \in Process /\ pairs \in Seq(Pair) /\ pairs # <<>>
      /\ Head(pairs) \in Pair /\ Head(pairs).f \in Ids
      /\ counted' = [counted EXCEPT ![Head(pairs).f] = @ + 1]
      /\ proc' = [proc EXCEPT ![p] = m]
      /\ UNCHANGED <<now, entries, files, offset, faults, wrote, late, handed, crossed, shared>>
  BY Deriving
<1>2. Brings(p) /\ entries' = entries
  BY <1>1, BringsNothing DEF files
<1>3. m.pc \in {"store", "derive"} /\ m.batch = proc[p].batch /\ m.pairs = Tail(pairs)
  BY <1>1 DEF AfterDeriving, Process
<1> HIDE DEF m, pairs
<1>4. /\ Len(pairs) \in Nat \ {0} /\ Head(pairs) = pairs[1] /\ Len(Tail(pairs)) = Len(pairs) - 1
      /\ \A i \in 1..Len(Tail(pairs)) : Tail(pairs)[i] = pairs[i + 1]
  <2>1. Len(pairs) \in Nat \ {0}
    BY <1>1, LenProperties, EmptySeq
  <2>2. Len(Tail(pairs)) = Len(pairs) - 1 /\ \A i \in 1..Len(Tail(pairs)) : Tail(pairs)[i] = pairs[i + 1]
    BY <1>1, HeadTailProperties
  <2> QED  BY <1>1, <2>1, <2>2
<1>5. PairsAreRead(proc[p])
  BY DEF Numbered
<1>6. Head(pairs).f \in Range(proc[p].batch)
  <2>1. 1 \in 1..Len(pairs)
    BY <1>4
  <2> QED  BY <1>4, <1>5, <2>1 DEF PairsAreRead, pairs
<1>7. PairsAreRead(m)
  <2>1. ASSUME NEW i \in 1..Len(Tail(pairs))  PROVE  Tail(pairs)[i].f \in Range(proc[p].batch)
    <3>1. i + 1 \in 1..Len(pairs) /\ Tail(pairs)[i] = pairs[i + 1]
      BY <1>4
    <3> QED  BY <1>5, <3>1 DEF PairsAreRead, pairs
  <2> QED  BY <1>3, <2>1 DEF PairsAreRead
<1>8. \A f \in Ids : counted'[f] = counted[f] \/ \E q \in Procs : f \in Range(proc[q].batch)
  BY <1>1, <1>6 DEF TypeOK
<1>9. ASSUME NEW q \in Procs
      PROVE  /\ \A f \in Range(proc'[q].batch) : f \in Range(proc[q].batch)
             /\ WritingAt(proc'[q]) => WritingAt(proc[q]) /\ proc'[q].id = proc[q].id
             /\ PairsAreRead(proc'[q])
  <2>1. q # p => proc'[q] = proc[q]
    BY <1>1 DEF TypeOK
  <2>2. proc'[p] = m
    BY <1>1 DEF TypeOK
  <2> QED  BY <1>3, <1>7, <2>1, <2>2 DEF WritingAt, Numbered
<1> QED  BY <1>2, <1>8, <1>9, NumberedStep

LEMMA StepNumbered == TypeOK /\ TypeOK' /\ Shape /\ Numbered /\ [Next]_vars => Numbered'
<1> SUFFICES ASSUME TypeOK, TypeOK', Shape, Numbered, [Next]_vars  PROVE  Numbered'
  OBVIOUS
<1>1. CASE Tick \/ UNCHANGED vars
  BY <1>1 DEF Tick, vars, files, ghosts, Numbered, PlacedOnce, Unwritten
<1>2. CASE \E p \in Procs, s \in Sessions, k \in Kinds : Begin(p, s, k)
  BY <1>2, BeginNumbered
<1>3. CASE \E p \in Procs : Fix(p)
  <2>1. PICK p \in Procs : Fix(p)
    BY <1>3
  <2>2. /\ proc' = [proc EXCEPT ![p] = GoneTo(p, "write")] /\ UNCHANGED <<entries, counted>>
        /\ WritingAt(proc[p]) /\ "write" \in Stages
    BY <2>1 DEF Fix, Goto, At, WritingAt, Stages
  <2> QED  BY <2>1, <2>2, FixBrings, GoneNumbered
<1>4. CASE \E p \in Procs : Write(p) \/ RemoveSegment(p)
  BY <1>4, WriteNumbered, RemoveNumbered
<1>5. CASE \E p \in Procs, survives \in BOOLEAN : WriteTorn(p, survives)
  BY <1>5, WriteTornNumbered
<1>6. CASE \E p \in Procs : Load(p) \/ Read(p) \/ Decide(p) \/ Derive(p)
  BY <1>6, LoadNumbered, ReadNumbered, DecideNumbered, DeriveNumbered
<1>7. CASE \E p \in Procs : StoreOffset(p) \/ Stop(p)
  <2>1. PICK p \in Procs : StoreOffset(p) \/ Stop(p)
    BY <1>7
  <2>2. /\ proc' = [proc EXCEPT ![p] = GoneTo(p, "idle")] /\ UNCHANGED <<entries, counted, log>>
        /\ "idle" \in Stages
    BY <2>1 DEF StoreOffset, Stop, Goto, files, Stages
  <2> QED  BY <2>2, BringsNothing, GoneNumbered
<1> QED  BY <1>1, <1>2, <1>3, <1>4, <1>5, <1>6, <1>7 DEF Next

-----------------------------------------------------------------------------
(***************************************************************************)
(* Passes that neither overlap nor fail count a failure once.              *)
(*                                                                         *)
(* While no pass overlapped another, was killed or failed, what has been   *)
(* counted lies behind the offset, or behind the end of what the one pass  *)
(* under way has read; a batch holds each entry once, and until the pass   *)
(* records its pairs nothing in it has been counted.                       *)
(***************************************************************************)
RecordingAt(m) == m.pc \in {"derive", "store"}

\* Every line of f lies behind o.
Spent(f, o, held) ==
  \A d \in Days : \A k \in 1..Len(held[d]) : held[d][k] = f => d < o.day \/ (d = o.day /\ k <= o.byte)

Single(m, held, cnt, o) ==
  InPassAt(m) =>
    /\ \A f \in Ids : cnt[f] > 0 \/ f \in Range(m.batch) => Spent(f, m.next, held)
    /\ \A i, j \in 1..Len(m.batch) : m.batch[i] = m.batch[j] => i = j
    /\ m.pc \in {"read", "decide"} => m.off = o /\ \A f \in Range(m.batch) : cnt[f] = 0
    /\ m.pc = "read" => \A d \in m.todo : d > m.next.day \/ (m.next = m.off /\ d >= m.off.day)
    /\ \A i \in 1..Len(m.pairs) : cnt[m.pairs[i].f] = 0
    /\ \A i, j \in 1..Len(m.pairs) : m.pairs[i].f = m.pairs[j].f => i = j

Counting ==
  ~shared =>
    /\ \A f \in Ids : counted[f] <= 1
    /\ \A p, q \in Procs : InPassAt(proc[p]) /\ InPassAt(proc[q]) => p = q
    /\ (\A p \in Procs : ~RecordingAt(proc[p])) => \A f \in Ids : counted[f] > 0 => Spent(f, offset, log)
    /\ \A p \in Procs : Single(proc[p], log, counted, offset)

LEMMA CountingAtStart == Init => Counting
<1> SUFFICES ASSUME Init  PROVE  Counting
  OBVIOUS
<1>1. \A p \in Procs : ~InPassAt(proc[p])
  BY DEF Init, Idle, InPassAt
<1>2. \A f \in Ids : counted[f] = 0
  BY DEF Init
<1> QED  BY <1>1, <1>2 DEF Counting, Single

\* What was read or counted does not come up again.
LEMMA SpentKept ==
  ASSUME TypeOK, Numbered, NEW p \in Procs, Brings(p), NEW f \in Ids, NEW o, Spent(f, o, log),
         counted[f] > 0 \/ \E q \in Procs : f \in Range(proc[q].batch)
  PROVE  Spent(f, o, log')
<1>1. PICK i \in 0..Torn, e \in Days :
        Tokens(i, e) /\ (i \in Ids => WritingAt(proc[p]) /\ ~WritingAt(proc'[p]) /\ i = proc[p].id)
  BY DEF Brings
<1>2. f # i
  <2>1. SUFFICES ASSUME f = i  PROVE  FALSE
    OBVIOUS
  <2>2. Unwritten(f, log, counted, proc)
    BY <1>1, <2>1 DEF Numbered
  <2> QED  BY <2>2 DEF Unwritten
<1>3. ASSUME NEW d \in Days, NEW k \in 1..Len(log'[d]), log'[d][k] = f
      PROVE  k \in 1..Len(log[d]) /\ log[d][k] = f
  BY <1>1, <1>2, <1>3 DEF Tokens
<1> QED  BY <1>3 DEF Spent

LEMMA SingleKept ==
  ASSUME TypeOK, Numbered, NEW p \in Procs, Brings(p), counted' = counted, offset' = offset,
         NEW q \in Procs, Single(proc[q], log, counted, offset)
  PROVE  Single(proc[q], log', counted', offset')
<1> SUFFICES ASSUME InPassAt(proc[q])  PROVE  Single(proc[q], log', counted', offset')
  BY DEF Single
<1>1. \A f \in Ids : counted[f] > 0 \/ f \in Range(proc[q].batch) => Spent(f, proc[q].next, log')
  BY SpentKept DEF Single
<1> QED  BY <1>1 DEF Single

\* A step that begins, ends and changes no pass.
LEMMA CountingOutside ==
  ASSUME TypeOK, Numbered, Counting, NEW p \in Procs, Brings(p), UNCHANGED <<counted, offset, shared>>,
         \A q \in Procs : proc'[q] = proc[q] \/ (~InPassAt(proc[q]) /\ ~InPassAt(proc'[q]))
  PROVE  Counting'
<1> SUFFICES ASSUME ~shared  PROVE  Counting'
  BY DEF Counting
<1>1. /\ \A f \in Ids : counted[f] <= 1
      /\ \A q, r \in Procs : InPassAt(proc[q]) /\ InPassAt(proc[r]) => q = r
      /\ (\A q \in Procs : ~RecordingAt(proc[q])) => \A f \in Ids : counted[f] > 0 => Spent(f, offset, log)
      /\ \A q \in Procs : Single(proc[q], log, counted, offset)
  BY DEF Counting
<1>2. \A q \in Procs : Single(proc'[q], log', counted', offset')
  <2>1. \A q \in Procs : Single(proc[q], log', counted', offset')
    BY <1>1, SingleKept
  <2> QED  BY <2>1 DEF Single
<1>3. (\A q \in Procs : ~RecordingAt(proc'[q])) => \A q \in Procs : ~RecordingAt(proc[q])
  BY DEF RecordingAt, InPassAt
<1>4. (\A q \in Procs : ~RecordingAt(proc'[q])) => \A f \in Ids : counted'[f] > 0 => Spent(f, offset', log')
  BY <1>1, <1>3, SpentKept
<1>5. \A q, r \in Procs : InPassAt(proc'[q]) /\ InPassAt(proc'[r]) => q = r
  BY <1>1
<1> QED  BY <1>1, <1>2, <1>4, <1>5 DEF Counting

\* The pass of p is the only one, before a step of it and afterwards.
LEMMA CountingInside ==
  ASSUME TypeOK, Counting, ~shared, NEW p \in Procs, InPassAt(proc[p]), NEW m, proc' = [proc EXCEPT ![p] = m],
         \A f \in Ids : counted'[f] <= 1,
         ~RecordingAt(m) => \A f \in Ids : counted'[f] > 0 => Spent(f, offset', log'),
         Single(m, log', counted', offset')
  PROVE  Counting'
<1>1. \A q \in Procs : q # p => ~InPassAt(proc[q]) /\ proc'[q] = proc[q]
  BY DEF Counting, TypeOK
<1>2. proc'[p] = m
  BY DEF TypeOK
<1>3. \A q \in Procs : Single(proc'[q], log', counted', offset')
  BY <1>1, <1>2 DEF Single
<1>4. \A q, r \in Procs : InPassAt(proc'[q]) /\ InPassAt(proc'[r]) => q = r
  BY <1>1
<1> QED  BY <1>2, <1>3, <1>4 DEF Counting

LEMMA LoadCounting ==
  ASSUME TypeOK, Counting, NEW p \in Procs, Load(p)  PROVE  Counting'
<1> DEFINE todo == {d \in live : d >= offset.day}
           m == [Idle EXCEPT !.pc = IF todo = {} THEN "decide" ELSE "read", !.id = proc[p].id, !.todo = todo,
                             !.off = offset, !.next = offset, !.since = now]
<1>1. /\ At(p, "load") /\ proc' = [proc EXCEPT ![p] = m]
      /\ shared' = (shared \/ \E q \in Procs \ {p} : InPass(q))
      /\ UNCHANGED <<log, counted, offset>>
  BY DEF Load, files
<1> SUFFICES ASSUME ~shared'  PROVE  Counting'
  BY DEF Counting
<1>2. ~shared /\ \A q \in Procs : ~InPassAt(proc[q])
  BY <1>1 DEF InPass, InPassAt, At
<1>3. (\A f \in Ids : counted[f] <= 1) /\ \A f \in Ids : counted[f] > 0 => Spent(f, offset, log)
  BY <1>2 DEF Counting, RecordingAt, InPassAt
<1>4. \A d \in todo : d >= offset.day
  OBVIOUS
<1> HIDE DEF todo
<1>5. /\ m.pc \in {"read", "decide"} /\ m.batch = <<>> /\ m.pairs = <<>> /\ m.off = offset /\ m.next = offset
      /\ m.todo = todo
  BY DEF Idle
<1> HIDE DEF m
<1>6. Range(<<>>) = {} /\ Len(<<>>) = 0
  BY EmptySeq DEF Range
<1>7. Single(m, log', counted', offset')
  BY <1>1, <1>3, <1>4, <1>5, <1>6 DEF Single
<1>8. proc'[p] = m /\ \A q \in Procs : q # p => proc'[q] = proc[q]
  BY <1>1 DEF TypeOK
<1>9. \A q \in Procs : Single(proc'[q], log', counted', offset')
  BY <1>2, <1>7, <1>8 DEF Single
<1>10. \A q, r \in Procs : InPassAt(proc'[q]) /\ InPassAt(proc'[r]) => q = r
  BY <1>2, <1>8
<1> QED  BY <1>1, <1>3, <1>9, <1>10 DEF Counting

LEMMA DecideCounting ==
  ASSUME TypeOK, Counting, NEW p \in Procs, Decide(p)  PROVE  Counting'
<1>1. /\ At(p, "decide") /\ proc[p] \in Process
      /\ \/ proc' = [proc EXCEPT ![p] = GoneTo(p, "idle")]
         \/ proc' = [proc EXCEPT ![p] = AfterDeciding(p)]
      /\ UNCHANGED <<now, entries, files, offset, counted, faults, wrote, late, handed, shared, anchors>>
  BY Deciding
<1> SUFFICES ASSUME ~shared  PROVE  Counting'
  BY <1>1 DEF Counting
<1>2. /\ InPassAt(proc[p]) /\ ~RecordingAt(proc[p]) /\ UNCHANGED <<counted, offset, log>>
      /\ Single(proc[p], log, counted, offset) /\ \A f \in Ids : counted[f] <= 1
  BY <1>1 DEF Counting, InPassAt, RecordingAt, At, files
<1>3. \A f \in Ids : counted[f] > 0 => Spent(f, offset, log)
  <2>1. \A q \in Procs : ~RecordingAt(proc[q])
    BY <1>2 DEF Counting, InPassAt, RecordingAt
  <2> QED  BY <2>1 DEF Counting
<1>4. CASE proc' = [proc EXCEPT ![p] = GoneTo(p, "idle")]
  <2>1. ~InPassAt(GoneTo(p, "idle"))
    BY GoneOutside
  <2>2. Single(GoneTo(p, "idle"), log', counted', offset')
    BY <2>1 DEF Single
  <2> QED  BY <1>2, <1>3, <1>4, <2>2, CountingInside
<1>5. CASE proc' = [proc EXCEPT ![p] = AfterDeciding(p)]
  <2> DEFINE m == AfterDeciding(p)
             pairs == PairsOf(proc[p].batch, proc[p].off)
             b == proc[p].batch
             at == {i \in Failures(b) : Corrected(b, i)}
  <2>1. b \in Seq(Ids) /\ proc[p].off \in Offset /\ Len(b) \in Nat
    BY <1>1, LenProperties DEF Process
  <2>2. /\ Len(pairs) = Cardinality(at)
        /\ \A k \in 1..Len(pairs) : Nth(at, k) \in 1..Len(b) /\ pairs[k].f = b[Nth(at, k)]
    BY <2>1, PairsTyped
  <2>3. \A k, l \in 1..Len(pairs) : Nth(at, k) = Nth(at, l) => k = l
    <3>1. at \in SUBSET (1..Len(b))
      BY DEF Failures
    <3> HIDE DEF at, pairs
    <3>2. \A k \in 1..Cardinality(at) : Cardinality({j \in at : j <= Nth(at, k)}) = k
      BY <2>1, <3>1, NthExists
    <3> QED  BY <2>2, <3>2
  <2> HIDE DEF at, pairs, b
  <2>4. m.pc \in {"store", "derive"} /\ m.batch = b /\ m.pairs = pairs /\ m.next = proc[p].next
    BY <1>1 DEF AfterDeciding, Process, pairs, b
  <2> HIDE DEF m
  <2>5. /\ \A f \in Ids : counted[f] > 0 \/ f \in Range(b) => Spent(f, m.next, log)
        /\ \A i, j \in 1..Len(b) : b[i] = b[j] => i = j
        /\ \A f \in Range(b) : counted[f] = 0
    BY <1>1, <1>2, <2>4 DEF Single, At, b
  <2>6. \A i \in 1..Len(pairs) : counted[pairs[i].f] = 0
    <3>1. \A i \in 1..Len(pairs) : pairs[i].f \in Range(b)
      BY <2>1, <2>2 DEF Range
    <3> QED  BY <2>5, <3>1
  <2>7. \A i, j \in 1..Len(pairs) : pairs[i].f = pairs[j].f => i = j
    BY <2>2, <2>3, <2>5
  <2>8. Single(m, log', counted', offset')
    BY <1>2, <2>4, <2>5, <2>6, <2>7 DEF Single
  <2> QED  BY <1>2, <1>3, <1>5, <2>8, CountingInside DEF m
<1> QED  BY <1>1, <1>4, <1>5

LEMMA DeriveCounting ==
  ASSUME TypeOK, Shape, Numbered, Counting, NEW p \in Procs, Derive(p)  PROVE  Counting'
<1> DEFINE pairs == proc[p].pairs
           m == AfterDeriving(p)
           g == Head(pairs).f
<1>1. /\ At(p, "derive") /\ proc[p] \in Process /\ pairs \in Seq(Pair) /\ pairs # <<>>
      /\ Head(pairs) \in Pair /\ g \in Ids
      /\ counted' = [counted EXCEPT ![g] = @ + 1]
      /\ proc' = [proc EXCEPT ![p] = m]
      /\ UNCHANGED <<now, entries, files, offset, faults, wrote, late, handed, crossed, shared>>
  BY Deriving
<1> SUFFICES ASSUME ~shared  PROVE  Counting'
  BY <1>1 DEF Counting
<1>2. /\ m.pc \in {"store", "derive"} /\ m.batch = proc[p].batch /\ m.pairs = Tail(pairs)
      /\ m.next = proc[p].next
  BY <1>1 DEF AfterDeriving, Process
<1> HIDE DEF m
<1>3. /\ InPassAt(proc[p]) /\ UNCHANGED <<offset, log>>
      /\ Single(proc[p], log, counted, offset) /\ \A f \in Ids : counted[f] <= 1
  BY <1>1 DEF Counting, InPassAt, At, files
<1>4. /\ Len(pairs) \in Nat \ {0} /\ g = pairs[1].f /\ Len(Tail(pairs)) = Len(pairs) - 1
      /\ \A i \in 1..Len(Tail(pairs)) : Tail(pairs)[i] = pairs[i + 1]
  <2>0. pairs \in Seq(Pair) /\ pairs # <<>>
    BY <1>1
  <2> HIDE DEF pairs
  <2>1. Len(pairs) \in Nat \ {0}
    BY <2>0, LenProperties, EmptySeq
  <2>2. Len(Tail(pairs)) = Len(pairs) - 1 /\ \A i \in 1..Len(Tail(pairs)) : Tail(pairs)[i] = pairs[i + 1]
    BY <2>0, HeadTailProperties
  <2> QED  BY <2>0, <2>1, <2>2
<1>5. /\ \A f \in Ids : counted[f] > 0 \/ f \in Range(proc[p].batch) => Spent(f, proc[p].next, log)
      /\ \A i, j \in 1..Len(proc[p].batch) : proc[p].batch[i] = proc[p].batch[j] => i = j
      /\ \A i \in 1..Len(pairs) : counted[pairs[i].f] = 0
      /\ \A i, j \in 1..Len(pairs) : pairs[i].f = pairs[j].f => i = j
  BY <1>3 DEF Single
<1>6. \A i \in 1..Len(pairs) : pairs[i].f \in Range(proc[p].batch)
  BY DEF Numbered, PairsAreRead
<1> HIDE DEF pairs, g
<1>7. 1 \in 1..Len(pairs) /\ counted[g] = 0 /\ g \in Range(proc[p].batch)
  BY <1>4, <1>5, <1>6
<1>8. counted'[g] = 1 /\ \A f \in Ids : f # g => counted'[f] = counted[f]
  BY <1>1, <1>7 DEF TypeOK
<1>9. \A f \in Ids : counted'[f] <= 1
  BY <1>3, <1>8
<1>10. \A f \in Ids : counted'[f] > 0 \/ f \in Range(m.batch) => Spent(f, m.next, log')
  BY <1>2, <1>3, <1>5, <1>7, <1>8
<1>11. \A i \in 1..Len(Tail(pairs)) : i + 1 \in 1..Len(pairs) /\ Tail(pairs)[i] = pairs[i + 1] /\ i + 1 # 1
  BY <1>4
<1>12. \A i \in 1..Len(m.pairs) : counted'[m.pairs[i].f] = 0
  <2>1. ASSUME NEW i \in 1..Len(Tail(pairs))  PROVE  counted'[Tail(pairs)[i].f] = 0
    <3>1. pairs[i + 1].f # g /\ counted[pairs[i + 1].f] = 0
      BY <1>4, <1>5, <1>7, <1>11
    <3>2. pairs[i + 1].f \in Ids
      <4>1. pairs[i + 1] \in Pair
        BY <1>1, <1>11, ElementOfSeq
      <4> QED  BY <4>1 DEF Pair
    <3> QED  BY <1>8, <1>11, <3>1, <3>2
  <2> QED  BY <1>2, <2>1
<1>13. \A i, j \in 1..Len(m.pairs) : m.pairs[i].f = m.pairs[j].f => i = j
  <2>1. ASSUME NEW i \in 1..Len(Tail(pairs)), NEW j \in 1..Len(Tail(pairs)), Tail(pairs)[i].f = Tail(pairs)[j].f
        PROVE  i = j
    <3>1. i + 1 = j + 1
      BY <1>5, <1>11, <2>1
    <3> QED  BY <3>1
  <2> QED  BY <1>2, <2>1
<1>14. Single(m, log', counted', offset')
  BY <1>2, <1>5, <1>10, <1>12, <1>13 DEF Single
<1>15. RecordingAt(m)
  BY <1>2 DEF RecordingAt
<1> QED  BY <1>1, <1>3, <1>9, <1>14, <1>15, CountingInside

LEMMA StoreCounting ==
  ASSUME TypeOK, Counting, NEW p \in Procs, StoreOffset(p)  PROVE  Counting'
<1>1. /\ At(p, "store") /\ proc' = [proc EXCEPT ![p] = GoneTo(p, "idle")] /\ offset' = proc[p].next
      /\ UNCHANGED <<log, counted, shared>>
  BY DEF StoreOffset, Goto, files
<1> SUFFICES ASSUME ~shared  PROVE  Counting'
  BY <1>1 DEF Counting
<1>2. InPassAt(proc[p]) /\ Single(proc[p], log, counted, offset) /\ \A f \in Ids : counted[f] <= 1
  BY <1>1 DEF Counting, InPassAt, At
<1>3. \A f \in Ids : counted'[f] > 0 => Spent(f, offset', log')
  BY <1>1, <1>2 DEF Single
<1>4. Single(GoneTo(p, "idle"), log', counted', offset')
  BY GoneOutside DEF Single
<1>5. \A f \in Ids : counted'[f] <= 1
  BY <1>1, <1>2
<1> QED  BY <1>1, <1>2, <1>3, <1>4, <1>5, CountingInside
\* A line that is read lies between where reading began and where it got.
LEMMA ReadBetween ==
  ASSUME NEW data \in Seq(0..Torn), NEW from \in 0..Len(data), NEW i \in LinesAfter(data, from)
  PROVE  i \in Nat /\ from < i /\ i <= Consumed(data, from) /\ i \in 1..Len(data) /\ data[i] \in Ids
<1>1. Len(data) \in Nat /\ i \in from + 1..Len(data) - 1 /\ data[i] \in Ids /\ data[i + 1] = NL
  BY LenProperties DEF LinesAfter
<1>2. /\ Consumed(data, from) \in from..Len(data)
      /\ \A j \in from + 1..Len(data) : data[j] = NL => j <= Consumed(data, from)
  BY ConsumedTyped
<1> DEFINE end == Consumed(data, from)
<1> HIDE DEF end
<1>3. i + 1 \in from + 1..Len(data)
  BY <1>1
<1>4. i + 1 <= end /\ end \in Nat
  BY <1>1, <1>2, <1>3 DEF end
<1> QED  BY <1>1, <1>4 DEF end

LEMMA ReadCounting ==
  ASSUME TypeOK, Shape, Numbered, Counting, NEW p \in Procs, Read(p)  PROVE  Counting'
<1>1. PICK d \in proc[p].todo :
           /\ d \in Days /\ \A e \in proc[p].todo : d <= e /\ e \in Days
           /\ log[d] \in Seq(0..Torn) /\ From(p, d) \in 0..Len(log[d]) /\ Len(log[d]) \in Nat
           /\ proc' = [proc EXCEPT ![p] = AfterReading(p, d)]
           /\ At(p, "read")
           /\ UNCHANGED <<now, entries, files, offset, counted, faults, ghosts>>
  BY Reading
<1> DEFINE m == proc[p]
           from == From(p, d)
           read == EntriesAt(log[d], from)
           at == LinesAfter(log[d], from)
           end == Consumed(log[d], from)
           n == AfterReading(p, d)
<1>2. UNCHANGED <<log, live, counted, offset, shared>>
  BY <1>1 DEF files, ghosts
<1> SUFFICES ASSUME ~shared  PROVE  Counting'
  BY <1>2 DEF Counting
<1>3. /\ m \in Process /\ m.pc = "read" /\ m.batch \in Seq(Ids) /\ m.off \in Offset /\ m.next \in Offset
      /\ d \in Nat /\ m.off.day \in Nat /\ m.off.byte \in Nat /\ m.next.day \in Nat /\ m.next.byte \in Nat
      /\ Len(m.batch) \in Nat /\ \A e \in m.todo : e \in Nat
  BY <1>1, Constants, LenProperties DEF TypeOK, Process, Offset, At
<1>4. /\ InPassAt(m) /\ ~RecordingAt(m)
      /\ Single(m, log, counted, offset) /\ \A f \in Ids : counted[f] <= 1
  BY <1>3 DEF Counting, InPassAt, RecordingAt
<1>5. \A f \in Ids : counted[f] > 0 => Spent(f, offset, log)
  <2>1. \A q \in Procs : ~RecordingAt(proc[q])
    BY <1>4 DEF Counting, InPassAt, RecordingAt
  <2> QED  BY <2>1 DEF Counting
<1>6. /\ \A f \in Ids : counted[f] > 0 \/ f \in Range(m.batch) => Spent(f, m.next, log)
      /\ \A i, j \in 1..Len(m.batch) : m.batch[i] = m.batch[j] => i = j
      /\ m.off = offset /\ \A f \in Range(m.batch) : counted[f] = 0
      /\ \A e \in m.todo : e > m.next.day \/ (m.next = m.off /\ e >= m.off.day)
      /\ \A i \in 1..Len(m.pairs) : counted[m.pairs[i].f] = 0
      /\ \A i, j \in 1..Len(m.pairs) : m.pairs[i].f = m.pairs[j].f => i = j
  BY <1>3, <1>4 DEF Single
<1>7. /\ read \in Seq(Ids) /\ Len(read) \in Nat /\ at \in SUBSET (1..Len(log[d]))
      /\ \A k \in 1..Len(read) : Nth(at, k) \in at /\ read[k] = log[d][Nth(at, k)]
      /\ \A k, l \in 1..Len(read) : Nth(at, k) = Nth(at, l) => k = l
  <2>1. from \in Nat
    BY <1>1
  <2>2. read \in Seq(Ids)
    BY <1>1, <2>1, EntriesTyped
  <2> HIDE DEF from
  <2> QED  BY <1>1, <2>1, <2>2, EntriesFrom, LenProperties
<1>8. /\ from \in 0..Len(log[d]) /\ end \in from..Len(log[d]) /\ end \in Nat /\ from \in Nat
      /\ \A i \in at : i \in Nat /\ from < i /\ i <= end /\ i \in 1..Len(log[d]) /\ log[d][i] \in Ids
  <2>1. from \in 0..Len(log[d]) /\ from \in Nat
    BY <1>1
  <2> HIDE DEF from
  <2>2. end \in from..Len(log[d])
    BY <1>1, <2>1, ConsumedTyped
  <2>3. \A i \in at : i \in Nat /\ from < i /\ i <= end /\ i \in 1..Len(log[d]) /\ log[d][i] \in Ids
    BY <1>1, <2>1, ReadBetween
  <2> HIDE DEF end, at
  <2> QED  BY <1>1, <2>1, <2>2, <2>3
<1>9. /\ n.off = m.off /\ n.todo = m.todo \ {d} /\ n.pc \in {"read", "decide"} /\ n.pairs = m.pairs
      /\ d \in live => n.batch = m.batch \o read /\ n.next = [day |-> d, byte |-> end]
      /\ d \notin live => n.batch = m.batch /\ n.next = m.next
  <2> HIDE DEF from, read, end, at
  <2> QED  BY <1>3 DEF AfterReading, Process, from, read, end
<1>10. from = IF d = m.off.day THEN Smaller(m.off.byte, Len(log[d])) ELSE 0
  BY DEF From
<1>11. d \in m.todo
  OBVIOUS
<1> HIDE DEF m, n, from, read, end, at
\* What is spent has no line that is read now.
<1>12. ASSUME NEW f \in Ids, Spent(f, m.next, log), NEW k \in 1..Len(log[d]), log[d][k] = f
       PROVE  k <= from
  <2>1. d < m.next.day \/ (d = m.next.day /\ k <= m.next.byte)
    BY <1>1, <1>12 DEF Spent
  <2>2. d > m.next.day \/ (m.next = m.off /\ d >= m.off.day)
    BY <1>6, <1>11
  <2>3. m.next = m.off /\ d = m.off.day /\ k <= m.off.byte
    BY <1>3, <2>1, <2>2
  <2>4. from = Smaller(m.off.byte, Len(log[d]))
    BY <1>10, <2>3
  <2> QED  BY <1>1, <1>3, <2>3, <2>4 DEF Smaller
<1>13. ASSUME NEW k \in 1..Len(read)
       PROVE  read[k] \in Ids /\ ~Spent(read[k], m.next, log)
  <2>1. Nth(at, k) \in at /\ read[k] = log[d][Nth(at, k)]
    BY <1>7
  <2>2. Nth(at, k) \in 1..Len(log[d]) /\ from < Nth(at, k) /\ log[d][Nth(at, k)] \in Ids /\ Nth(at, k) \in Nat
    BY <1>8, <2>1
  <2> QED  BY <1>8, <1>12, <2>1, <2>2
<1>14. \A k \in 1..Len(read) : read[k] \notin Range(m.batch) /\ counted[read[k]] = 0
  <2>1. \A f \in Ids : counted[f] \in Nat
    BY DEF TypeOK
  <2>2. \A k \in 1..Len(read) : ~(counted[read[k]] > 0 \/ read[k] \in Range(m.batch))
    BY <1>6, <1>13
  <2>3. \A k \in 1..Len(read) : counted[read[k]] \in Nat
    BY <1>13, <2>1
  <2> QED  BY <2>2, <2>3
<1>15. ASSUME NEW k \in 1..Len(read), NEW l \in 1..Len(read), read[k] = read[l]
       PROVE  k = l
  <2>1. Nth(at, k) \in at /\ Nth(at, l) \in at /\ log[d][Nth(at, k)] = log[d][Nth(at, l)]
    BY <1>7, <1>15
  <2>2. /\ Nth(at, k) \in 1..Len(log[d]) /\ Nth(at, l) \in 1..Len(log[d]) /\ log[d][Nth(at, k)] \in Ids
    BY <1>8, <2>1
  <2>3. Nth(at, k) = Nth(at, l)
    BY <1>1, <2>1, <2>2 DEF Numbered, PlacedOnce
  <2> QED  BY <1>7, <2>3
<1>16. ASSUME d \notin live  PROVE  Single(n, log, counted, offset)
  BY <1>3, <1>6, <1>9, <1>16 DEF Single
<1>17. ASSUME d \in live  PROVE  Single(n, log, counted, offset)
  <2>1. n.batch = m.batch \o read /\ n.next.day = d /\ n.next.byte = end /\ n.off = m.off
        /\ n.todo = m.todo \ {d} /\ n.pairs = m.pairs /\ n.pc \in {"read", "decide"}
    BY <1>9, <1>17
  <2>2. Range(n.batch) = Range(m.batch) \cup Range(read)
    BY <1>3, <1>7, <2>1, RangeOfConcat
  <2>3. /\ Len(n.batch) = Len(m.batch) + Len(read)
        /\ \A i \in 1..Len(m.batch) + Len(read) :
             n.batch[i] = IF i <= Len(m.batch) THEN m.batch[i] ELSE read[i - Len(m.batch)]
    BY <1>3, <1>7, <2>1, ConcatProperties
  <2>4. \A f \in Range(read) : \E k \in 1..Len(read) : f = read[k]
    BY <1>7 DEF Range
  <2>5. ASSUME NEW f \in Ids, Spent(f, m.next, log)  PROVE  Spent(f, n.next, log)
    <3> SUFFICES ASSUME NEW e \in Days, NEW k \in 1..Len(log[e]), log[e][k] = f
                 PROVE  e < d \/ (e = d /\ k <= end)
      BY <2>1 DEF Spent
    <3>1. CASE e = d
      <4>1. k <= from /\ k \in Nat
        BY <1>1, <1>12, <2>5, <3>1
      <4> QED  BY <1>1, <1>8, <3>1, <4>1
    <3>2. CASE e # d
      <4>1. e <= m.next.day /\ e \in Nat
        BY <1>3, <2>5, Constants DEF Spent
      <4>2. d >= m.next.day
        BY <1>3, <1>6, <1>11
      <4> QED  BY <1>3, <3>2, <4>1, <4>2
    <3> QED  BY <3>1, <3>2
  <2>6. ASSUME NEW k \in 1..Len(read)  PROVE  Spent(read[k], n.next, log)
    <3> SUFFICES ASSUME NEW e \in Days, NEW l \in 1..Len(log[e]), log[e][l] = read[k]
                 PROVE  e < d \/ (e = d /\ l <= end)
      BY <2>1 DEF Spent
    <3>1. Nth(at, k) \in at /\ read[k] = log[d][Nth(at, k)]
      BY <1>7
    <3>2. Nth(at, k) \in 1..Len(log[d]) /\ Nth(at, k) <= end /\ log[d][Nth(at, k)] \in Ids
      BY <1>8, <3>1
    <3>3. e = d /\ l = Nth(at, k)
      BY <1>1, <3>1, <3>2 DEF Numbered, PlacedOnce
    <3> QED  BY <3>2, <3>3
  <2>7. \A f \in Ids : counted[f] > 0 \/ f \in Range(n.batch) => Spent(f, n.next, log)
    BY <1>6, <2>2, <2>4, <2>5, <2>6
  <2>8. \A f \in Range(n.batch) : counted[f] = 0
    BY <1>6, <1>14, <2>2, <2>4
  <2>9. ASSUME NEW i \in 1..Len(n.batch), NEW j \in 1..Len(n.batch), n.batch[i] = n.batch[j]  PROVE  i = j
    <3>1. i \in 1..Len(m.batch) + Len(read) /\ j \in 1..Len(m.batch) + Len(read) /\ i \in Nat /\ j \in Nat
      BY <1>3, <1>7, <2>3
    <3>2. \A x \in 1..Len(m.batch) + Len(read) :
            \/ x \in 1..Len(m.batch) /\ n.batch[x] = m.batch[x] /\ m.batch[x] \in Range(m.batch)
            \/ x - Len(m.batch) \in 1..Len(read) /\ n.batch[x] = read[x - Len(m.batch)]
      <4> TAKE x \in 1..Len(m.batch) + Len(read)
      <4>1. CASE x <= Len(m.batch)
        <5>1. x \in 1..Len(m.batch) /\ n.batch[x] = m.batch[x]
          BY <1>3, <1>7, <2>3, <4>1
        <5> QED  BY <1>3, <5>1 DEF Range
      <4>2. CASE ~(x <= Len(m.batch))
        BY <1>3, <1>7, <2>3, <4>2
      <4> QED  BY <4>1, <4>2
    <3>3. CASE i \in 1..Len(m.batch) /\ j \in 1..Len(m.batch)
      BY <1>3, <1>6, <1>7, <2>3, <2>9, <3>3
    <3>4. CASE ~(i \in 1..Len(m.batch)) /\ ~(j \in 1..Len(m.batch))
      <4>1. i - Len(m.batch) = j - Len(m.batch)
        BY <1>15, <2>9, <3>1, <3>2, <3>4
      <4> QED  BY <1>3, <3>1, <4>1
    <3>5. CASE i \in 1..Len(m.batch) /\ ~(j \in 1..Len(m.batch))
      <4>0. ~(i - Len(m.batch) \in 1..Len(read))
        BY <1>3, <1>7, <3>1, <3>5
      <4>1. n.batch[i] \in Range(m.batch)
        BY <3>1, <3>2, <4>0
      <4> QED  BY <1>14, <2>9, <3>1, <3>2, <3>5, <4>1
    <3>6. CASE ~(i \in 1..Len(m.batch)) /\ j \in 1..Len(m.batch)
      <4>0. ~(j - Len(m.batch) \in 1..Len(read))
        BY <1>3, <1>7, <3>1, <3>6
      <4>1. n.batch[j] \in Range(m.batch)
        BY <3>1, <3>2, <4>0
      <4> QED  BY <1>14, <2>9, <3>1, <3>2, <3>6, <4>1
    <3> QED  BY <3>3, <3>4, <3>5, <3>6
  <2>10. \A e \in n.todo : e > n.next.day
    BY <1>1, <1>3, <2>1 DEF m
  <2> QED  BY <1>6, <2>1, <2>7, <2>8, <2>9, <2>10 DEF Single
<1>18. Single(n, log', counted', offset')
  BY <1>2, <1>16, <1>17
<1>19. proc' = [proc EXCEPT ![p] = n] /\ ~RecordingAt(n)
  BY <1>1, <1>9 DEF RecordingAt, n
<1> QED  BY <1>2, <1>4, <1>5, <1>18, <1>19, CountingInside DEF m

LEMMA StepCounting ==
  TypeOK /\ TypeOK' /\ Shape /\ Numbered /\ Counting /\ [Next]_vars => Counting'
<1> SUFFICES ASSUME TypeOK, TypeOK', Shape, Numbered, Counting, [Next]_vars  PROVE  Counting'
  OBVIOUS
<1>1. CASE Tick \/ UNCHANGED vars
  BY <1>1 DEF Tick, vars, files, ghosts, Counting, Spent, Single
<1>2. CASE \E p \in Procs, s \in Sessions, k \in Kinds : Begin(p, s, k)
  <2>1. PICK p \in Procs, s \in Sessions, k \in Kinds : Begin(p, s, k)
    BY <1>2
  <2> DEFINE stage == IF log[SegmentOf(now)] = <<>> \/ Last(log[SegmentOf(now)]) = NL THEN "write" ELSE "fix"
  <2>2. /\ proc' = [proc EXCEPT ![p].pc = stage, ![p].id = Len(entries) + 1, ![p].day = SegmentOf(now)]
        /\ At(p, "idle") /\ UNCHANGED <<log, counted, offset, shared>>
    BY <2>1 DEF Begin, ghosts
  <2>3. stage \in {"write", "fix"} /\ proc[p] \in Process
    BY DEF TypeOK
  <2> HIDE DEF stage
  <2>4. \A q \in Procs : proc'[q] = proc[q] \/ (~InPassAt(proc[q]) /\ ~InPassAt(proc'[q]))
    BY <2>2, <2>3 DEF TypeOK, Process, InPassAt, At
  <2> QED  BY <2>2, <2>4, BringsNothing, CountingOutside
<1>3. CASE \E p \in Procs : Fix(p)
  <2>1. PICK p \in Procs : Fix(p)
    BY <1>3
  <2>2. /\ proc' = [proc EXCEPT ![p] = GoneTo(p, "write")] /\ UNCHANGED <<counted, offset, shared>>
        /\ ~InPassAt(proc[p])
    BY <2>1 DEF Fix, Goto, At, InPassAt
  <2>3. \A q \in Procs : proc'[q] = proc[q] \/ (~InPassAt(proc[q]) /\ ~InPassAt(proc'[q]))
    BY <2>2, GoneOutside DEF TypeOK
  <2> QED  BY <2>1, <2>2, <2>3, FixBrings, CountingOutside
<1>4. CASE \E p \in Procs : Write(p)
  <2>1. PICK p \in Procs : Write(p)
    BY <1>4
  <2> DEFINE victims == Prunable(live, log')
             m == IF victims = {} THEN GoneTo(p, PassOf(p)) ELSE [proc[p] EXCEPT !.pc = "clean", !.todo = victims]
  <2>2. /\ proc' = [proc EXCEPT ![p] = m] /\ UNCHANGED <<counted, offset, shared>> /\ ~InPassAt(proc[p])
    BY <2>1 DEF Write, Goto, At, InPassAt
  <2> HIDE DEF victims
  <2>3. ~InPassAt(m)
    <3>1. proc[p] \in Process
      BY DEF TypeOK
    <3>2. ~InPassAt(GoneTo(p, PassOf(p)))
      BY PassTyped, GoneOutside
    <3> QED  BY <3>1, <3>2 DEF InPassAt, Process
  <2> HIDE DEF m
  <2>4. \A q \in Procs : proc'[q] = proc[q] \/ (~InPassAt(proc[q]) /\ ~InPassAt(proc'[q]))
    BY <2>2, <2>3 DEF TypeOK
  <2> QED  BY <2>1, <2>2, <2>4, WriteNumbered, CountingOutside
<1>5. CASE \E p \in Procs, survives \in BOOLEAN : WriteTorn(p, survives)
  <2>1. PICK p \in Procs, survives \in BOOLEAN : WriteTorn(p, survives)
    BY <1>5
  <2> DEFINE stage == IF survives THEN PassOf(p) ELSE "idle"
  <2>2. /\ proc' = [proc EXCEPT ![p] = GoneTo(p, stage)] /\ UNCHANGED <<counted, offset, shared>>
        /\ ~InPassAt(proc[p])
    BY <2>1 DEF WriteTorn, Goto, At, InPassAt
  <2>3. ~InPassAt(GoneTo(p, stage))
    BY PassTyped, GoneOutside
  <2> HIDE DEF stage
  <2>4. \A q \in Procs : proc'[q] = proc[q] \/ (~InPassAt(proc[q]) /\ ~InPassAt(proc'[q]))
    BY <2>2, <2>3 DEF TypeOK
  <2> QED  BY <2>1, <2>2, <2>4, WriteTornNumbered, CountingOutside
<1>6. CASE \E p \in Procs : RemoveSegment(p)
  <2>1. PICK p \in Procs : RemoveSegment(p)
    BY <1>6
  <2>2. PICK d \in proc[p].todo :
           /\ d \in Days /\ NewerIn(live, d) /\ live' = live \ {d} /\ log' = [log EXCEPT ![d] = <<>>]
           /\ proc' = [q \in Procs |-> AfterRemoval(p, q, d)]
           /\ At(p, "clean") /\ \A e \in proc[p].todo : d <= e /\ e \in Days
           /\ UNCHANGED <<now, entries, offset, counted, faults, ghosts>>
    BY <2>1, Removal
  <2>3. ASSUME NEW q \in Procs  PROVE  proc'[q] = proc[q] \/ (~InPassAt(proc[q]) /\ ~InPassAt(proc'[q]))
    <3>1. proc'[q] = AfterRemoval(p, q, d) /\ proc[q] \in Process
      BY <2>2 DEF TypeOK
    <3>2. CASE q = p
      <4>1. PassOf(p) \in {"idle", "load"} /\ PassOf(p) \in Stages
        BY PassTyped DEF Stages
      <4>2. GoneTo(p, PassOf(p)) \in Process /\ GoneTo(p, PassOf(p)).pc = PassOf(p)
        BY <4>1, GoneTyped
      <4>3. AfterRemoval(p, q, d).pc \in {"clean", "idle", "load"}
        BY <2>2, <3>1, <3>2, <4>1, <4>2 DEF AfterRemoval, At, Process
      <4> QED  BY <2>2, <3>1, <3>2, <4>3 DEF InPassAt, At
    <3>3. CASE q # p
      BY <3>1, <3>3 DEF AfterRemoval, At, InPassAt, Process
    <3> QED  BY <3>2, <3>3
  <2> QED  BY <2>1, <2>2, <2>3, RemoveBrings, CountingOutside DEF ghosts
<1>7. CASE \E p \in Procs : Load(p) \/ Read(p) \/ Decide(p)
  BY <1>7, LoadCounting, ReadCounting, DecideCounting
<1>8. CASE \E p \in Procs : Derive(p) \/ StoreOffset(p)
  BY <1>8, DeriveCounting, StoreCounting
<1>9. CASE \E p \in Procs : Stop(p)
  <2>1. PICK p \in Procs : Stop(p)
    BY <1>9
  <2>2. /\ proc' = [proc EXCEPT ![p] = GoneTo(p, "idle")] /\ shared' = (shared \/ InPassAt(proc[p]))
        /\ UNCHANGED <<log, counted, offset>>
    BY <2>1 DEF Stop, Goto, files, InPass, InPassAt
  <2>3. CASE shared'
    BY <2>3 DEF Counting
  <2>4. CASE ~shared'
    <3>1. ~shared /\ ~InPassAt(proc[p]) /\ shared' = shared
      BY <2>2, <2>4 DEF TypeOK
    <3>2. \A q \in Procs : proc'[q] = proc[q] \/ (~InPassAt(proc[q]) /\ ~InPassAt(proc'[q]))
      BY <2>2, <3>1, GoneOutside DEF TypeOK
    <3> QED  BY <2>2, <3>1, <3>2, BringsNothing, CountingOutside
  <2> QED  BY <2>3, <2>4
<1> QED  BY <1>1, <1>2, <1>3, <1>4, <1>5, <1>6, <1>7, <1>8, <1>9 DEF Next

\* Passes that neither overlap nor fail count a correction once, also when a
\* batch was held for a pending failure and read again (derive.go:84, 97).
THEOREM CountsOnce == Spec => []CountedOnceAlone
<1> DEFINE Inv == TypeOK /\ Shape /\ Numbered /\ Counting
<1>1. Init => Inv
  BY Started, NumberedAtStart, CountingAtStart
<1>2. Inv /\ [Next]_vars => Inv'
  BY StepTyped, StepNumbered, StepCounting
<1>3. Inv => CountedOnceAlone
  BY DEF Counting, CountedOnceAlone
<1> QED  BY <1>1, <1>2, <1>3, PTL DEF Spec

-----------------------------------------------------------------------------
(***************************************************************************)
(* A candidate is of the family its session asked about last.              *)
(*                                                                         *)
(* A pass has in its batch the lines between where it began and where it   *)
(* got, in the order of the journal, and neither place is within a line.   *)
(* The last recall in front of a failure is therefore the last one in the  *)
(* batch in front of it or, if there is none, the last one in front of the *)
(* offset.  Lines come up behind those that are there, so it stays that.   *)
(***************************************************************************)

\* No token of i is the last of a segment: what it is a part of is complete.
Finished(i, held) == \A d \in Days : \A k \in 1..Len(held[d]) : held[d][k] = i => k < Len(held[d])

\* o is not within a line.
Whole(o, rows) == \A x \in rows : x.day = o.day => x.at # o.byte

Gathered(m, all, rows) ==
  /\ Whole(m.off, rows)
  /\ \A x \in rows : BehindAt(x, m.next) => BehindAt(x, m.off) \/ x.id \in Range(m.batch)
  /\ \A x \in all : x.id \in Range(m.batch) => BehindAt(x, m.next) /\ ~BehindAt(x, m.off)
  /\ \A x \in all, y \in all : \A i \in 1..Len(m.batch), k \in 1..Len(m.batch) :
       i < k /\ x.id = m.batch[i] /\ y.id = m.batch[k] => Before(x, y)
  /\ m.pc = "read" => \A d \in m.todo :
       m.off.day <= d /\ \A x \in all : x.id \in Range(m.batch) => x.day < d

\* What AnchoredToLastRecall says of one pair.
Tied(a, rows, done) ==
  \A f \in rows, r \in rows :
    /\ f.id = a.f /\ done[r.id].kind = "recall" /\ done[r.id].session = done[a.f].session /\ Before(r, f)
    => /\ a.family # 0
       /\ \A l \in rows : l.id = a.family => ~Before(l, r)

Placed(m, all, rows, held, done) ==
  /\ \A i \in Range(m.batch) : Finished(i, held)
  /\ InPassAt(m) => Whole(m.next, rows)
  /\ m.pc \in {"read", "decide"} => Gathered(m, all, rows)
  /\ \A k \in 1..Len(m.pairs) : Tied(m.pairs[k], rows, done)

Anchoring ==
  /\ Whole(offset, OnTime)
  /\ \A p \in Procs : Placed(proc[p], Lines, OnTime, log, entries)
  /\ \A a \in anchors : counted[a.f] > 0 /\ Finished(a.f, log) /\ Tied(a, OnTime, entries)

\* A line is where its entry is.
LEMMA OneLine ==
  ASSUME TypeOK, PlacedOnce(log), NEW x \in Lines, NEW d \in Days, NEW k \in 1..Len(log[d]), log[d][k] = x.id
  PROVE  x.day = d /\ x.at = k
BY LineTyped DEF PlacedOnce

LEMMA LineUnique ==
  ASSUME TypeOK, PlacedOnce(log), NEW x \in Lines, NEW y \in Lines, x.id = y.id
  PROVE  x = y
<1>1. x.day = y.day /\ x.at = y.at
  BY LineTyped, OneLine
<1> QED  BY <1>1, LineTyped

-----------------------------------------------------------------------------
\* What the steps do to the files.
FileStep ==
  \/ UNCHANGED <<live, log, late, wrote>>
  \/ live \subseteq live' /\ UNCHANGED <<log, late, wrote>>
  \/ \E d \in Days : NewerIn(live, d) /\ live' = live \ {d} /\ log' = [log EXCEPT ![d] = <<>>] /\ UNCHANGED <<late, wrote>>
  \/ \E d \in live, piece \in Seq(0..Torn) : AppendTo(d, piece) /\ live' = live /\ now' = now

LEMMA StepFiles ==
  ASSUME TypeOK, Shape, [Next]_vars
  PROVE  FileStep
<1>1. CASE Tick \/ UNCHANGED vars
  BY <1>1 DEF Tick, vars, files, ghosts, FileStep
<1>2. CASE \E p \in Procs, s \in Sessions, k \in Kinds : Begin(p, s, k)
  <2>1. PICK p \in Procs, s \in Sessions, k \in Kinds : Begin(p, s, k)
    BY <1>2
  <2>2. live \subseteq live' /\ UNCHANGED <<log, late, wrote>>
    BY <2>1 DEF Begin, ghosts
  <2> QED  BY <2>2 DEF FileStep
<1>3. CASE \E p \in Procs : Fix(p)
  <2>1. PICK p \in Procs : Fix(p)
    BY <1>3
  <2>2. CASE proc[p].day \in live
    <3>1. AppendTo(proc[p].day, <<NL>>) /\ live' = live /\ now' = now /\ <<NL>> \in Seq(0..Torn)
      BY <2>1, <2>2, Constants DEF Fix
    <3> QED  BY <2>2, <3>1 DEF FileStep
  <2>3. CASE proc[p].day \notin live
    BY <2>1, <2>3 DEF Fix, FileStep
  <2> QED  BY <2>2, <2>3
<1>4. ASSUME NEW p \in Procs, NEW piece \in Seq(0..Torn), At(p, "write"), live' = live, now' = now,
             IF proc[p].unlinked THEN UNCHANGED <<log, wrote, late>> ELSE AppendTo(proc[p].day, piece)
      PROVE  FileStep
  <2>1. CASE proc[p].unlinked
    BY <1>4, <2>1 DEF FileStep
  <2>2. CASE ~proc[p].unlinked
    <3>1. proc[p].day \in live
      BY <1>4, <2>2 DEF Shape, Fit, At
    <3> QED  BY <1>4, <2>2, <3>1 DEF FileStep
  <2> QED  BY <2>1, <2>2
<1>5. CASE \E p \in Procs : Write(p)
  <2>1. PICK p \in Procs : Write(p)
    BY <1>5
  <2> QED  BY <1>4, <2>1, PieceTyped DEF Write
<1>6. CASE \E p \in Procs, survives \in BOOLEAN : WriteTorn(p, survives)
  <2>1. PICK p \in Procs, survives \in BOOLEAN : WriteTorn(p, survives)
    BY <1>6
  <2>2. \A rest \in {Torn, proc[p].id} : <<rest>> \in Seq(0..Torn)
    BY PieceTyped
  <2>3. PICK rest \in {Torn, proc[p].id} :
          IF proc[p].unlinked THEN UNCHANGED <<log, wrote, late>> ELSE AppendTo(proc[p].day, <<rest>>)
    BY <2>1 DEF WriteTorn
  <2>4. At(p, "write") /\ live' = live /\ now' = now
    BY <2>1 DEF WriteTorn
  <2> QED  BY <1>4, <2>2, <2>3, <2>4
<1>7. CASE \E p \in Procs : RemoveSegment(p)
  <2>1. PICK p \in Procs : RemoveSegment(p)
    BY <1>7
  <2>2. PICK d \in proc[p].todo :
           /\ d \in Days /\ NewerIn(live, d) /\ live' = live \ {d} /\ log' = [log EXCEPT ![d] = <<>>]
           /\ UNCHANGED <<now, entries, offset, counted, faults, ghosts>>
    BY <2>1, Removal
  <2> QED  BY <2>2 DEF FileStep, ghosts
<1>8. CASE \E p \in Procs : Load(p) \/ Read(p) \/ Decide(p) \/ Derive(p) \/ StoreOffset(p) \/ Stop(p)
  BY <1>8 DEF Load, Read, Decide, Derive, StoreOffset, Stop, files, ghosts, FileStep
<1> QED  BY <1>1, <1>2, <1>3, <1>5, <1>6, <1>7, <1>8 DEF Next

LEMMA StepKept ==
  ASSUME TypeOK, TypeOK', FileStep
  PROVE  FilesKept
BY FilesSame, FilesGrow, FilesShrink, FilesAppend DEF FileStep

\* An entry that has been read: its place is complete and nobody writes it.
IsRead(i) == i \in Ids /\ Finished(i, log) /\ (counted[i] > 0 \/ \E q \in Procs : i \in Range(proc[q].batch))

LEMMA FileMoves ==
  ASSUME TypeOK, FileStep
  PROVE  /\ late \subseteq late'
         /\ \A d \in Days : \/ log'[d] = <<>>
                            \/ /\ d \in live' => d \in live \/ log'[d] = <<>>
                               /\ Len(log[d]) <= Len(log'[d])
                               /\ \A k \in 1..Len(log[d]) : log'[d][k] = log[d][k]
<1>0. \A d \in Days : Len(log[d]) \in Nat /\ log[d] \in Seq(0..Torn) /\ (d \notin live => log[d] = <<>>)
  BY LenProperties DEF TypeOK
<1>1. CASE UNCHANGED <<live, log, late>>
  BY <1>0, <1>1
<1>2. CASE live \subseteq live' /\ UNCHANGED <<log, late>>
  BY <1>0, <1>2
<1>3. CASE \E d \in Days : NewerIn(live, d) /\ live' = live \ {d} /\ log' = [log EXCEPT ![d] = <<>>] /\ late' = late
  <2>1. PICK d \in Days : live' = live \ {d} /\ log' = [log EXCEPT ![d] = <<>>] /\ late' = late
    BY <1>3
  <2>2. log'[d] = <<>> /\ \A e \in Days : e # d => log'[e] = log[e]
    BY <2>1 DEF TypeOK
  <2> QED  BY <1>0, <2>1, <2>2
<1>4. CASE \E d \in live, piece \in Seq(0..Torn) : AppendTo(d, piece) /\ live' = live
  <2>1. PICK d \in live, piece \in Seq(0..Torn) : AppendTo(d, piece) /\ live' = live
    BY <1>4
  <2>2. log' = [log EXCEPT ![d] = @ \o piece] /\ d \in Days
    BY <2>1, AppendTyped DEF TypeOK
  <2>3. log'[d] = log[d] \o piece /\ \A e \in Days : e # d => log'[e] = log[e]
    BY <2>2 DEF TypeOK
  <2>4. Len(log[d]) <= Len(log'[d]) /\ \A k \in 1..Len(log[d]) : log'[d][k] = log[d][k]
    BY <1>0, <2>2, <2>3, ConcatProperties, LenProperties
  <2>5. late \subseteq late'
    <3> DEFINE data  == log[d] \o piece
               fresh == {data[i] : i \in LinesAfter(data, 0) \ LinesAfter(log[d], 0)}
    <3>1. late' = IF \E e \in live : e > d THEN late \cup fresh ELSE late
      BY <2>1 DEF AppendTo
    <3> HIDE DEF fresh
    <3> QED  BY <3>1
  <2> QED  BY <1>0, <2>1, <2>3, <2>4, <2>5
<1> QED  BY <1>1, <1>2, <1>3, <1>4 DEF FileStep

LEMMA StepBrings ==
  ASSUME TypeOK, TypeOK', Shape, Numbered, [Next]_vars
  PROVE  log' = log \/ \E p \in Procs : Brings(p)
<1>1. CASE Tick \/ UNCHANGED vars
  BY <1>1 DEF Tick, vars, files
<1>2. CASE \E p \in Procs, s \in Sessions, k \in Kinds : Begin(p, s, k)
  BY <1>2 DEF Begin
<1>3. CASE \E p \in Procs : Fix(p) \/ Write(p) \/ RemoveSegment(p)
  BY <1>3, FixBrings, WriteNumbered, RemoveBrings
<1>4. CASE \E p \in Procs, survives \in BOOLEAN : WriteTorn(p, survives)
  BY <1>4, WriteTornNumbered
<1>5. CASE \E p \in Procs : Load(p) \/ Read(p) \/ Decide(p) \/ Derive(p) \/ StoreOffset(p) \/ Stop(p)
  BY <1>5 DEF Load, Read, Decide, Derive, StoreOffset, Stop, files
<1> QED  BY <1>1, <1>2, <1>3, <1>4, <1>5 DEF Next

\* What was read neither moves nor comes up again.
LEMMA ReadStays ==
  ASSUME TypeOK, TypeOK', Numbered, FileStep, log' = log \/ \E p \in Procs : Brings(p), NEW i, IsRead(i)
  PROVE  Finished(i, log') /\ \A x \in Lines' : x.id = i => x \in Lines
<1>1. ASSUME NEW d \in Days, NEW k \in 1..Len(log'[d]), log'[d][k] = i
      PROVE  k \in 1..Len(log[d]) /\ log[d][k] = i
  <2>1. i \in Ids /\ (counted[i] > 0 \/ \E q \in Procs : i \in Range(proc[q].batch))
    BY DEF IsRead
  <2>2. CASE log' = log
    BY <1>1, <2>2
  <2>3. CASE \E p \in Procs : Brings(p)
    <3>1. PICK p \in Procs : Brings(p)
      BY <2>3
    <3>2. PICK j \in 0..Torn, e \in Days :
            Tokens(j, e) /\ (j \in Ids => WritingAt(proc[p]) /\ ~WritingAt(proc'[p]) /\ j = proc[p].id)
      BY <3>1 DEF Brings
    <3>3. j # i
      <4>1. SUFFICES ASSUME j = i  PROVE  FALSE
        OBVIOUS
      <4>2. Unwritten(i, log, counted, proc)
        BY <2>1, <3>2, <4>1 DEF Numbered
      <4> QED  BY <2>1, <4>2 DEF Unwritten, TypeOK
    <3> QED  BY <1>1, <2>1, <3>2, <3>3 DEF Tokens
  <2> QED  BY <2>2, <2>3
<1>2. ASSUME NEW d \in Days, NEW k \in 1..Len(log'[d]), log'[d][k] = i
      PROVE  /\ k \in Nat \ {0} /\ k < Len(log[d]) /\ Len(log[d]) \in Nat /\ Len(log'[d]) \in Nat
             /\ Len(log[d]) <= Len(log'[d]) /\ (d \in live' => d \in live)
             /\ \A l \in 1..Len(log[d]) : log'[d][l] = log[d][l]
  <2>1. k \in 1..Len(log[d]) /\ log[d][k] = i /\ Len(log[d]) \in Nat /\ Len(log'[d]) \in Nat
    BY <1>1, <1>2, LenProperties DEF TypeOK
  <2>2. k < Len(log[d])
    BY <2>1 DEF IsRead, Finished
  <2>3. log'[d] # <<>>
    BY <1>2, EmptySeq
  <2> QED  BY <2>1, <2>2, <2>3, FileMoves
<1>3. Finished(i, log')
  <2>1. ASSUME NEW d \in Days, NEW k \in 1..Len(log'[d]), log'[d][k] = i  PROVE  k < Len(log'[d])
    BY <1>2, <2>1
  <2> QED  BY <2>1 DEF Finished
<1>4. ASSUME NEW x \in Lines', x.id = i  PROVE  x \in Lines
  <2>1. PICK d \in live' : \E k \in LinesAfter(log'[d], 0) : x = [id |-> log'[d][k], day |-> d, at |-> k]
    BY LinesAre, LineParts
  <2>2. PICK k \in LinesAfter(log'[d], 0) : x = [id |-> log'[d][k], day |-> d, at |-> k]
    BY <2>1
  <2>3. d \in Days /\ Len(log'[d]) \in Nat /\ log'[d][k] = i
    BY <1>4, <2>2, LenProperties DEF TypeOK
  <2>4. k \in 0 + 1 .. Len(log'[d]) - 1 /\ log'[d][k] \in Ids /\ log'[d][k + 1] = NL /\ (k = 0 + 1 \/ log'[d][k - 1] = NL)
    BY <2>2 DEF LinesAfter
  <2>5. k \in 1..Len(log'[d])
    BY <2>3, <2>4
  <2>6. /\ k \in Nat \ {0} /\ k < Len(log[d]) /\ Len(log[d]) \in Nat /\ d \in live
        /\ \A l \in 1..Len(log[d]) : log'[d][l] = log[d][l]
    BY <1>2, <2>1, <2>3, <2>5
  <2>7. k \in 1..Len(log[d]) /\ k + 1 \in 1..Len(log[d]) /\ (k = 0 + 1 \/ k - 1 \in 1..Len(log[d]))
        /\ k \in 0 + 1 .. Len(log[d]) - 1
    BY <2>6
  <2>8. k \in LinesAfter(log[d], 0) /\ log'[d][k] = log[d][k]
    BY <2>4, <2>6, <2>7 DEF LinesAfter
  <2> QED  BY <2>2, <2>6, <2>8, LinesAre, LineParts
<1> QED  BY <1>3, <1>4

-----------------------------------------------------------------------------
\* What a step does to the lines, for what passes and pairs say of them.
Moved ==
  /\ FilesKept
  /\ late \subseteq late'
  /\ \A i : IsRead(i) => Finished(i, log') /\ \A x \in Lines' : x.id = i => x \in Lines
  /\ \A x \in Lines : entries'[x.id] = entries[x.id]

LEMMA StepMoved ==
  ASSUME TypeOK, TypeOK', Shape, Numbered, [Next]_vars
  PROVE  Moved
<1>1. FileStep /\ FilesKept /\ late \subseteq late'
  BY StepFiles, StepKept, FileMoves
<1>2. \A i : IsRead(i) => Finished(i, log') /\ \A x \in Lines' : x.id = i => x \in Lines
  BY <1>1, StepBrings, ReadStays
<1>3. ASSUME NEW x \in Lines  PROVE  entries'[x.id] = entries[x.id]
  <2>1. x.id \in 1..Len(entries)
    <3>1. x.id \in Ids /\ x.id = log[x.day][x.at] /\ x.day \in Days /\ x.at \in 1..Len(log[x.day])
      BY LineTyped
    <3>2. ~(x.id > Len(entries))
      BY <3>1 DEF Numbered, Unwritten
    <3>3. Len(entries) \in Nat
      BY LenProperties DEF TypeOK
    <3> QED  BY <3>1, <3>2, <3>3 DEF Ids
  <2>2. CASE entries' = entries
    BY <2>2
  <2>3. CASE \E p \in Procs, s \in Sessions, k \in Kinds : Begin(p, s, k)
    <3>1. PICK s \in Sessions, k \in Kinds : entries' = Append(entries, [session |-> s, kind |-> k, ts |-> now])
      BY <2>3 DEF Begin
    <3> DEFINE new == [session |-> s, kind |-> k, ts |-> now]
    <3>2. entries \in Seq(Entry) /\ new \in Entry
      BY DEF TypeOK, Entry
    <3> HIDE DEF new
    <3>3. Append(entries, new)[x.id] = entries[x.id]
      BY <2>1, <3>2, AppendProperties
    <3> QED  BY <3>1, <3>3 DEF new
  <2>4. entries' = entries \/ \E p \in Procs, s \in Sessions, k \in Kinds : Begin(p, s, k)
    BY DEF Next, vars, Tick, Fix, Write, WriteTorn, RemoveSegment, Load, Read, Decide, Derive, StoreOffset, Stop
  <2> QED  BY <2>2, <2>3, <2>4
<1> QED  BY <1>1, <1>2, <1>3 DEF Moved

LEMMA BeforeAsymmetric ==
  ASSUME NEW alive \in SUBSET Days, NEW held \in [Days -> Seq(0..Torn)],
         NEW x \in LinesOf(alive, held), NEW y \in LinesOf(alive, held)
  PROVE  ~(Before(x, y) /\ Before(y, x))
BY LineIn DEF Before

LEMMA BeforeNext ==
  ASSUME TypeOK', NEW x \in OnTime', NEW y \in OnTime'
  PROVE  ~(Before(x, y) /\ Before(y, x))
<1>1. live' \in SUBSET Days /\ log' \in [Days -> Seq(0..Torn)]
  BY DEF TypeOK
<1>2. x \in LinesOf(live', log') /\ y \in LinesOf(live', log')
  BY LinesAre
<1> QED  BY <1>1, <1>2, BeforeAsymmetric

LEMMA WholeKept ==
  ASSUME Moved, NEW o \in Offset, Settled(o, live, log), Whole(o, OnTime)
  PROVE  Whole(o, OnTime')
<1>1. ASSUME NEW x \in OnTime', x.day = o.day, x.at = o.byte  PROVE  FALSE
  <2>1. x.at <= o.byte
    BY <1>1 DEF Offset
  <2>2. BehindAt(x, o)
    BY <1>1, <2>1 DEF BehindAt
  <2>3. x \in OnTime
    BY <2>2 DEF Moved, FilesKept
  <2> QED  BY <1>1, <2>3 DEF Whole
<1> QED  BY <1>1 DEF Whole

LEMMA TiedKept ==
  ASSUME TypeOK, TypeOK', Moved, NEW a \in Pair, IsRead(a.f), Tied(a, OnTime, entries)
  PROVE  Tied(a, OnTime', entries')
<1> SUFFICES ASSUME NEW f \in OnTime', NEW r \in OnTime', f.id = a.f, entries'[r.id].kind = "recall",
                    entries'[r.id].session = entries'[a.f].session, Before(r, f)
             PROVE  /\ a.family # 0
                    /\ \A l \in OnTime' : l.id = a.family => ~Before(l, r)
  BY DEF Tied
<1>1. f \in Lines /\ f \in OnTime
  BY OnTimeLines DEF Moved
<1>2. r \in OnTime
  <2>1. SUFFICES ASSUME Before(f, r)  PROVE  FALSE
    BY <1>1 DEF Moved, FilesKept
  <2> QED  BY <2>1, BeforeNext
<1>3. r \in Lines
  BY <1>2, OnTimeLines
<1>4. entries[r.id].kind = "recall" /\ entries[r.id].session = entries[a.f].session
  BY <1>1, <1>3 DEF Moved
<1>5. a.family # 0 /\ \A l \in OnTime : l.id = a.family => ~Before(l, r)
  BY <1>1, <1>2, <1>4 DEF Tied
<1>6. ASSUME NEW l \in OnTime', l.id = a.family  PROVE  ~Before(l, r)
  <2>1. CASE l \in OnTime
    BY <1>5, <1>6, <2>1
  <2>2. CASE l \notin OnTime
    <3>1. Before(r, l)
      BY <1>2, <2>2 DEF Moved, FilesKept
    <3> QED  BY <3>1, BeforeNext
  <2> QED  BY <2>1, <2>2
<1> QED  BY <1>5, <1>6

LEMMA GatheredKept ==
  ASSUME Moved, NEW m \in Process, Settled(m.next, live, log), Settled(m.off, live, log),
         \A i \in Range(m.batch) : IsRead(i), Gathered(m, Lines, OnTime)
  PROVE  Gathered(m, Lines', OnTime')
<1>1. m.next \in Offset /\ m.off \in Offset /\ m.batch \in Seq(Ids)
  BY DEF Process
<1>2. \A x \in Lines' : x.id \in Range(m.batch) => x \in Lines
  BY DEF Moved
<1>3. \A i \in 1..Len(m.batch) : m.batch[i] \in Range(m.batch)
  BY <1>1 DEF Range
<1>4. Whole(m.off, OnTime')
  BY <1>1, WholeKept DEF Gathered
<1>5. \A x \in OnTime' : BehindAt(x, m.next) => BehindAt(x, m.off) \/ x.id \in Range(m.batch)
  BY <1>1 DEF Moved, FilesKept, Gathered
<1>6. \A x \in Lines' : x.id \in Range(m.batch) => BehindAt(x, m.next) /\ ~BehindAt(x, m.off)
  BY <1>2 DEF Gathered
<1>7. \A x \in Lines', y \in Lines' : \A i \in 1..Len(m.batch), k \in 1..Len(m.batch) :
       i < k /\ x.id = m.batch[i] /\ y.id = m.batch[k] => Before(x, y)
  <2>1. SUFFICES ASSUME NEW x \in Lines', NEW y \in Lines', NEW i \in 1..Len(m.batch), NEW k \in 1..Len(m.batch),
                        i < k, x.id = m.batch[i], y.id = m.batch[k]
                 PROVE  Before(x, y)
    BY Zenon
  <2>2. x \in Lines /\ y \in Lines
    BY <1>2, <1>3, <2>1
  <2> QED  BY <2>1, <2>2 DEF Gathered
<1>8. m.pc = "read" => \A d \in m.todo :
       m.off.day <= d /\ \A x \in Lines' : x.id \in Range(m.batch) => x.day < d
  BY <1>2 DEF Gathered
<1> QED  BY <1>4, <1>5, <1>6, <1>7, <1>8 DEF Gathered

LEMMA PairsRead ==
  ASSUME TypeOK, Numbered, NEW q \in Procs, Placed(proc[q], Lines, OnTime, log, entries)
  PROVE  /\ \A i \in Range(proc[q].batch) : IsRead(i)
         /\ proc[q].pairs \in Seq(Pair)
         /\ \A k \in 1..Len(proc[q].pairs) : IsRead(proc[q].pairs[k].f)
<1>1. proc[q] \in Process /\ proc[q].batch \in Seq(Ids) /\ proc[q].pairs \in Seq(Pair)
  BY DEF TypeOK, Process
<1>2. ASSUME NEW i \in Range(proc[q].batch)  PROVE  IsRead(i)
  <2>1. i \in Ids
    BY <1>1 DEF Range
  <2> QED  BY <2>1 DEF IsRead, Placed
<1>3. \A k \in 1..Len(proc[q].pairs) : proc[q].pairs[k].f \in Range(proc[q].batch)
  BY DEF Numbered, PairsAreRead
<1> QED  BY <1>1, <1>2, <1>3

\* A process that a step leaves alone.
LEMMA PlacedKept ==
  ASSUME TypeOK, TypeOK', Numbered, Sound, Moved, NEW q \in Procs,
         Placed(proc[q], Lines, OnTime, log, entries)
  PROVE  Placed(proc[q], Lines', OnTime', log', entries')
<1> DEFINE m == proc[q]
<1>1. m \in Process /\ m.next \in Offset
  BY DEF TypeOK, Process
<1>2. /\ \A i \in Range(m.batch) : IsRead(i)
      /\ m.pairs \in Seq(Pair)
      /\ \A k \in 1..Len(m.pairs) : IsRead(m.pairs[k].f)
  BY PairsRead
<1>3. InPassAt(m) => Settled(m.next, live, log) /\ Settled(m.off, live, log)
  BY DEF Sound, Safe, InPassAt
<1>4. /\ InPassAt(m) => Whole(m.next, OnTime)
      /\ m.pc \in {"read", "decide"} => Gathered(m, Lines, OnTime) /\ InPassAt(m)
      /\ \A k \in 1..Len(m.pairs) : Tied(m.pairs[k], OnTime, entries)
  BY DEF Placed, InPassAt
<1> HIDE DEF m
<1>5. \A i \in Range(m.batch) : Finished(i, log')
  BY <1>2 DEF Moved
<1>6. InPassAt(m) => Whole(m.next, OnTime')
  BY <1>1, <1>3, <1>4, WholeKept
<1>7. m.pc \in {"read", "decide"} => Gathered(m, Lines', OnTime')
  BY <1>1, <1>2, <1>3, <1>4, GatheredKept
<1>8. ASSUME NEW k \in 1..Len(m.pairs)  PROVE  Tied(m.pairs[k], OnTime', entries')
  <2>1. m.pairs[k] \in Pair
    BY <1>2
  <2> QED  BY <1>2, <1>4, <2>1, TiedKept
<1> QED  BY <1>5, <1>6, <1>7, <1>8 DEF m, Placed

\* One that leaves its pass, or is in none.
LEMMA PlacedOutside ==
  ASSUME NEW m, NEW n, NEW all, NEW rows, NEW held, NEW done, Placed(m, all, rows, held, done),
         n.batch \in {<<>>, m.batch}, n.pairs \in {<<>>, m.pairs}, ~InPassAt(n)
  PROVE  Placed(n, all, rows, held, done)
<1>1. Range(<<>>) = {} /\ Len(<<>>) = 0
  BY EmptySeq DEF Range
<1> QED  BY <1>1 DEF Placed, InPassAt

LEMMA AnchorsKept ==
  ASSUME TypeOK, TypeOK', Moved, NEW a \in Pair, counted[a.f] > 0, Finished(a.f, log), Tied(a, OnTime, entries)
  PROVE  Finished(a.f, log') /\ Tied(a, OnTime', entries')
<1>1. IsRead(a.f)
  BY DEF IsRead, Pair
<1> QED  BY <1>1, TiedKept DEF Moved

\* A step that leaves the offset and the candidates alone.
LEMMA AnchoringStep ==
  ASSUME TypeOK, TypeOK', Numbered, Sound, Moved, Anchoring, UNCHANGED <<offset, counted, anchors>>,
         \A q \in Procs : \/ proc'[q] = proc[q]
                          \/ /\ proc'[q].batch \in {<<>>, proc[q].batch} /\ proc'[q].pairs \in {<<>>, proc[q].pairs}
                             /\ ~InPassAt(proc'[q])
                          \/ Placed(proc'[q], Lines', OnTime', log', entries')
  PROVE  Anchoring'
<1>1. Whole(offset', OnTime')
  <2>1. offset \in Offset /\ Settled(offset, live, log) /\ Whole(offset, OnTime)
    BY DEF TypeOK, Sound, Anchoring
  <2> QED  BY <2>1, WholeKept
<1>2. ASSUME NEW q \in Procs  PROVE  Placed(proc'[q], Lines', OnTime', log', entries')
  <2>1. Placed(proc[q], Lines', OnTime', log', entries')
    BY PlacedKept DEF Anchoring
  <2>2. CASE proc'[q] = proc[q]
    BY <2>1, <2>2
  <2>3. CASE /\ proc'[q].batch \in {<<>>, proc[q].batch} /\ proc'[q].pairs \in {<<>>, proc[q].pairs}
             /\ ~InPassAt(proc'[q])
    BY <2>1, <2>3, PlacedOutside
  <2> QED  BY <2>2, <2>3
<1>3. ASSUME NEW a \in anchors  PROVE  counted[a.f] > 0 /\ Finished(a.f, log') /\ Tied(a, OnTime', entries')
  <2>1. a \in Pair /\ counted[a.f] > 0 /\ Finished(a.f, log) /\ Tied(a, OnTime, entries)
    BY DEF TypeOK, Anchoring
  <2> QED  BY <2>1, AnchorsKept
<1> QED  BY <1>1, <1>2, <1>3 DEF Anchoring

LEMMA AnchoringAtStart == Init => Anchoring
<1> SUFFICES ASSUME Init  PROVE  Anchoring
  OBVIOUS
<1>1. OnTime = {}
  BY DEF Init, OnTime, Lines
<1>2. Range(<<>>) = {} /\ Len(<<>>) = 0
  BY EmptySeq DEF Range
<1>3. \A p \in Procs : proc[p] = Idle
  BY DEF Init
<1>4. Placed(Idle, Lines, OnTime, log, entries)
  BY <1>2 DEF Idle, Placed, InPassAt
<1>5. anchors = {}
  BY DEF Init
<1> QED  BY <1>1, <1>3, <1>4, <1>5 DEF Anchoring, Whole

\* A step that only changes what p holds, and leaves the files alone.
LEMMA AnchoringInside ==
  ASSUME TypeOK, TypeOK', Numbered, Sound, Moved, Anchoring, UNCHANGED <<files, late, entries, offset, counted, anchors>>,
         NEW p \in Procs, NEW n, proc' = [proc EXCEPT ![p] = n], Placed(n, Lines, OnTime, log, entries)
  PROVE  Anchoring'
<1>1. Lines' = Lines /\ OnTime' = OnTime /\ log' = log /\ entries' = entries
  BY LinesAre DEF files
<1>2. Placed(n, Lines', OnTime', log', entries')
  BY <1>1
<1>3. \A q \in Procs : proc'[q] = proc[q] \/ Placed(proc'[q], Lines', OnTime', log', entries')
  BY <1>2 DEF TypeOK
<1> QED  BY <1>3, AnchoringStep

LEMMA LoadAnchoring ==
  ASSUME TypeOK, TypeOK', Numbered, Sound, Moved, Anchoring, NEW p \in Procs, Load(p)  PROVE  Anchoring'
<1> DEFINE todo == {d \in live : d >= offset.day}
           n == [Idle EXCEPT !.pc = IF todo = {} THEN "decide" ELSE "read", !.id = proc[p].id, !.todo = todo,
                             !.off = offset, !.next = offset, !.since = now]
<1>1. /\ proc' = [proc EXCEPT ![p] = n]
      /\ UNCHANGED <<files, late, entries, offset, counted, anchors>>
  BY DEF Load
<1>2. \A d \in todo : offset.day <= d
  BY Constants DEF TypeOK, Offset
<1> HIDE DEF todo
<1>3. n.off = offset /\ n.next = offset /\ n.todo = todo /\ n.batch = <<>> /\ n.pairs = <<>>
  BY DEF Idle
<1> HIDE DEF n
<1>4. Range(<<>>) = {} /\ Len(<<>>) = 0
  BY EmptySeq DEF Range
<1>5. Whole(offset, OnTime)
  BY DEF Anchoring
<1>6. Gathered(n, Lines, OnTime)
  BY <1>2, <1>3, <1>4, <1>5 DEF Gathered
<1>7. Placed(n, Lines, OnTime, log, entries)
  BY <1>3, <1>4, <1>5, <1>6 DEF Placed
<1> QED  BY <1>1, <1>7, AnchoringInside

LEMMA NthMonotone ==
  ASSUME NEW n \in Nat, NEW at \in SUBSET (1..n), NEW i \in 1..Cardinality(at), NEW k \in 1..Cardinality(at), i < k
  PROVE  Nth(at, i) < Nth(at, k)
<1> DEFINE upto(x) == {j \in at : j <= x}
<1>1. /\ Nth(at, i) \in at /\ Cardinality(upto(Nth(at, i))) = i
      /\ Nth(at, k) \in at /\ Cardinality(upto(Nth(at, k))) = k
  BY NthExists
<1> HIDE DEF upto
<1>2. Nth(at, i) \in Nat /\ Nth(at, k) \in Nat /\ at \subseteq Nat
  <2>1. at \subseteq Nat
    OBVIOUS
  <2> QED  BY <1>1, <2>1
<1>3. SUFFICES ASSUME Nth(at, k) <= Nth(at, i)  PROVE  FALSE
  BY <1>2
<1>4. upto(Nth(at, k)) \subseteq upto(Nth(at, i)) /\ upto(Nth(at, i)) \subseteq at
  <2>1. \A x, y, j \in Nat : j <= x /\ x <= y => j <= y
    OBVIOUS
  <2> QED  BY <1>2, <1>3, <2>1, Zenon DEF upto
<1>5. IsFiniteSet(at) /\ Cardinality(at) \in Nat
  BY RankOfEach
<1>6. k <= i
  <2>1. IsFiniteSet(upto(Nth(at, i)))
    BY <1>4, <1>5, FS_Subset
  <2>2. Cardinality(upto(Nth(at, k))) <= Cardinality(upto(Nth(at, i)))
    BY <1>4, <2>1, FS_Subset
  <2> QED  BY <1>1, <2>2
<1> QED  BY <1>5, <1>6

LEMMA ConcatParts ==
  ASSUME NEW S, NEW a \in Seq(S), NEW b \in Seq(S)
  PROVE  /\ Len(a) \in Nat /\ Len(b) \in Nat /\ Len(a \o b) = Len(a) + Len(b)
         /\ \A i \in 1..Len(a) + Len(b) : (a \o b)[i] = IF i <= Len(a) THEN a[i] ELSE b[i - Len(a)]
         /\ \A i \in 1..Len(a) : (a \o b)[i] = a[i]
BY ConcatProperties, LenProperties

LEMMA ReadAnchoring ==
  ASSUME TypeOK, TypeOK', Shape, Numbered, Sound, Moved, Anchoring, NEW p \in Procs, Read(p)  PROVE  Anchoring'
<1>1. PICK d \in proc[p].todo :
           /\ d \in Days /\ \A e \in proc[p].todo : d <= e /\ e \in Days
           /\ log[d] \in Seq(0..Torn) /\ From(p, d) \in 0..Len(log[d]) /\ Len(log[d]) \in Nat
           /\ proc' = [proc EXCEPT ![p] = AfterReading(p, d)]
           /\ At(p, "read")
           /\ UNCHANGED <<now, entries, files, offset, counted, faults, ghosts>>
  BY Reading
<1> DEFINE m == proc[p]
           from == From(p, d)
           read == EntriesAt(log[d], from)
           at == LinesAfter(log[d], from)
           end == Consumed(log[d], from)
           n == AfterReading(p, d)
<1>3. /\ m \in Process /\ m.pc = "read" /\ m.batch \in Seq(Ids) /\ m.off \in Offset /\ m.next \in Offset
      /\ d \in Nat /\ m.off.day \in Nat /\ m.off.byte \in Nat /\ m.next.day \in Nat /\ m.next.byte \in Nat
      /\ Len(m.batch) \in Nat /\ \A e \in m.todo : e \in Nat
  BY <1>1, Constants, LenProperties DEF TypeOK, Process, Offset, At
<1>4. /\ \A e \in m.todo :
           /\ m.next.day <= e
           /\ \A x \in OnTime : x.day < e => BehindAt(x, m.next) \/ x.day \in m.todo
  BY <1>3 DEF Sound, Safe
<1>5. /\ Placed(m, Lines, OnTime, log, entries) /\ InPassAt(m) /\ Gathered(m, Lines, OnTime)
      /\ Whole(m.next, OnTime) /\ Whole(m.off, OnTime)
  BY <1>3 DEF Anchoring, Placed, InPassAt, Gathered
<1>6. /\ \A x \in OnTime : BehindAt(x, m.next) => BehindAt(x, m.off) \/ x.id \in Range(m.batch)
      /\ \A x \in Lines : x.id \in Range(m.batch) => BehindAt(x, m.next) /\ ~BehindAt(x, m.off)
      /\ \A x \in Lines, y \in Lines : \A i \in 1..Len(m.batch), k \in 1..Len(m.batch) :
           i < k /\ x.id = m.batch[i] /\ y.id = m.batch[k] => Before(x, y)
      /\ \A e \in m.todo : m.off.day <= e /\ \A x \in Lines : x.id \in Range(m.batch) => x.day < e
  BY <1>3, <1>5 DEF Gathered
<1>7. /\ read \in Seq(Ids) /\ Len(read) \in Nat /\ at \in SUBSET (1..Len(log[d])) /\ Len(read) = Cardinality(at)
      /\ \A k \in 1..Len(read) : Nth(at, k) \in at /\ read[k] = log[d][Nth(at, k)]
  <2>1. from \in Nat
    BY <1>1
  <2>2. read \in Seq(Ids)
    BY <1>1, <2>1, EntriesTyped
  <2> HIDE DEF from
  <2> QED  BY <1>1, <2>1, <2>2, EntriesFrom, LenProperties
<1>8. /\ from \in 0..Len(log[d]) /\ end \in from..Len(log[d]) /\ end \in Nat /\ from \in Nat
      /\ (end = from \/ log[d][end] = NL)
      /\ \A i \in at : i \in Nat /\ from < i /\ i <= end /\ i \in 1..Len(log[d]) /\ log[d][i] \in Ids /\ i < Len(log[d])
  <2>1. from \in 0..Len(log[d]) /\ from \in Nat
    BY <1>1
  <2> HIDE DEF from
  <2>2. end \in from..Len(log[d]) /\ (end = from \/ log[d][end] = NL)
    BY <1>1, <2>1, ConsumedTyped
  <2>3. \A i \in at : i \in Nat /\ from < i /\ i <= end /\ i \in 1..Len(log[d]) /\ log[d][i] \in Ids
    BY <1>1, <2>1, ReadBetween
  <2>4. \A i \in at : i < Len(log[d])
    BY <1>1, <2>1 DEF LinesAfter
  <2> HIDE DEF end, at
  <2> QED  BY <1>1, <2>1, <2>2, <2>3, <2>4
<1>9. /\ n.off = m.off /\ n.todo = m.todo \ {d} /\ n.pc \in {"read", "decide"} /\ n.pairs = m.pairs
      /\ d \in live => n.batch = m.batch \o read /\ n.next = [day |-> d, byte |-> end]
      /\ d \notin live => n.batch = m.batch /\ n.next = m.next
  <2> HIDE DEF from, read, end, at
  <2> QED  BY <1>3 DEF AfterReading, Process, from, read, end
<1>10. from = IF d = m.off.day THEN Smaller(m.off.byte, Len(log[d])) ELSE 0
  BY DEF From
<1>11. d \in m.todo /\ \A e \in m.todo : d <= e
  BY <1>1
<1>12. ASSUME NEW x \in Lines, x.day = d
       PROVE  x.at \in Nat \ {0} /\ x.at <= end /\ (x.at <= from \/ x.id \in Range(read)) /\ x.at < Len(log[d])
  <2>1. x.at \in LinesAfter(log[d], 0) /\ x.id = log[d][x.at] /\ x.at < Len(log[d])
    BY <1>12, LineTyped
  <2> QED  BY <1>1, <2>1, LineWasRead
<1> HIDE DEF m, n, from, read, end, at
\* The lines of what is read now.
<1>13. ASSUME NEW k \in 1..Len(read), NEW x \in Lines, x.id = read[k]
       PROVE  x.day = d /\ x.at = Nth(at, k) /\ from < x.at /\ x.at <= end
  <2>1. Nth(at, k) \in at /\ read[k] = log[d][Nth(at, k)]
    BY <1>7
  <2>2. Nth(at, k) \in 1..Len(log[d]) /\ Nth(at, k) <= end /\ from < Nth(at, k)
    BY <1>8, <2>1
  <2>3. x.day = d /\ x.at = Nth(at, k)
    BY <1>1, <1>13, <2>1, <2>2, OneLine DEF Numbered
  <2> QED  BY <2>2, <2>3
<1>14. ASSUME NEW k \in 1..Len(read)  PROVE  Finished(read[k], log)
  <2>1. Nth(at, k) \in at /\ read[k] = log[d][Nth(at, k)]
    BY <1>7
  <2>2. Nth(at, k) \in 1..Len(log[d]) /\ log[d][Nth(at, k)] \in Ids /\ Nth(at, k) < Len(log[d])
    BY <1>8, <2>1
  <2>3. ASSUME NEW e \in Days, NEW l \in 1..Len(log[e]), log[e][l] = read[k]  PROVE  e = d /\ l = Nth(at, k)
    BY <1>1, <2>1, <2>2, <2>3 DEF Numbered, PlacedOnce
  <2> QED  BY <2>2, <2>3 DEF Finished
<1>15. ASSUME NEW x \in OnTime, x.day < d  PROVE  BehindAt(x, m.next)
  <2>1. BehindAt(x, m.next) \/ x.day \in m.todo
    BY <1>4, <1>11, <1>15
  <2>2. x.day \in Nat
    BY OnTimeLines, LineTyped
  <2> QED  BY <1>3, <1>11, <1>15, <2>1, <2>2
<1>16. ASSUME d \notin live  PROVE  Placed(n, Lines, OnTime, log, entries)
  <2>1. Gathered(n, Lines, OnTime)
    BY <1>5, <1>6, <1>9, <1>16 DEF Gathered
  <2> QED  BY <1>5, <1>9, <1>16, <2>1 DEF Placed
<1>17. ASSUME d \in live  PROVE  Placed(n, Lines, OnTime, log, entries)
  <2>1. n.batch = m.batch \o read /\ n.next.day = d /\ n.next.byte = end /\ n.off = m.off
        /\ n.todo = m.todo \ {d} /\ n.pairs = m.pairs /\ n.pc \in {"read", "decide"}
    BY <1>9, <1>17
  <2>2. Range(n.batch) = Range(m.batch) \cup Range(read)
    BY <1>3, <1>7, <2>1, RangeOfConcat
  <2>3. /\ Len(n.batch) = Len(m.batch) + Len(read)
        /\ \A i \in 1..Len(m.batch) + Len(read) :
             n.batch[i] = IF i <= Len(m.batch) THEN m.batch[i] ELSE read[i - Len(m.batch)]
        /\ \A i \in 1..Len(m.batch) : n.batch[i] = m.batch[i]
    <3>1. m.batch \in Seq(Ids) /\ read \in Seq(Ids) /\ n.batch = m.batch \o read
      BY <1>3, <1>7, <2>1
    <3> QED  BY ONLY <3>1, ConcatParts
  <2>4. \A f \in Range(read) : \E k \in 1..Len(read) : f = read[k]
    BY <1>7 DEF Range
  <2>5. \A i \in Range(n.batch) : Finished(i, log)
    BY <1>5, <1>14, <2>2, <2>4 DEF Placed
  <2>6. Whole(n.next, OnTime)
    <3>1. SUFFICES ASSUME NEW x \in OnTime, x.day = d, x.at = end  PROVE  FALSE
      BY <2>1 DEF Whole
    <3>2. x \in Lines
      BY OnTimeLines
    <3>3. x.at \in Nat \ {0} /\ x.at < Len(log[d]) /\ x.id \in Ids /\ x.id = log[d][x.at]
      BY <1>12, <3>1, <3>2, LineTyped
    <3>4. end = from
      BY <1>8, <3>1, <3>3, Constants
    <3>5. d = m.off.day /\ from = Smaller(m.off.byte, Len(log[d]))
      BY <1>10, <3>1, <3>3, <3>4
    <3>6. x.at = m.off.byte
      BY <1>1, <1>3, <3>1, <3>3, <3>4, <3>5 DEF Smaller
    <3> QED  BY <1>5, <3>1, <3>5, <3>6 DEF Whole
  <2>7. ASSUME NEW x \in OnTime, BehindAt(x, n.next)  PROVE  BehindAt(x, n.off) \/ x.id \in Range(n.batch)
    <3>1. x \in Lines
      BY OnTimeLines
    <3>2. CASE x.day < d
      BY <1>6, <1>15, <2>1, <2>2, <3>2
    <3>3. CASE ~(x.day < d)
      <4>1. x.day = d
        BY <2>1, <2>7, <3>3 DEF BehindAt
      <4>2. SUFFICES ASSUME x.at <= from  PROVE  BehindAt(x, m.off)
        BY <1>12, <2>1, <2>2, <3>1, <4>1
      <4>3. x.at \in Nat \ {0}
        BY <1>12, <3>1, <4>1
      <4>4. d = m.off.day /\ from = Smaller(m.off.byte, Len(log[d]))
        BY <1>8, <1>10, <4>2, <4>3
      <4>5. x.at <= m.off.byte
        BY <1>1, <1>3, <4>2, <4>3, <4>4 DEF Smaller
      <4> QED  BY <4>1, <4>4, <4>5 DEF BehindAt
    <3> QED  BY <3>2, <3>3
  <2>8. ASSUME NEW x \in Lines, x.id \in Range(n.batch)
        PROVE  BehindAt(x, n.next) /\ ~BehindAt(x, n.off) /\ x.day <= d /\ x.day \in Nat
    <3>0. x.day \in Nat /\ x.at \in Nat
      BY LineTyped
    <3>1. CASE x.id \in Range(m.batch)
      <4>1. x.day < d /\ ~BehindAt(x, m.off)
        BY <1>6, <1>11, <3>1
      <4> QED  BY <1>3, <2>1, <3>0, <4>1 DEF BehindAt
    <3>2. CASE x.id \in Range(read)
      <4>1. PICK k \in 1..Len(read) : x.id = read[k]
        BY <2>4, <3>2
      <4>2. x.day = d /\ from < x.at /\ x.at <= end
        BY <1>13, <4>1
      <4>3. ~BehindAt(x, m.off)
        <5>1. SUFFICES ASSUME BehindAt(x, m.off)  PROVE  FALSE
          OBVIOUS
        <5>2. m.off.day <= d
          BY <1>6, <1>11
        <5>3. d = m.off.day /\ x.at <= m.off.byte
          BY <1>3, <4>2, <5>1, <5>2 DEF BehindAt
        <5>4. from = Smaller(m.off.byte, Len(log[d])) /\ x.at < Len(log[d])
          BY <1>10, <1>12, <4>2, <5>3
        <5> QED  BY <1>1, <1>3, <3>0, <4>2, <5>3, <5>4 DEF Smaller
      <4> QED  BY <1>3, <2>1, <4>2, <4>3 DEF BehindAt
    <3> QED  BY <2>2, <2>8, <3>1, <3>2
  <2>9. ASSUME NEW x \in Lines, NEW y \in Lines, NEW i \in 1..Len(n.batch), NEW k \in 1..Len(n.batch),
               i < k, x.id = n.batch[i], y.id = n.batch[k]
        PROVE  Before(x, y)
    <3>1. i \in 1..Len(m.batch) + Len(read) /\ k \in 1..Len(m.batch) + Len(read) /\ i \in Nat /\ k \in Nat
      BY <1>3, <1>7, <2>3
    <3>2. \A z \in 1..Len(m.batch) + Len(read) :
            \/ z \in 1..Len(m.batch) /\ n.batch[z] = m.batch[z] /\ m.batch[z] \in Range(m.batch)
            \/ z - Len(m.batch) \in 1..Len(read) /\ n.batch[z] = read[z - Len(m.batch)] /\ ~(z \in 1..Len(m.batch))
      <4> TAKE z \in 1..Len(m.batch) + Len(read)
      <4>1. CASE z <= Len(m.batch)
        <5>1. z \in 1..Len(m.batch) /\ n.batch[z] = m.batch[z]
          BY <1>3, <1>7, <2>3, <4>1
        <5> QED  BY <1>3, <5>1 DEF Range
      <4>2. CASE ~(z <= Len(m.batch))
        BY <1>3, <1>7, <2>3, <4>2
      <4> QED  BY <4>1, <4>2
    <3>3. CASE i \in 1..Len(m.batch) /\ k \in 1..Len(m.batch)
      <4>1. x.id = m.batch[i] /\ y.id = m.batch[k]
        BY <2>3, <2>9, <3>3
      <4> QED  BY <1>6, <2>9, <3>3, <4>1
    <3>4. CASE i \in 1..Len(m.batch) /\ ~(k \in 1..Len(m.batch))
      <4>1. n.batch[i] \in Range(m.batch)
        <5>1. n.batch[i] = m.batch[i]
          BY <1>3, <1>7, <2>3, <3>4
        <5> QED  BY <1>3, <3>4, <5>1 DEF Range
      <4>2. k - Len(m.batch) \in 1..Len(read) /\ n.batch[k] = read[k - Len(m.batch)]
        BY <3>1, <3>2, <3>4
      <4>3. x.day < d
        BY <1>6, <1>11, <2>9, <4>1
      <4>4. y.day = d
        BY <1>13, <2>9, <4>2
      <4> QED  BY <4>3, <4>4 DEF Before
    <3>5. CASE ~(i \in 1..Len(m.batch)) /\ ~(k \in 1..Len(m.batch))
      <4>1. /\ i - Len(m.batch) \in 1..Len(read) /\ n.batch[i] = read[i - Len(m.batch)]
            /\ k - Len(m.batch) \in 1..Len(read) /\ n.batch[k] = read[k - Len(m.batch)]
        BY <3>1, <3>2, <3>5
      <4>2. /\ x.day = d /\ x.at = Nth(at, i - Len(m.batch))
            /\ y.day = d /\ y.at = Nth(at, k - Len(m.batch))
        BY <1>13, <2>9, <4>1
      <4>3. i - Len(m.batch) < k - Len(m.batch)
        BY <1>3, <2>9, <3>1
      <4>4. x.at < y.at
        BY <1>1, <1>7, <4>1, <4>2, <4>3, NthMonotone
      <4> QED  BY <4>2, <4>4 DEF Before
    <3>6. CASE ~(i \in 1..Len(m.batch)) /\ k \in 1..Len(m.batch)
      BY <1>3, <2>9, <3>1, <3>6
    <3> QED  BY <3>3, <3>4, <3>5, <3>6
  <2>10. \A e \in n.todo : m.off.day <= e /\ e > d /\ e \in Nat
    BY <1>3, <1>6, <1>11, <2>1
  <2>11. \A e \in n.todo : m.off.day <= e /\ \A x \in Lines : x.id \in Range(n.batch) => x.day < e
    BY <1>3, <2>8, <2>10
  <2>12. Gathered(n, Lines, OnTime)
    BY <1>5, <2>1, <2>7, <2>8, <2>9, <2>11 DEF Gathered
  <2> QED  BY <1>5, <2>1, <2>5, <2>6, <2>12 DEF Placed
<1>18. UNCHANGED <<files, late, entries, offset, counted, anchors>>
  BY <1>1 DEF ghosts
<1> QED  BY <1>1, <1>16, <1>17, <1>18, AnchoringInside DEF n

\* The last recall in front of the offset.
LEMMA SeedIsLast ==
  ASSUME TypeOK, PlacedOnce(log), NEW off \in Offset, Whole(off, OnTime), NEW session,
         NEW r \in OnTime, BehindAt(r, off), E(r.id).kind = "recall", E(r.id).session = session
  PROVE  /\ SeedFamily(off, session) # 0
         /\ \A l \in Lines : l.id = SeedFamily(off, session) => ~Before(l, r)
<1> DEFINE n(d) == IF d = off.day THEN Smaller(off.byte, Len(log[d])) ELSE Len(log[d])
           before(d) == SubSeq(log[d], 1, n(d))
           seen(d) == {i \in Pieces(before(d)) :
                         E(log[d][i]).kind = "recall" /\ E(log[d][i]).session = session}
           days == {d \in live : d <= off.day /\ seen(d) # {}}
<1>1. SeedFamily(off, session) = IF off = [day |-> 0, byte |-> 0] \/ days = {} THEN 0
                                 ELSE log[Max(days)][Max(seen(Max(days)))]
  BY DEF SeedFamily
<1>2. ASSUME NEW d \in Days
      PROVE  /\ log[d] \in Seq(0..Torn) /\ Len(log[d]) \in Nat /\ n(d) \in 0..Len(log[d])
             /\ Len(before(d)) = n(d) /\ \A j \in 1..n(d) : before(d)[j] = log[d][j]
             /\ before(d) \in Seq(0..Torn)
  <2>1. log[d] \in Seq(0..Torn) /\ Len(log[d]) \in Nat
    BY LenProperties DEF TypeOK
  <2>2. n(d) \in 0..Len(log[d])
    BY <2>1 DEF Smaller, Offset
  <2> HIDE DEF n
  <2>4. before(d) \in Seq(0..Torn)
    BY <2>1, <2>2, FrontTyped
  <2> QED  BY <2>1, <2>2, <2>4
<1>3. r \in Lines /\ r.day \in live /\ r.day \in Days /\ r.day \in Nat /\ r.at \in Nat \ {0} /\ r.id = log[r.day][r.at]
      /\ r.at \in LinesAfter(log[r.day], 0) /\ r.at < Len(log[r.day])
  BY OnTimeLines, LineTyped
<1>4. off.day \in Nat /\ off.byte \in Nat
  BY Constants DEF Offset
<1>5. off # [day |-> 0, byte |-> 0]
  BY <1>3, <1>4 DEF BehindAt
<1>6. r.day <= off.day /\ r.at < n(r.day)
  <2>1. CASE r.day = off.day
    <3>1. r.at <= off.byte /\ r.at # off.byte
      BY <1>3, <1>4, <2>1 DEF BehindAt, Whole
    <3> QED  BY <1>2, <1>3, <1>4, <2>1, <3>1 DEF Smaller
  <2>2. CASE r.day # off.day
    BY <1>3, <1>4, <2>2 DEF BehindAt
  <2> QED  BY <2>1, <2>2
<1> HIDE DEF n
<1>7. r.at \in Pieces(before(r.day))
  <2> DEFINE part == before(r.day)
             k == r.at
  <2>1. /\ Len(part) = n(r.day) /\ Len(log[r.day]) \in Nat /\ n(r.day) \in 0..Len(log[r.day])
        /\ \A j \in 1..n(r.day) : part[j] = log[r.day][j]
        /\ part \in Seq(0..Torn)
    BY <1>2, <1>3
  <2>2. k \in Nat \ {0} /\ k < n(r.day) /\ k \in LinesAfter(log[r.day], 0)
    BY <1>3, <1>6
  <2> HIDE DEF part, k
  <2>3. log[r.day][k] \in Ids /\ log[r.day][k + 1] = NL /\ (k = 0 + 1 \/ log[r.day][k - 1] = NL)
    BY <2>2 DEF LinesAfter
  <2>4. k \in 1..n(r.day) /\ k + 1 \in 1..n(r.day) /\ (k = 0 + 1 \/ k - 1 \in 1..n(r.day)) /\ k \in 0 + 1 .. Len(part) - 1
    BY <2>1, <2>2
  <2>5. k \in LinesAfter(part, 0)
    BY <2>1, <2>3, <2>4 DEF LinesAfter
  <2>6. k \in Pieces(part)
    BY <2>1, <2>5, PieceParts
  <2> QED  BY <2>6 DEF part, k
<1>8. r.at \in seen(r.day)
  BY <1>3, <1>7
<1>9. days \in SUBSET (0..(MaxNow \div TicksPerDay))
  BY DEF TypeOK, Days
<1>10. ASSUME NEW d \in Days, NEW i \in seen(d)
       PROVE  i \in 1..Len(log[d]) /\ i \in 0..Len(log[d]) /\ log[d][i] \in Ids
  <2> DEFINE part == before(d)
  <2>1. i \in Pieces(part)
    OBVIOUS
  <2>2. /\ Len(part) = n(d) /\ Len(log[d]) \in Nat /\ n(d) \in 0..Len(log[d])
        /\ \A j \in 1..n(d) : part[j] = log[d][j]
        /\ part \in Seq(0..Torn)
    BY <1>2
  <2> HIDE DEF part
  <2>3. i \in 1..Len(part) /\ part[i] \in Ids
    BY <2>1, <2>2, PieceParts
  <2>4. i \in 1..n(d)
    BY <2>2, <2>3
  <2> QED  BY <2>2, <2>3, <2>4
<1>11. \A d \in days : d \in Days /\ seen(d) # {}
  BY <1>9 DEF Days
<1> HIDE DEF seen
<1>12. r.day \in days
  BY <1>3, <1>6, <1>8
<1> HIDE DEF days
<1>13. Max(days) \in days /\ \A y \in days : Max(days) >= y
  BY <1>9, <1>12, MaxExists, Constants
<1> DEFINE d == Max(days)
           k == Max(seen(d))
<1>14. d \in Days /\ d \in Nat /\ seen(d) # {} /\ d >= r.day
  BY <1>11, <1>12, <1>13, Constants
<1> HIDE DEF d
<1>15. seen(d) \in SUBSET (0..Len(log[d])) /\ Len(log[d]) \in Nat
  <2>1. \A i \in seen(d) : i \in 0..Len(log[d])
    BY <1>10, <1>14
  <2> QED  BY <1>2, <1>14, <2>1
<1>16. k \in seen(d) /\ \A y \in seen(d) : k >= y
  BY <1>14, <1>15, MaxExists
<1> HIDE DEF k
<1>17. SeedFamily(off, session) = log[d][k]
  BY <1>1, <1>5, <1>12 DEF d, k
<1>18. log[d][k] \in Ids /\ k \in 1..Len(log[d])
  BY <1>10, <1>14, <1>16
<1>19. ASSUME NEW l \in Lines, l.id = log[d][k]  PROVE  ~Before(l, r)
  <2>1. l.day = d /\ l.at = k
    BY <1>14, <1>18, <1>19, OneLine
  <2>2. d = r.day => k >= r.at
    BY <1>8, <1>16
  <2>3. k \in Nat
    BY <1>15, <1>18
  <2> QED  BY <1>3, <1>14, <2>1, <2>2, <2>3 DEF Before
<1> QED  BY <1>17, <1>18, <1>19, Constants DEF NL

\* The last recall in front of a failure of the batch.
LEMMA FamilyIsLast ==
  ASSUME TypeOK, PlacedOnce(log), NEW m \in Process, Gathered(m, Lines, OnTime),
         NEW i \in 1..Len(m.batch), NEW f \in OnTime, f.id = m.batch[i],
         NEW r \in OnTime, Before(r, f), E(r.id).kind = "recall", E(r.id).session = E(m.batch[i]).session
  PROVE  /\ Family(m.batch, m.off, i) # 0
         /\ \A l \in OnTime : l.id = Family(m.batch, m.off, i) => ~Before(l, r)
<1> DEFINE batch == m.batch
           session == E(batch[i]).session
           recalls == {j \in 1..i - 1 : E(batch[j]).kind = "recall" /\ E(batch[j]).session = session}
<1>1. Family(m.batch, m.off, i) = IF recalls = {} THEN SeedFamily(m.off, session) ELSE batch[Max(recalls)]
  BY DEF Family
<1>2. /\ m.batch \in Seq(Ids) /\ m.off \in Offset /\ m.next \in Offset /\ Len(m.batch) \in Nat /\ i \in Nat
      /\ m.next.day \in Nat /\ m.next.byte \in Nat
  <2>1. m.batch \in Seq(Ids) /\ m.off \in Offset /\ m.next \in Offset
    BY DEF Process
  <2>2. Len(m.batch) \in Nat
    BY <2>1, LenProperties
  <2>3. m.next.day \in Nat /\ m.next.byte \in Nat
    BY <2>1, Constants DEF Offset
  <2>4. i \in Nat
    BY <2>2
  <2> QED  BY <2>1, <2>2, <2>3, <2>4
<1>3. /\ Whole(m.off, OnTime)
      /\ \A x \in OnTime : BehindAt(x, m.next) => BehindAt(x, m.off) \/ x.id \in Range(m.batch)
      /\ \A x \in Lines : x.id \in Range(m.batch) => BehindAt(x, m.next) /\ ~BehindAt(x, m.off)
      /\ \A x \in Lines, y \in Lines : \A j \in 1..Len(m.batch), k \in 1..Len(m.batch) :
           j < k /\ x.id = m.batch[j] /\ y.id = m.batch[k] => Before(x, y)
  BY DEF Gathered
<1>4. f \in Lines /\ r \in Lines
  BY OnTimeLines
<1>5. /\ f.day \in Nat /\ f.at \in Nat /\ r.day \in Nat /\ r.at \in Nat
  BY <1>4, LineTyped
<1>6. BehindAt(r, m.next)
  <2>1. m.batch[i] \in Range(m.batch)
    BY <1>2 DEF Range
  <2>2. BehindAt(f, m.next)
    BY <1>3, <1>4, <2>1
  <2> QED  BY <1>2, <1>5, <2>2 DEF BehindAt, Before
\* In the batch it stands in front of the failure.
<1>7. ASSUME ~BehindAt(r, m.off)  PROVE  \E k \in recalls : r.id = batch[k]
  <2>1. r.id \in Range(m.batch)
    BY <1>3, <1>6, <1>7
  <2>2. PICK k \in 1..Len(m.batch) : r.id = m.batch[k]
    BY <1>2, <2>1 DEF Range
  <2>3. k # i
    <3>1. SUFFICES ASSUME k = i  PROVE  FALSE
      OBVIOUS
    <3>2. r = f
      BY <1>4, <2>2, <3>1, LineUnique
    <3> QED  BY <1>5, <3>2 DEF Before
  <2>4. ~(i < k)
    <3>1. SUFFICES ASSUME i < k  PROVE  FALSE
      OBVIOUS
    <3>2. Before(f, r)
      BY <1>3, <1>4, <2>2, <3>1
    <3> QED  BY <1>5, <3>2 DEF Before
  <2>5. k \in 1..i - 1
    BY <1>2, <2>3, <2>4
  <2>6. E(batch[k]).kind = "recall" /\ E(batch[k]).session = session
    BY <2>2
  <2> QED  BY <2>2, <2>5, <2>6
<1>8. recalls \in SUBSET (1..Len(m.batch)) /\ recalls \in SUBSET (0..Len(m.batch))
  BY <1>2
<1> HIDE DEF recalls
<1>9. CASE recalls = {}
  <2>1. BehindAt(r, m.off)
    BY <1>7, <1>9
  <2>2. Family(m.batch, m.off, i) = SeedFamily(m.off, session)
    BY <1>1, <1>9
  <2>3. E(r.id).session = session
    OBVIOUS
  <2> HIDE DEF session
  <2>4. /\ SeedFamily(m.off, session) # 0
        /\ \A l \in Lines : l.id = SeedFamily(m.off, session) => ~Before(l, r)
    BY <1>2, <1>3, <2>1, <2>3, SeedIsLast
  <2> QED  BY <2>2, <2>4, OnTimeLines
<1>10. CASE recalls # {}
  <2> DEFINE j == Max(recalls)
  <2>1. j \in recalls /\ \A y \in recalls : j >= y
    BY <1>2, <1>8, <1>10, MaxExists
  <2>2. Family(m.batch, m.off, i) = batch[j]
    BY <1>1, <1>10
  <2> HIDE DEF j
  <2>3. j \in 1..Len(m.batch) /\ batch[j] \in Ids /\ batch[j] \in Range(m.batch)
    BY <1>2, <1>8, <2>1 DEF Range
  <2>4. ASSUME NEW l \in OnTime, l.id = batch[j], Before(l, r)  PROVE  FALSE
    <3>1. l \in Lines /\ l.day \in Nat /\ l.at \in Nat
      BY OnTimeLines, LineTyped
    <3>2. ~BehindAt(l, m.off)
      BY <1>3, <2>3, <2>4, <3>1
    <3>3. ~BehindAt(r, m.off)
      <4>1. m.off.day \in Nat /\ m.off.byte \in Nat
        BY <1>2, Constants DEF Offset
      <4> QED  BY <1>5, <2>4, <3>1, <3>2, <4>1 DEF BehindAt, Before
    <3>4. PICK k \in recalls : r.id = batch[k]
      BY <1>7, <3>3
    <3>5. k \in 1..Len(m.batch) /\ j >= k /\ k \in Nat /\ j \in Nat
      BY <1>8, <2>1, <2>3, <3>4
    <3>6. CASE k = j
      <4>1. l = r
        BY <1>4, <2>4, <3>1, <3>4, <3>6, LineUnique
      <4> QED  BY <1>5, <2>4, <4>1 DEF Before
    <3>7. CASE k < j
      <4>1. Before(r, l)
        BY <1>3, <1>4, <2>3, <2>4, <3>1, <3>4, <3>5, <3>7
      <4> QED  BY <1>5, <2>4, <3>1, <4>1 DEF Before
    <3> QED  BY <3>5, <3>6, <3>7
  <2> QED  BY <2>2, <2>3, <2>4, Constants DEF NL
<1> QED  BY <1>9, <1>10

LEMMA DecideAnchoring ==
  ASSUME TypeOK, TypeOK', Numbered, Sound, Moved, Anchoring, NEW p \in Procs, Decide(p)  PROVE  Anchoring'
<1> DEFINE m == proc[p]
           n == AfterDeciding(p)
           at == {i \in Failures(m.batch) : Corrected(m.batch, i)}
           pairs == PairsOf(m.batch, m.off)
<1>1. /\ At(p, "decide") /\ m \in Process
      /\ \/ proc' = [proc EXCEPT ![p] = GoneTo(p, "idle")]
         \/ proc' = [proc EXCEPT ![p] = n]
      /\ UNCHANGED <<now, entries, files, offset, counted, faults, wrote, late, handed, shared, anchors>>
  BY Deciding
<1>2. Placed(m, Lines, OnTime, log, entries) /\ m.pc = "decide" /\ m.batch \in Seq(Ids) /\ m.off \in Offset
  BY <1>1 DEF Anchoring, At, Process
<1>3. Gathered(m, Lines, OnTime) /\ Whole(m.next, OnTime)
  BY <1>2 DEF Placed, InPassAt
<1>4. CASE proc' = [proc EXCEPT ![p] = GoneTo(p, "idle")]
  <2>1. GoneTo(p, "idle") = Idle
    BY GoneTyped DEF Stages
  <2>2. Placed(Idle, Lines, OnTime, log, entries)
    <3>1. Idle.batch = <<>> /\ Idle.pairs = <<>> /\ ~InPassAt(Idle)
      BY DEF Idle, InPassAt
    <3> QED  BY <1>2, <3>1, PlacedOutside
  <2> QED  BY <1>1, <1>4, <2>1, <2>2, AnchoringInside
<1>5. CASE proc' = [proc EXCEPT ![p] = n]
  <2>1. n.pc \in {"store", "derive"} /\ n.batch = m.batch /\ n.next = m.next /\ n.pairs = pairs
    <3> HIDE DEF pairs
    <3> QED  BY <1>1 DEF AfterDeciding, Process, pairs
  <2>2. /\ \A k \in 1..Len(pairs) : Nth(at, k) \in 1..Len(m.batch)
        /\ Len(pairs) = Cardinality(at) /\ pairs \in Seq(Pair)
    BY <1>2, PairsTyped
  <2>3. ASSUME NEW k \in 1..Len(pairs)
        PROVE  /\ pairs[k].f = m.batch[Nth(at, k)] /\ pairs[k].family = Family(m.batch, m.off, Nth(at, k))
    <3> DEFINE pair(i) == [f |-> m.batch[i], s |-> m.batch[Min(Retries(m.batch, i))], family |-> Family(m.batch, m.off, i)]
    <3>1. pairs = [j \in 1..Cardinality(at) |-> pair(Nth(at, j))]
      BY DEF PairsOf
    <3>2. k \in 1..Cardinality(at)
      BY <2>2
    <3> HIDE DEF pairs, at
    <3>3. pairs[k] = pair(Nth(at, k))
      BY <3>1, <3>2
    <3> QED  BY <3>3
  <2> HIDE DEF pairs, at, n
  <2>4. ASSUME NEW k \in 1..Len(pairs)  PROVE  Tied(pairs[k], OnTime, entries)
    <3> DEFINE i == Nth(at, k)
    <3>1. i \in 1..Len(m.batch) /\ pairs[k].f = m.batch[i] /\ pairs[k].family = Family(m.batch, m.off, i)
      BY <2>2, <2>3
    <3> HIDE DEF i, m
    <3>2. ASSUME NEW f \in OnTime, NEW r \in OnTime, f.id = m.batch[i], entries[r.id].kind = "recall",
                 entries[r.id].session = entries[m.batch[i]].session, Before(r, f)
          PROVE  /\ Family(m.batch, m.off, i) # 0
                 /\ \A l \in OnTime : l.id = Family(m.batch, m.off, i) => ~Before(l, r)
      BY <1>1, <1>3, <3>1, <3>2, FamilyIsLast DEF Numbered, E
    <3> QED  BY <3>1, <3>2, Zenon DEF Tied
  <2>5. Placed(n, Lines, OnTime, log, entries)
    BY <1>2, <1>3, <2>1, <2>4 DEF Placed
  <2> QED  BY <1>1, <1>5, <2>5, AnchoringInside DEF n
<1> QED  BY <1>1, <1>4, <1>5

LEMMA DeriveAnchoring ==
  ASSUME TypeOK, TypeOK', Shape, Numbered, Sound, Moved, Anchoring, NEW p \in Procs, Derive(p)  PROVE  Anchoring'
<1> DEFINE m == proc[p]
           pairs == m.pairs
           n == AfterDeriving(p)
<1>1. /\ At(p, "derive") /\ m \in Process /\ pairs \in Seq(Pair) /\ pairs # <<>>
      /\ Head(pairs) \in Pair /\ Head(pairs).f \in Ids
      /\ counted' = [counted EXCEPT ![Head(pairs).f] = @ + 1]
      /\ proc' = [proc EXCEPT ![p] = n]
      /\ anchors' = anchors \cup {Head(pairs)}
      /\ UNCHANGED <<now, entries, files, offset, faults, wrote, late, handed, crossed, shared>>
  BY Deriving
<1>2. n.pc \in {"store", "derive"} /\ n.batch = m.batch /\ n.next = m.next /\ n.pairs = Tail(pairs)
  BY <1>1 DEF AfterDeriving, Process
<1>3. Lines' = Lines /\ OnTime' = OnTime /\ log' = log /\ entries' = entries /\ offset' = offset
  BY <1>1, LinesAre DEF files
<1>4. Placed(m, Lines, OnTime, log, entries) /\ m.pc = "derive"
  BY <1>1 DEF Anchoring, At
<1> HIDE DEF n, pairs
<1>5. /\ Len(pairs) \in Nat \ {0} /\ Head(pairs) = pairs[1] /\ Len(Tail(pairs)) = Len(pairs) - 1
      /\ \A i \in 1..Len(Tail(pairs)) : Tail(pairs)[i] = pairs[i + 1]
  <2>1. Len(pairs) \in Nat \ {0}
    BY <1>1, LenProperties, EmptySeq
  <2>2. Len(Tail(pairs)) = Len(pairs) - 1 /\ \A i \in 1..Len(Tail(pairs)) : Tail(pairs)[i] = pairs[i + 1]
    BY <1>1, HeadTailProperties
  <2> QED  BY <1>1, <2>1, <2>2
<1>6. \A k \in 1..Len(pairs) : Tied(pairs[k], OnTime, entries)
  BY <1>4 DEF Placed, pairs
<1>7. \A k \in 1..Len(Tail(pairs)) : Tied(Tail(pairs)[k], OnTime, entries)
  <2> TAKE k \in 1..Len(Tail(pairs))
  <2>1. k + 1 \in 1..Len(pairs) /\ Tail(pairs)[k] = pairs[k + 1]
    BY <1>5
  <2> QED  BY <1>6, <2>1
<1>8. Placed(n, Lines, OnTime, log, entries)
  BY <1>2, <1>4, <1>7 DEF Placed, InPassAt
<1>9. Finished(Head(pairs).f, log) /\ Tied(Head(pairs), OnTime, entries)
  <2>1. 1 \in 1..Len(pairs)
    BY <1>5
  <2>2. \A k \in 1..Len(m.pairs) : IsRead(m.pairs[k].f)
    BY <1>4, PairsRead
  <2> QED  BY <1>5, <1>6, <2>1, <2>2 DEF IsRead, pairs
<1>10. ASSUME NEW a \in anchors'  PROVE  counted'[a.f] > 0 /\ Finished(a.f, log) /\ Tied(a, OnTime, entries)
  <2>1. \A f \in Ids : counted[f] \in Nat /\ counted'[f] \in Nat /\ counted'[f] >= counted[f]
    BY <1>1 DEF TypeOK
  <2>2. CASE a \in anchors
    <3>1. a.f \in Ids /\ counted[a.f] > 0 /\ Finished(a.f, log) /\ Tied(a, OnTime, entries)
      BY <2>2 DEF Anchoring, TypeOK, Pair
    <3> QED  BY <2>1, <3>1
  <2>3. CASE a = Head(pairs)
    <3>1. counted'[a.f] = counted[a.f] + 1
      BY <1>1, <2>3 DEF TypeOK
    <3> QED  BY <1>1, <1>9, <2>1, <2>3, <3>1
  <2> QED  BY <1>1, <2>2, <2>3
<1>11. \A q \in Procs : Placed(proc'[q], Lines, OnTime, log, entries)
  BY <1>1, <1>8 DEF Anchoring, TypeOK
<1>12. Whole(offset, OnTime)
  BY DEF Anchoring
<1> QED  BY <1>3, <1>10, <1>11, <1>12 DEF Anchoring

\* The offset is stored: it is where the pass got.
LEMMA StoreAnchoring ==
  ASSUME TypeOK, Moved, Anchoring, NEW p \in Procs, StoreOffset(p)  PROVE  Anchoring'
<1> DEFINE n == GoneTo(p, "idle")
<1>1. /\ At(p, "store") /\ proc' = [proc EXCEPT ![p] = n] /\ offset' = proc[p].next
      /\ UNCHANGED <<entries, files, counted, late, anchors>>
  BY DEF StoreOffset, Goto
<1>2. Lines' = Lines /\ OnTime' = OnTime /\ log' = log /\ entries' = entries
  BY <1>1, LinesAre DEF files
<1>3. Whole(offset', OnTime)
  BY <1>1 DEF Anchoring, Placed, InPassAt, At
<1>4. Placed(n, Lines, OnTime, log, entries)
  <2>1. n.batch \in {<<>>, proc[p].batch} /\ n.pairs \in {<<>>, proc[p].pairs} /\ ~InPassAt(n)
    BY GoneParts, GoneOutside DEF Stages
  <2> HIDE DEF n
  <2> QED  BY <2>1, PlacedOutside DEF Anchoring
<1> HIDE DEF n
<1>5. \A q \in Procs : Placed(proc'[q], Lines, OnTime, log, entries)
  BY <1>1, <1>4 DEF Anchoring, TypeOK
<1> QED  BY <1>1, <1>2, <1>3, <1>5 DEF Anchoring

\* A process that goes to a stage outside a pass.
LEMMA GoneAnchoring ==
  ASSUME TypeOK, TypeOK', Numbered, Sound, Moved, Anchoring, UNCHANGED <<offset, counted, anchors>>,
         NEW p \in Procs, NEW stage \in {"idle", "load", "write"}, proc' = [proc EXCEPT ![p] = GoneTo(p, stage)]
  PROVE  Anchoring'
<1> DEFINE n == GoneTo(p, stage)
<1>1. stage \in Stages
  BY DEF Stages
<1>2. n.batch \in {<<>>, proc[p].batch} /\ n.pairs \in {<<>>, proc[p].pairs} /\ ~InPassAt(n)
  BY <1>1, GoneParts, GoneOutside
<1>3. proc' = [proc EXCEPT ![p] = n]
  OBVIOUS
<1> HIDE DEF n
<1>4. \A q \in Procs : \/ proc'[q] = proc[q]
                       \/ /\ proc'[q].batch \in {<<>>, proc[q].batch} /\ proc'[q].pairs \in {<<>>, proc[q].pairs}
                          /\ ~InPassAt(proc'[q])
  BY <1>2, <1>3 DEF TypeOK
<1> QED  BY <1>4, AnchoringStep

LEMMA BeginAnchoring ==
  ASSUME TypeOK, TypeOK', Numbered, Sound, Moved, Anchoring,
         NEW p \in Procs, NEW s \in Sessions, NEW k \in Kinds, Begin(p, s, k)
  PROVE  Anchoring'
<1> DEFINE stage == IF log[SegmentOf(now)] = <<>> \/ Last(log[SegmentOf(now)]) = NL THEN "write" ELSE "fix"
<1>1. /\ proc' = [proc EXCEPT ![p].pc = stage, ![p].id = Len(entries) + 1, ![p].day = SegmentOf(now)]
      /\ UNCHANGED <<offset, counted, anchors>>
  BY DEF Begin, ghosts
<1>2. stage \in {"write", "fix"} /\ proc[p] \in Process
  BY DEF TypeOK
<1> HIDE DEF stage
<1>3. \A q \in Procs : \/ proc'[q] = proc[q]
                       \/ /\ proc'[q].batch \in {<<>>, proc[q].batch} /\ proc'[q].pairs \in {<<>>, proc[q].pairs}
                          /\ ~InPassAt(proc'[q])
  BY <1>1, <1>2 DEF TypeOK, Process, InPassAt
<1> QED  BY <1>1, <1>3, AnchoringStep

LEMMA WriteAnchoring ==
  ASSUME TypeOK, TypeOK', Numbered, Sound, Moved, Anchoring, NEW p \in Procs, Write(p)  PROVE  Anchoring'
<1> DEFINE victims == Prunable(live, log')
           m == [proc[p] EXCEPT !.pc = "clean", !.todo = victims]
<1>1. UNCHANGED <<offset, counted, anchors>>
  BY DEF Write
<1>2. CASE proc' = [proc EXCEPT ![p] = GoneTo(p, PassOf(p))]
  BY <1>1, <1>2, PassTyped, GoneAnchoring
<1>3. CASE proc' = [proc EXCEPT ![p] = m]
  <2> HIDE DEF victims
  <2>1. m.batch = proc[p].batch /\ m.pairs = proc[p].pairs /\ ~InPassAt(m)
    BY DEF TypeOK, Process, InPassAt
  <2> HIDE DEF m
  <2>2. \A q \in Procs : \/ proc'[q] = proc[q]
                         \/ /\ proc'[q].batch \in {<<>>, proc[q].batch} /\ proc'[q].pairs \in {<<>>, proc[q].pairs}
                            /\ ~InPassAt(proc'[q])
    BY <1>3, <2>1 DEF TypeOK
  <2> QED  BY <1>1, <2>2, AnchoringStep
<1> QED  BY <1>2, <1>3 DEF Write, Goto

LEMMA RemoveAnchoring ==
  ASSUME TypeOK, TypeOK', Shape, Numbered, Sound, Moved, Anchoring, NEW p \in Procs, RemoveSegment(p)
  PROVE  Anchoring'
<1>1. PICK d \in proc[p].todo :
           /\ d \in Days /\ NewerIn(live, d) /\ live' = live \ {d} /\ log' = [log EXCEPT ![d] = <<>>]
           /\ proc' = [q \in Procs |-> AfterRemoval(p, q, d)]
           /\ At(p, "clean") /\ \A e \in proc[p].todo : d <= e /\ e \in Days
           /\ UNCHANGED <<now, entries, offset, counted, faults, ghosts>>
  BY Removal
<1>2. ASSUME NEW q \in Procs
      PROVE  \/ proc'[q] = proc[q]
             \/ /\ proc'[q].batch \in {<<>>, proc[q].batch} /\ proc'[q].pairs \in {<<>>, proc[q].pairs}
                /\ ~InPassAt(proc'[q])
  <2>1. proc'[q] = AfterRemoval(p, q, d) /\ proc[q] \in Process
    BY <1>1 DEF TypeOK
  <2>2. CASE q = p
    <3>1. /\ PassOf(p) \in {"idle", "load"} /\ PassOf(p) \in Stages
          /\ GoneTo(p, PassOf(p)) \in Process /\ GoneTo(p, PassOf(p)).pc = PassOf(p)
      BY PassTyped, GoneTyped DEF Stages
    <3>2. /\ GoneTo(p, PassOf(p)).batch \in {<<>>, proc[p].batch}
          /\ GoneTo(p, PassOf(p)).pairs \in {<<>>, proc[p].pairs}
      BY <3>1, GoneParts
    <3> DEFINE m == AfterRemoval(p, q, d)
    <3>3. m.pc \in {"clean", "idle", "load"} /\ m.batch \in {<<>>, proc[p].batch} /\ m.pairs \in {<<>>, proc[p].pairs}
      BY <1>1, <2>1, <2>2, <3>1, <3>2 DEF AfterRemoval, At, Process
    <3> HIDE DEF m
    <3>4. ~InPassAt(m)
      BY <3>3 DEF InPassAt
    <3> QED  BY <2>1, <2>2, <3>3, <3>4 DEF m
  <2>3. CASE q # p /\ At(q, "write") /\ proc[q].day = d
    <3>1. proc'[q] = [proc[q] EXCEPT !.unlinked = TRUE]
      BY <2>1, <2>3 DEF AfterRemoval
    <3> QED  BY <2>1, <2>3, <3>1 DEF Process, InPassAt, At
  <2>4. CASE q # p /\ ~(At(q, "write") /\ proc[q].day = d)
    BY <2>1, <2>4 DEF AfterRemoval
  <2> QED  BY <2>2, <2>3, <2>4
<1> QED  BY <1>1, <1>2, AnchoringStep DEF ghosts

LEMMA StepAnchoring == TypeOK /\ TypeOK' /\ Shape /\ Numbered /\ Sound /\ Anchoring /\ [Next]_vars => Anchoring'
<1> SUFFICES ASSUME TypeOK, TypeOK', Shape, Numbered, Sound, Anchoring, [Next]_vars  PROVE  Anchoring'
  OBVIOUS
<1>0. Moved
  BY StepMoved
<1>1. CASE Tick \/ UNCHANGED vars
  <2>1. UNCHANGED <<offset, counted, anchors, proc>>
    BY <1>1 DEF Tick, vars, ghosts
  <2> QED  BY <1>0, <2>1, AnchoringStep
<1>2. CASE \E p \in Procs, s \in Sessions, k \in Kinds : Begin(p, s, k)
  BY <1>0, <1>2, BeginAnchoring
<1>3. CASE \E p \in Procs : Fix(p)
  BY <1>0, <1>3, GoneAnchoring DEF Fix, Goto
<1>4. CASE \E p \in Procs : Write(p) \/ RemoveSegment(p)
  BY <1>0, <1>4, WriteAnchoring, RemoveAnchoring
<1>5. CASE \E p \in Procs, survives \in BOOLEAN : WriteTorn(p, survives)
  <2>1. PICK p \in Procs, survives \in BOOLEAN : WriteTorn(p, survives)
    BY <1>5
  <2>2. PICK stage \in {"idle", "load", "write"} : proc' = [proc EXCEPT ![p] = GoneTo(p, stage)]
    BY <2>1, PassTyped DEF WriteTorn, Goto
  <2>3. UNCHANGED <<offset, counted, anchors>>
    BY <2>1 DEF WriteTorn
  <2> QED  BY <1>0, <2>2, <2>3, GoneAnchoring
<1>6. CASE \E p \in Procs : Load(p) \/ Read(p) \/ Decide(p)
  BY <1>0, <1>6, LoadAnchoring, ReadAnchoring, DecideAnchoring
<1>7. CASE \E p \in Procs : Derive(p) \/ StoreOffset(p)
  BY <1>0, <1>7, DeriveAnchoring, StoreAnchoring
<1>8. CASE \E p \in Procs : Stop(p)
  BY <1>0, <1>8, GoneAnchoring DEF Stop, Goto
<1> QED  BY <1>1, <1>2, <1>3, <1>4, <1>5, <1>6, <1>7, <1>8 DEF Next

\* The query family of a candidate is that of the last recall of its session in
\* front of the failure, whether the pass that recorded it had that recall in
\* its batch or looked for it in front of its offset (derive.go:287).
THEOREM OfTheLastRecall == Spec => []AnchoredToLastRecall
<1> DEFINE Inv == TypeOK /\ Shape /\ Numbered /\ Sound /\ Anchoring
<1>1. Init => Inv
  BY Started, NumberedAtStart, SoundAtStart, AnchoringAtStart
<1>2. Inv /\ [Next]_vars => Inv'
  BY StepTyped, StepNumbered, StepSound, StepAnchoring
<1>3. Inv => AnchoredToLastRecall
  <2>1. Anchoring => \A a \in anchors : Tied(a, OnTime, entries)
    BY DEF Anchoring
  <2> QED  BY <2>1 DEF Tied, AnchoredToLastRecall, E
<1> QED  BY <1>1, <1>2, <1>3, PTL DEF Spec

-----------------------------------------------------------------------------
(***************************************************************************)
(* A correction that is on disk in time is counted.                        *)
(*                                                                         *)
(* A failure is open while nobody has decided about it: its window may     *)
(* still bring a correction, or a correction of it is on disk.  Behind the *)
(* offset nothing is open, since a pass stores one only after it decided   *)
(* about each failure in front of it: it counted the failure, it saw       *)
(* another invocation come first, or it began after the window and so      *)
(* misses no line written before.  A failure that was decided about does   *)
(* not open again: lines come up behind all that are there, with the clock *)
(* as it is, and cleanup takes no line without those in front of it.       *)
(***************************************************************************)
Open ==
  {f \in OnTime :
     /\ E(f.id).kind = "fail" /\ f.id \notin crossed /\ counted[f.id] = 0
     /\ \/ now <= E(f.id).ts + Window /\ \A y \in Lines : ~Retry(y, f)
        \/ \E s \in OnTime : CorrectedBy(f, s)}

\* o is at the start or at the end of a line, unless its segment was deleted
\* and holds nothing but late lines since.
Aligned(o, alive, held, rows) ==
  \/ o.byte = 0
  \/ o.byte \in 1..Len(held[o.day]) /\ held[o.day][o.byte] = NL
  \/ NewerIn(alive, o.day) /\ \A x \in rows : x.day # o.day

\* A cleaner deletes no segment in front of which it leaves one with lines.
Sweeping(m, rows) == \A d \in m.todo : \A x \in rows : x.day <= d => x.day \in m.todo

\* A pass up to its decision: nothing open is in front of where it began; what
\* it has not read was written since; and behind an entry of its batch all the
\* others are still there, as long as that one is.
Following(m, all, rows, open, at, t) ==
  /\ m.since <= t
  /\ \A f \in open : ~BehindAt(f, m.off)
  /\ \A x \in rows : BehindAt(x, m.next) \/ m.since <= at[x.id] \/ (m.pc = "read" /\ x.day \in m.todo)
  /\ \A f \in rows : \A i \in 1..Len(m.batch), k \in 1..Len(m.batch) :
       f.id = m.batch[i] /\ i < k => \E y \in all : y.id = m.batch[k]

\* And from then on: what is open in front of where it got, it will count.
Owing(m, open) == \A f \in open : BehindAt(f, m.next) => \E k \in 1..Len(m.pairs) : m.pairs[k].f = f.id

Owed(m, all, rows, open, at, t) ==
  /\ m.pc = "clean" => Sweeping(m, rows)
  /\ m.pc \in {"read", "decide"} => Following(m, all, rows, open, at, t)
  /\ m.pc \in {"derive", "store"} => Owing(m, open)
  /\ m.pc = "store" => m.pairs = <<>>

Between(m, alive, held, rows) ==
  InPassAt(m) => Aligned(m.off, alive, held, rows) /\ Aligned(m.next, alive, held, rows)

Accounted ==
  /\ \A i \in 1..Len(entries) : entries[i].ts <= now
  /\ \A x \in Lines : entries[x.id].ts <= wrote[x.id]
  /\ \A f \in Open : ~BehindAt(f, offset)
  /\ Aligned(offset, live, log, OnTime)
  /\ \A p \in Procs : Between(proc[p], live, log, OnTime) /\ Owed(proc[p], Lines, OnTime, Open, wrote, now)

-----------------------------------------------------------------------------
\* What a step does to the lines, for what is open and what is decided.
NewLines ==
  /\ \A x \in OnTime' : x \in OnTime \/ (~NewerIn(live, x.day) /\ \A y \in Lines : Before(y, x))
  /\ \A x \in Lines' : IF x \in Lines THEN wrote'[x.id] = wrote[x.id] ELSE wrote'[x.id] = now /\ now' = now
  /\ \A d \in Days : NewerIn(live, d) => NewerIn(live', d)
  /\ \A o \in Offset : Aligned(o, live, log, OnTime) => Aligned(o, live', log', OnTime')

LEMMA LinesParts ==
  /\ \A x : x \in Lines <=> \E d \in live : \E k \in LinesAfter(log[d], 0) : x = [id |-> log[d][k], day |-> d, at |-> k]
  /\ \A x : x \in Lines' <=>
       \E d \in live' : \E k \in LinesAfter(log'[d], 0) : x = [id |-> log'[d][k], day |-> d, at |-> k]
<1>1. \A x : x \in LinesOf(live, log) <=>
        \E d \in live : \E k \in LinesAfter(log[d], 0) : x = [id |-> log[d][k], day |-> d, at |-> k]
  BY LineParts
<1>2. \A x : x \in LinesOf(live', log') <=>
        \E d \in live' : \E k \in LinesAfter(log'[d], 0) : x = [id |-> log'[d][k], day |-> d, at |-> k]
  BY LineParts
<1> QED  BY <1>1, <1>2, LinesAre

LEMMA SameLines ==
  ASSUME TypeOK, TypeOK', live \subseteq live', UNCHANGED <<log, late>>
  PROVE  Lines' = Lines /\ OnTime' = OnTime
<1>1. ASSUME NEW x \in Lines'  PROVE  x \in Lines
  <2>2. PICK d \in live' : \E k \in LinesAfter(log[d], 0) : x = [id |-> log[d][k], day |-> d, at |-> k]
    BY LinesParts
  <2>3. d \in live
    <3>1. SUFFICES ASSUME d \notin live  PROVE  FALSE
      OBVIOUS
    <3>2. d \in Days /\ log[d] = <<>>
      BY <3>1 DEF TypeOK
    <3> QED  BY <2>2, <3>2, EmptySeq DEF LinesAfter
  <2> QED  BY <2>2, <2>3, LinesParts
<1>2. ASSUME NEW x \in Lines  PROVE  x \in Lines'
  <2>1. PICK d \in live : \E k \in LinesAfter(log[d], 0) : x = [id |-> log[d][k], day |-> d, at |-> k]
    BY LinesParts
  <2> QED  BY <2>1, LinesParts
<1>3. Lines' = Lines
  BY <1>1, <1>2
<1> QED  BY <1>3, OnTimeLines

\* Deleting a segment takes its lines and no others.
LEMMA LinesWithout ==
  ASSUME TypeOK, NEW d \in Days, live' = live \ {d}, log' = [log EXCEPT ![d] = <<>>], late' = late
  PROVE  /\ Lines' = {x \in Lines : x.day # d}
         /\ OnTime' = {x \in OnTime : x.day # d}
<1>1. ASSUME NEW x \in Lines'  PROVE  x \in Lines /\ x.day # d
  <2>1. \E e \in live' : \E k \in LinesAfter(log'[e], 0) : x = [id |-> log'[e][k], day |-> e, at |-> k]
    BY LinesParts, Zenon
  <2>2. PICK e \in live' : \E k \in LinesAfter(log'[e], 0) : x = [id |-> log'[e][k], day |-> e, at |-> k]
    BY <2>1
  <2>3. e \in live /\ log'[e] = log[e] /\ e # d
    BY DEF TypeOK
  <2>4. \E k \in LinesAfter(log[e], 0) : x = [id |-> log[e][k], day |-> e, at |-> k]
    BY <2>2, <2>3
  <2>5. x \in Lines
    BY <2>3, <2>4, LinesParts, Zenon
  <2> QED  BY <2>3, <2>4, <2>5
<1>2. ASSUME NEW x \in Lines, x.day # d  PROVE  x \in Lines'
  <2>1. \E e \in live : \E k \in LinesAfter(log[e], 0) : x = [id |-> log[e][k], day |-> e, at |-> k]
    BY LinesParts, Zenon
  <2>2. PICK e \in live : \E k \in LinesAfter(log[e], 0) : x = [id |-> log[e][k], day |-> e, at |-> k]
    BY <2>1
  <2>3. e # d
    BY <1>2, <2>2
  <2>4. e \in live' /\ log'[e] = log[e]
    BY <2>3 DEF TypeOK
  <2>5. \E k \in LinesAfter(log'[e], 0) : x = [id |-> log'[e][k], day |-> e, at |-> k]
    BY <2>2, <2>4
  <2> QED  BY <2>4, <2>5, LinesParts, Zenon
<1>3. Lines' = {x \in Lines : x.day # d}
  BY <1>1, <1>2
<1> QED  BY <1>3, OnTimeLines

\* An append takes no line, and adds lines written now, behind those of its day
\* and late unless the segment is the newest.
LEMMA LinesWith ==
  ASSUME TypeOK, TypeOK', PlacedOnce(log'), NEW d \in live, NEW piece \in Seq(0..Torn), AppendTo(d, piece), live' = live
  PROVE  /\ Lines \subseteq Lines'
         /\ \A x \in Lines : wrote'[x.id] = wrote[x.id]
         /\ \A x \in Lines' : x \in Lines \/
              /\ wrote'[x.id] = now /\ x.day = d /\ x.at >= Len(log[d])
              /\ NewerIn(live, d) => x.id \in late'
<1> DEFINE data  == log[d] \o piece
           fresh == {data[i] : i \in LinesAfter(data, 0) \ LinesAfter(log[d], 0)}
<1>1. /\ log' = [log EXCEPT ![d] = data] /\ late' = IF NewerIn(live, d) THEN late \cup fresh ELSE late
      /\ wrote' = [i \in Ids |-> IF i \in fresh THEN now ELSE wrote[i]]
  BY DEF AppendTo, NewerIn
<1>2. d \in Days /\ log[d] \in Seq(0..Torn) /\ Len(log[d]) \in Nat /\ log'[d] = data
  BY <1>1, LenProperties DEF TypeOK
<1>3. data \in Seq(0..Torn) /\ Len(data) \in Nat /\ Len(log[d]) <= Len(data)
      /\ \A i \in 1..Len(log[d]) : data[i] = log[d][i]
  BY <1>2, ConcatProperties, LenProperties
<1>4. ASSUME NEW x \in Lines  PROVE  x \in Lines' /\ x.id \notin fresh /\ x.id \in Ids
  <2>1. /\ x.day \in live /\ x.day \in Days /\ x.at \in Nat \ {0} /\ x.id \in Ids
        /\ x.id = log[x.day][x.at] /\ x.at \in LinesAfter(log[x.day], 0)
        /\ x.at \in 1..Len(log[x.day]) /\ x.at < Len(log[x.day]) /\ Len(log[x.day]) \in Nat
        /\ x = [id |-> x.id, day |-> x.day, at |-> x.at]
    BY LineTyped
  <2>2. /\ x.at \in LinesAfter(log'[x.day], 0) /\ log'[x.day][x.at] = x.id /\ x.at \in 1..Len(log'[x.day])
    <3>1. CASE x.day = d
      <4>1. x.at \in 0 + 1 .. Len(log[d]) - 1 /\ log[d][x.at + 1] = NL /\ (x.at = 0 + 1 \/ log[d][x.at - 1] = NL)
        BY <2>1, <3>1 DEF LinesAfter
      <4>2. x.at \in 0 + 1 .. Len(data) - 1 /\ x.at + 1 \in 1..Len(log[d])
            /\ (x.at = 0 + 1 \/ x.at - 1 \in 1..Len(log[d])) /\ x.at \in 1..Len(data)
        BY <1>2, <1>3, <2>1, <3>1, <4>1
      <4>3. data[x.at] = x.id /\ data[x.at + 1] = NL /\ (x.at = 0 + 1 \/ data[x.at - 1] = NL)
        BY <1>3, <2>1, <3>1, <4>1, <4>2
      <4> HIDE DEF data
      <4> QED  BY <1>2, <2>1, <3>1, <4>2, <4>3 DEF LinesAfter
    <3>2. CASE x.day # d
      <4>1. log'[x.day] = log[x.day]
        BY <1>1, <2>1, <3>2 DEF TypeOK
      <4> QED  BY <2>1, <4>1
    <3> QED  BY <3>1, <3>2
  <2>3. x \in Lines'
    <3>1. x.day \in live' /\ x = [id |-> log'[x.day][x.at], day |-> x.day, at |-> x.at]
      BY <2>1, <2>2
    <3> QED  BY <2>2, <3>1, LinesParts, Zenon
  <2>4. ASSUME NEW i \in LinesAfter(data, 0) \ LinesAfter(log[d], 0), x.id = data[i]  PROVE  FALSE
    <3>1. i \in 1..Len(data)
      BY <1>3 DEF LinesAfter
    <3> HIDE DEF data
    <3>2. x.day = d /\ x.at = i
      BY <1>2, <2>1, <2>2, <2>4, <3>1 DEF PlacedOnce
    <3> QED  BY <2>1, <2>4, <3>2
  <2> QED  BY <2>1, <2>3, <2>4
<1>5. ASSUME NEW x \in Lines', x \notin Lines
      PROVE  x.id \in fresh /\ x.day = d /\ x.at >= Len(log[d]) /\ x.id \in Ids
  <2>1. \E e \in live' : \E k \in LinesAfter(log'[e], 0) : x = [id |-> log'[e][k], day |-> e, at |-> k]
    BY LinesParts, Zenon
  <2>2. PICK e \in live : \E k \in LinesAfter(log'[e], 0) : x = [id |-> log'[e][k], day |-> e, at |-> k]
    BY <2>1
  <2>3. PICK k \in LinesAfter(log'[e], 0) : x = [id |-> log'[e][k], day |-> e, at |-> k]
    BY <2>2
  <2>4. e = d
    <3>1. SUFFICES ASSUME e # d  PROVE  FALSE
      OBVIOUS
    <3>2. log'[e] = log[e]
      BY <1>1, <3>1 DEF TypeOK
    <3>3. k \in LinesAfter(log[e], 0) /\ x = [id |-> log[e][k], day |-> e, at |-> k]
      BY <2>3, <3>2
    <3>4. x \in Lines
      BY <3>3, LinesParts, Zenon
    <3> QED  BY <1>5, <3>4
  <2>5. k \in LinesAfter(data, 0) /\ x.id = data[k] /\ x.day = d /\ x.at = k
    BY <1>2, <2>3, <2>4
  <2>6. /\ data[k] \in Ids
        /\ k \in LinesAfter(log[d], 0) => data[k] = log[d][k]
        /\ k \notin LinesAfter(log[d], 0) => k >= Len(log[d])
    <3>1. piece \in Seq(0..Torn) /\ log[d] \in Seq(0..Torn) /\ k \in LinesAfter(log[d] \o piece, 0)
      BY <1>2, <2>5
    <3> QED  BY ONLY <3>1, LinesAppended
  <2>7. k \notin LinesAfter(log[d], 0)
    <3>1. SUFFICES ASSUME k \in LinesAfter(log[d], 0)  PROVE  FALSE
      OBVIOUS
    <3>2. x = [id |-> log[d][k], day |-> d, at |-> k]
      BY <1>2, <2>3, <2>4, <2>6, <3>1
    <3>3. x \in Lines
      BY <3>1, <3>2, LinesParts, Zenon
    <3> QED  BY <1>5, <3>3
  <2> QED  BY <2>5, <2>6, <2>7
<1> HIDE DEF fresh, data
<1>6. \A x \in Lines : wrote'[x.id] = wrote[x.id]
  BY <1>1, <1>4
<1>7. \A x \in Lines' : x \in Lines \/
              /\ wrote'[x.id] = now /\ x.day = d /\ x.at >= Len(log[d])
              /\ NewerIn(live, d) => x.id \in late'
  BY <1>1, <1>5
<1> QED  BY <1>4, <1>6, <1>7

LEMMA StepNewLines ==
  ASSUME TypeOK, TypeOK', FileStep, PlacedOnce(log')
  PROVE  NewLines
<1>0. live \subseteq Nat /\ live' \subseteq Nat /\ Days \subseteq Nat /\ late \subseteq late'
  BY Constants, FileMoves DEF TypeOK
<1>1. ASSUME live \subseteq live', UNCHANGED <<log, late, wrote>>  PROVE  NewLines
  <2>1. Lines' = Lines /\ OnTime' = OnTime
    BY <1>1, SameLines
  <2>2. \A d \in Days : NewerIn(live, d) => NewerIn(live', d)
    BY <1>1 DEF NewerIn
  <2>3. \A o \in Offset : Aligned(o, live, log, OnTime) => Aligned(o, live', log', OnTime')
    BY <1>1, <2>1, <2>2 DEF Aligned, Offset
  <2> QED  BY <1>1, <2>1, <2>2, <2>3 DEF NewLines
<1>2. ASSUME NEW d \in Days, NewerIn(live, d), live' = live \ {d}, log' = [log EXCEPT ![d] = <<>>], UNCHANGED <<late, wrote>>
      PROVE  NewLines
  <2>1. Lines' = {x \in Lines : x.day # d} /\ OnTime' = {x \in OnTime : x.day # d}
    BY <1>2, LinesWithout
  <2>2. PICK f \in live : f > d
    BY <1>2 DEF NewerIn
  <2>3. ASSUME NEW e \in Days, NewerIn(live, e)  PROVE  NewerIn(live', e)
    <3>1. PICK g \in live : g > e
      BY <2>3 DEF NewerIn
    <3>2. CASE g = d
      <4>1. f \in live' /\ f > e
        <5>1. f \in Nat /\ d \in Nat /\ e \in Nat
          BY <1>0, <2>2
        <5> QED  BY <1>2, <2>2, <3>1, <3>2, <5>1
      <4> QED  BY <4>1 DEF NewerIn
    <3>3. CASE g # d
      BY <1>2, <3>1, <3>3 DEF NewerIn
    <3> QED  BY <3>2, <3>3
  <2>4. ASSUME NEW o \in Offset, Aligned(o, live, log, OnTime)  PROVE  Aligned(o, live', log', OnTime')
    <3>1. o.day \in Days
      BY DEF Offset
    <3>2. CASE o.day = d
      BY <1>2, <2>1, <2>3, <3>2 DEF Aligned
    <3>3. CASE o.day # d
      <4>1. log'[o.day] = log[o.day]
        BY <1>2, <3>1, <3>3 DEF TypeOK
      <4> QED  BY <2>1, <2>3, <2>4, <3>1, <4>1 DEF Aligned
    <3> QED  BY <3>2, <3>3
  <2> QED  BY <1>2, <2>1, <2>3, <2>4 DEF NewLines
<1>3. ASSUME NEW d \in live, NEW piece \in Seq(0..Torn), AppendTo(d, piece), live' = live, now' = now
      PROVE  NewLines
  <2>1. /\ Lines \subseteq Lines'
        /\ \A x \in Lines : wrote'[x.id] = wrote[x.id]
        /\ \A x \in Lines' : x \in Lines \/
              /\ wrote'[x.id] = now /\ x.day = d /\ x.at >= Len(log[d])
              /\ NewerIn(live, d) => x.id \in late'
    BY <1>3, LinesWith
  <2>2. ASSUME NEW x \in OnTime', x \notin OnTime
        PROVE  ~NewerIn(live, x.day) /\ \A y \in Lines : Before(y, x)
    <3>1. x \in Lines' /\ x \notin Lines /\ x.id \notin late'
      BY <1>0, <2>2, OnTimeLines
    <3>2. x.day = d /\ ~NewerIn(live, d) /\ x.at >= Len(log[d])
      BY <2>1, <3>1
    <3>3. x.at \in Nat /\ d \in Nat
      <4>1. live' \in SUBSET Days /\ log' \in [Days -> Seq(0..Torn)] /\ x \in LinesOf(live', log')
        BY <3>1, LinesAre DEF TypeOK
      <4> QED  BY <1>0, <4>1, LineIn
    <3>4. ASSUME NEW y \in Lines  PROVE  Before(y, x)
      <4>1. y.day \in live /\ y.day \in Nat /\ y.at \in Nat /\ y.at < Len(log[y.day]) /\ Len(log[y.day]) \in Nat
        BY LineTyped
      <4>2. ~(y.day > d)
        BY <3>2, <4>1 DEF NewerIn
      <4> QED  BY <3>2, <3>3, <4>1, <4>2 DEF Before
    <3> QED  BY <3>2, <3>4
  <2>3. ASSUME NEW o \in Offset, Aligned(o, live, log, OnTime)  PROVE  Aligned(o, live', log', OnTime')
    <3>1. /\ \A e \in Days : \A k \in 1..Len(log[e]) : k \in 1..Len(log'[e]) /\ log'[e][k] = log[e][k]
      <4>1. log' = [log EXCEPT ![d] = @ \o piece] /\ d \in Days /\ log[d] \in Seq(0..Torn)
        BY <1>3, AppendTyped DEF TypeOK
      <4>2. log'[d] = log[d] \o piece /\ \A e \in Days : e # d => log'[e] = log[e]
        BY <4>1 DEF TypeOK
      <4>3. \A k \in 1..Len(log[d]) : k \in 1..Len(log'[d]) /\ log'[d][k] = log[d][k]
        BY <4>1, <4>2, ConcatProperties, LenProperties
      <4> QED  BY <4>2, <4>3
    <3>2. o.day \in Days
      BY DEF Offset
    <3>3. NewerIn(live, o.day) /\ (\A x \in OnTime : x.day # o.day) => \A x \in OnTime' : x.day # o.day
      BY <2>2
    <3> QED  BY <1>3, <2>3, <3>1, <3>2, <3>3 DEF Aligned
  <2> QED  BY <1>3, <2>1, <2>2, <2>3 DEF NewLines
<1> QED  BY <1>1, <1>2, <1>3 DEF FileStep

LEMMA LineEntry ==
  ASSUME TypeOK, Numbered, NEW x \in Lines
  PROVE  /\ x.id \in 1..Len(entries) /\ x.id \in Ids /\ E(x.id) \in Entry /\ E(x.id).ts \in Nat
         /\ wrote[x.id] \in Nat /\ counted[x.id] \in Nat
<1>1. x.id \in Ids /\ x.id = log[x.day][x.at] /\ x.day \in Days /\ x.at \in 1..Len(log[x.day])
  BY LineTyped
<1>2. ~(x.id > Len(entries))
  BY <1>1 DEF Numbered, Unwritten
<1>3. Len(entries) \in Nat /\ x.id \in Nat \ {0}
  BY <1>1, LenProperties, Constants DEF TypeOK, Ids
<1>4. x.id \in 1..Len(entries)
  BY <1>2, <1>3
<1>5. E(x.id) \in Entry
  BY <1>4 DEF TypeOK, E
<1>6. E(x.id).ts \in Nat
  BY <1>5, Constants DEF Entry
<1>7. wrote[x.id] \in Nat /\ counted[x.id] \in Nat
  <2>1. wrote[x.id] \in 0..(MaxNow + 1) /\ counted[x.id] \in Nat
    BY <1>1 DEF TypeOK
  <2> QED  BY <2>1
<1> QED  BY <1>1, <1>4, <1>5, <1>6, <1>7

\* Only cleanup takes lines.
LEMMA LinesStay ==
  ASSUME TypeOK, TypeOK', FileStep, PlacedOnce(log'), live \subseteq live'
  PROVE  Lines \subseteq Lines'
<1>1. CASE UNCHANGED <<live, log, late, wrote>> \/ UNCHANGED <<log, late, wrote>>
  BY <1>1, SameLines
<1>2. CASE \E d \in Days : NewerIn(live, d) /\ live' = live \ {d} /\ log' = [log EXCEPT ![d] = <<>>] /\ UNCHANGED <<late, wrote>>
  <2>1. PICK d \in Days : live' = live \ {d} /\ log' = [log EXCEPT ![d] = <<>>] /\ late' = late
    BY <1>2
  <2>2. d \notin live
    BY <2>1
  <2>3. \A x \in Lines : x.day \in live
    BY LineTyped
  <2> QED  BY <2>1, <2>2, <2>3, LinesWithout
<1>3. CASE \E d \in live, piece \in Seq(0..Torn) : AppendTo(d, piece) /\ live' = live /\ now' = now
  BY <1>3, LinesWith
<1> QED  BY <1>1, <1>2, <1>3 DEF FileStep

\* And it takes those in front first.
LEMMA StepLasting ==
  ASSUME TypeOK, TypeOK', Shape, Numbered, Numbered', Accounted, [Next]_vars,
         NEW f \in OnTime', NEW y \in Lines, f \in OnTime, Before(f, y)
  PROVE  y \in Lines'
<1>1. CASE \E p \in Procs : RemoveSegment(p)
  <2>1. PICK p \in Procs : RemoveSegment(p)
    BY <1>1
  <2>2. PICK d \in proc[p].todo :
           /\ d \in Days /\ NewerIn(live, d) /\ live' = live \ {d} /\ log' = [log EXCEPT ![d] = <<>>]
           /\ At(p, "clean") /\ \A e \in proc[p].todo : d <= e /\ e \in Days
           /\ UNCHANGED <<now, entries, offset, counted, faults, ghosts>>
    BY <2>1, Removal
  <2>3. Lines' = {x \in Lines : x.day # d} /\ OnTime' = {x \in OnTime : x.day # d}
    BY <2>2, LinesWithout DEF ghosts
  <2>4. SUFFICES ASSUME y.day = d  PROVE  FALSE
    BY <2>3
  <2>5. f.day # d /\ f \in Lines
    BY <2>3, OnTimeLines
  <2>6. f.day \in Nat /\ y.day \in Nat
    BY <2>5, LineTyped
  <2>7. f.day <= d
    BY <2>4, <2>5, <2>6 DEF Before
  <2>8. f.day \in proc[p].todo
    BY <2>2, <2>7 DEF Accounted, Owed, Sweeping, At
  <2> QED  BY <2>2, <2>4, <2>5, <2>6, <2>7, <2>8
<1>2. CASE live \subseteq live'
  BY <1>2, StepFiles, LinesStay DEF Numbered
<1>3. live \subseteq live' \/ \E p \in Procs : RemoveSegment(p)
  BY DEF Next, vars, files, Tick, Begin, Fix, Write, WriteTorn, Load, Read, Decide, Derive, StoreOffset, Stop
<1> QED  BY <1>1, <1>2, <1>3

Carried ==
  /\ Moved /\ NewLines
  /\ now <= now' /\ crossed \subseteq crossed' /\ \A i \in Ids : counted[i] <= counted'[i]
  /\ \A f \in OnTime', y \in Lines : f \in OnTime /\ Before(f, y) => y \in Lines'

LEMMA StepCarried ==
  ASSUME TypeOK, TypeOK', Shape, Numbered, Numbered', Accounted, [Next]_vars
  PROVE  Carried
<1>1. Moved
  BY StepMoved
<1>2. NewLines
  BY StepFiles, StepNewLines DEF Numbered
<1>3. now <= now'
  <2>1. now \in Int
    BY Constants DEF TypeOK
  <2>2. now' = now \/ now' = now + 1
    BY DEF Next, vars, Tick, Begin, Fix, Write, WriteTorn, RemoveSegment, Load, Read, Decide, Derive, StoreOffset, Stop
  <2> QED  BY <2>1, <2>2
<1>4. crossed \subseteq crossed'
  <2>1. CASE crossed' = crossed
    BY <2>1
  <2>2. CASE \E p \in Procs : Decide(p)
    BY <2>2 DEF Decide
  <2>3. crossed' = crossed \/ \E p \in Procs : Decide(p)
    BY DEF Next, vars, ghosts, Tick, Begin, Fix, Write, WriteTorn, RemoveSegment, Load, Read, Derive, StoreOffset, Stop
  <2> QED  BY <2>1, <2>2, <2>3
<1>5. \A i \in Ids : counted[i] <= counted'[i]
  <2>1. \A i \in Ids : counted[i] \in Nat
    BY DEF TypeOK
  <2>2. CASE counted' = counted
    BY <2>1, <2>2
  <2>3. CASE \E p \in Procs : Derive(p)
    <3>1. PICK p \in Procs : Derive(p)
      BY <2>3
    <3>2. PICK f \in Ids : counted' = [counted EXCEPT ![f] = @ + 1]
      BY <3>1, Deriving
    <3> QED  BY <2>1, <3>2 DEF TypeOK
  <2>4. counted' = counted \/ \E p \in Procs : Derive(p)
    BY DEF Next, vars, Tick, Begin, Fix, Write, WriteTorn, RemoveSegment, Load, Read, Decide, StoreOffset, Stop
  <2> QED  BY <2>2, <2>3, <2>4
<1>6. \A f \in OnTime', y \in Lines : f \in OnTime /\ Before(f, y) => y \in Lines'
  BY StepLasting
<1> QED  BY <1>1, <1>2, <1>3, <1>4, <1>5, <1>6 DEF Carried

\* What was decided about does not open again.
LEMMA OpenKept ==
  ASSUME TypeOK, TypeOK', Numbered, Carried, NEW f \in Open', f \in OnTime
  PROVE  f \in Open
<1>1. f \in Lines /\ f \in OnTime'
  BY OnTimeLines DEF Open
<1>2. /\ f.id \in Ids /\ E(f.id).ts \in Nat /\ counted[f.id] \in Nat
  BY <1>1, LineEntry
<1>3. entries'[f.id] = entries[f.id] /\ \A y \in Lines : entries'[y.id] = entries[y.id]
  BY <1>1 DEF Carried, Moved
<1>4. /\ entries'[f.id].kind = "fail" /\ f.id \notin crossed' /\ counted'[f.id] = 0
      /\ \/ now' <= entries'[f.id].ts + Window /\ \A y \in Lines' : ~Retry(y, f)'
         \/ \E s \in OnTime' : CorrectedBy(f, s)'
  BY DEF Open, E
<1>5. E(f.id).kind = "fail" /\ f.id \notin crossed /\ counted[f.id] = 0
  BY <1>2, <1>3, <1>4 DEF Carried, E
<1>6. ASSUME NEW y \in Lines, Retry(y, f)  PROVE  y \in Lines' /\ Retry(y, f)'
  <2>1. y \in Lines'
    BY <1>1, <1>6 DEF Carried, Retry
  <2> QED  BY <1>3, <1>6, <2>1 DEF Retry, E, Before
<1>7. now \in Nat /\ now' \in Nat /\ now <= now' /\ Window \in Nat
  BY Constants DEF TypeOK, Carried
<1>8. CASE now' <= entries'[f.id].ts + Window /\ \A y \in Lines' : ~Retry(y, f)'
  <2>1. now <= E(f.id).ts + Window
    BY <1>2, <1>3, <1>7, <1>8 DEF E
  <2> QED  BY <1>5, <1>6, <1>8, <2>1 DEF Open
<1>9. CASE \E s \in OnTime' : CorrectedBy(f, s)'
  <2>1. PICK s \in OnTime' : CorrectedBy(f, s)'
    BY <1>9
  <2>2. /\ entries'[s.id].kind = "fixed" /\ Retry(s, f)' /\ entries'[f.id].ts <= entries'[s.id].ts
        /\ wrote'[s.id] <= entries'[f.id].ts + Window /\ \A m \in Lines' : Retry(m, f)' => ~Before(m, s)
    BY <2>1 DEF CorrectedBy, E, Before
  <2>3. s \in Lines' /\ s.id \notin late'
    BY OnTimeLines
  <2>4. CASE s \in OnTime
    <3>1. s \in Lines
      BY <2>4, OnTimeLines
    <3>2. wrote'[s.id] = wrote[s.id] /\ entries'[s.id] = entries[s.id]
      BY <1>3, <2>3, <3>1 DEF Carried, NewLines
    <3>3. Retry(s, f)
      BY <1>3, <2>2, <3>2 DEF Retry, E, Before
    <3>4. \A m \in Lines : Retry(m, f) => ~Before(m, s)
      BY <1>6, <2>2
    <3>5. CorrectedBy(f, s)
      BY <1>3, <1>5, <2>2, <3>2, <3>3, <3>4 DEF CorrectedBy, E
    <3> QED  BY <1>5, <2>4, <3>5 DEF Open
  <2>5. CASE s \notin OnTime
    <3>1. s \notin Lines
      BY <2>3, <2>5, OnTimeLines DEF Carried, Moved
    <3>2. wrote'[s.id] = now /\ \A y \in Lines : Before(y, s)
      BY <2>3, <2>5, <3>1 DEF Carried, NewLines
    <3>3. \A y \in Lines : ~Retry(y, f)
      BY <1>6, <2>2, <3>2
    <3>4. now <= E(f.id).ts + Window
      BY <1>3, <2>2, <3>2 DEF E
    <3> QED  BY <1>5, <3>3, <3>4 DEF Open
  <2> QED  BY <2>4, <2>5
<1> QED  BY <1>4, <1>8, <1>9

LEMMA LineEntryNext ==
  ASSUME TypeOK', Numbered', NEW x \in Lines'
  PROVE  x.id \in 1..Len(entries')
<1>1. live' \in SUBSET Days /\ log' \in [Days -> Seq(0..Torn)] /\ x \in LinesOf(live', log')
  BY LinesAre DEF TypeOK
<1>2. x.id \in Ids /\ x.id = log'[x.day][x.at] /\ x.day \in Days /\ x.at \in 1..Len(log'[x.day])
  BY <1>1, LineIn
<1>3. ~(x.id > Len(entries'))
  BY <1>2 DEF Numbered, Unwritten
<1>4. Len(entries') \in Nat /\ x.id \in Nat \ {0}
  BY <1>2, LenProperties, Constants DEF TypeOK, Ids
<1> QED  BY <1>3, <1>4

\* A process that a step leaves alone.
LEMMA BetweenKept ==
  ASSUME TypeOK, Carried, NEW q \in Procs, Between(proc[q], live, log, OnTime)
  PROVE  Between(proc[q], live', log', OnTime')
BY DEF TypeOK, Process, Between, Carried, NewLines

LEMMA SweepingKept ==
  ASSUME TypeOK, TypeOK', Carried, NEW m \in Process, Sweeping(m, OnTime), \A d \in m.todo : NewerIn(live, d)
  PROVE  Sweeping(m, OnTime')
<1> SUFFICES ASSUME NEW d \in m.todo, NEW x \in OnTime', x.day <= d  PROVE  x.day \in m.todo
  BY DEF Sweeping
<1>1. CASE x \in OnTime
  BY <1>1 DEF Sweeping
<1>2. CASE x \notin OnTime
  <2>1. ~NewerIn(live, x.day)
    BY <1>2 DEF Carried, NewLines
  <2>2. PICK e \in live : e > d
    BY DEF NewerIn
  <2>3. d \in Nat /\ e \in Nat /\ x.day \in Nat
    <3>1. live' \in SUBSET Days /\ log' \in [Days -> Seq(0..Torn)]
      BY DEF TypeOK
    <3>2. x \in LinesOf(live', log')
      BY LinesAre
    <3>3. x.day \in Nat
      BY <3>1, <3>2, LineIn
    <3> QED  BY <3>3, Constants DEF TypeOK, Process
  <2> QED  BY <2>1, <2>2, <2>3 DEF NewerIn
<1> QED  BY <1>1, <1>2

LEMMA FollowingKept ==
  ASSUME TypeOK, TypeOK', Numbered, Carried, NEW m \in Process, Settled(m.off, live, log), Settled(m.next, live, log),
         \A i \in Range(m.batch) : IsRead(i), Gathered(m, Lines, OnTime),
         Following(m, Lines, OnTime, Open, wrote, now)
  PROVE  Following(m, Lines', OnTime', Open', wrote', now')
<1>1. m.off \in Offset /\ m.next \in Offset /\ m.batch \in Seq(Ids) /\ m.since \in Int /\ now \in Int /\ now' \in Int
  BY Constants DEF Process, TypeOK
<1>2. m.since <= now /\ m.since <= now'
  BY <1>1 DEF Following, Carried
<1>3. ASSUME NEW f \in Open', BehindAt(f, m.off)  PROVE  FALSE
  <2>1. f \in OnTime
    BY <1>1, <1>3 DEF Open, Carried, Moved, FilesKept
  <2>2. f \in Open
    BY <2>1, OpenKept
  <2> QED  BY <1>3, <2>2 DEF Following
<1>4. ASSUME NEW x \in OnTime', ~BehindAt(x, m.next), ~(m.since <= wrote'[x.id])  PROVE  m.pc = "read" /\ x.day \in m.todo
  <2>1. x \in Lines' /\ x.id \notin late'
    BY OnTimeLines
  <2>2. x \in Lines
    BY <1>2, <1>4, <2>1 DEF Carried, NewLines
  <2>3. wrote'[x.id] = wrote[x.id]
    BY <2>1, <2>2 DEF Carried, NewLines
  <2>4. x \in OnTime
    BY <2>1, <2>2, OnTimeLines DEF Carried, Moved
  <2> QED  BY <1>4, <2>3, <2>4 DEF Following
<1>5. ASSUME NEW f \in OnTime', NEW i \in 1..Len(m.batch), NEW k \in 1..Len(m.batch), f.id = m.batch[i], i < k
      PROVE  \E y \in Lines' : y.id = m.batch[k]
  <2>1. f.id \in Range(m.batch)
    BY <1>1, <1>5 DEF Range
  <2>2. f \in Lines' /\ f.id \notin late'
    BY OnTimeLines
  <2>3. f \in Lines
    BY <2>1, <2>2 DEF Carried, Moved
  <2>4. f \in OnTime
    BY <2>2, <2>3, OnTimeLines DEF Carried, Moved
  <2>5. PICK y \in Lines : y.id = m.batch[k]
    BY <1>5, <2>4 DEF Following
  <2>6. Before(f, y)
    BY <1>5, <2>3, <2>5 DEF Gathered
  <2> QED  BY <2>4, <2>5, <2>6 DEF Carried
<1> QED  BY <1>2, <1>3, <1>4, <1>5 DEF Following

LEMMA OwingKept ==
  ASSUME TypeOK, TypeOK', Numbered, Carried, NEW m, m.next \in Offset, Settled(m.next, live, log), Owing(m, Open)
  PROVE  Owing(m, Open')
<1> SUFFICES ASSUME NEW f \in Open', BehindAt(f, m.next)  PROVE  \E k \in 1..Len(m.pairs) : m.pairs[k].f = f.id
  BY DEF Owing
<1>1. f \in OnTime
  BY DEF Open, Carried, Moved, FilesKept
<1>2. f \in Open
  BY <1>1, OpenKept
<1> QED  BY <1>2 DEF Owing

LEMMA OwedKept ==
  ASSUME TypeOK, TypeOK', Shape, Numbered, Sound, Anchoring, Carried, NEW q \in Procs,
         Owed(proc[q], Lines, OnTime, Open, wrote, now)
  PROVE  Owed(proc[q], Lines', OnTime', Open', wrote', now')
<1>1. proc[q] \in Process /\ proc[q].next \in Offset
  BY DEF TypeOK, Process
<1>2. proc[q].pc = "clean" => \A d \in proc[q].todo : NewerIn(live, d)
  BY DEF Shape, Fit
<1>3. InPassAt(proc[q]) => Settled(proc[q].off, live, log) /\ Settled(proc[q].next, live, log)
  BY DEF Sound, Safe, InPassAt
<1>4. \A i \in Range(proc[q].batch) : IsRead(i)
  BY PairsRead DEF Anchoring
<1>5. proc[q].pc \in {"read", "decide"} => Gathered(proc[q], Lines, OnTime)
  BY DEF Anchoring, Placed
<1>6. proc[q].pc = "clean" => Sweeping(proc[q], OnTime')
  BY <1>1, <1>2, SweepingKept DEF Owed
<1>7. proc[q].pc \in {"read", "decide"} => Following(proc[q], Lines', OnTime', Open', wrote', now')
  BY <1>1, <1>3, <1>4, <1>5, FollowingKept DEF Owed, InPassAt
<1>8. proc[q].pc \in {"derive", "store"} => Owing(proc[q], Open')
  BY <1>1, <1>3, OwingKept DEF Owed, InPassAt
<1> QED  BY <1>6, <1>7, <1>8 DEF Owed

\* The clock and the entries.
LEMMA StampsKept ==
  ASSUME TypeOK, TypeOK', Numbered, Numbered', Accounted, Carried, [Next]_vars
  PROVE  /\ \A i \in 1..Len(entries') : entries'[i].ts <= now'
         /\ \A x \in Lines' : entries'[x.id].ts <= wrote'[x.id]
<1>1. now \in Nat /\ now' \in Nat /\ now <= now'
  BY Constants DEF TypeOK, Carried
<1>2. \A i \in 1..Len(entries) : entries[i] \in Entry /\ entries[i].ts \in Nat
  <2>1. \A i \in 1..Len(entries) : entries[i] \in Entry
    BY DEF TypeOK
  <2>2. \A e \in Entry : e.ts \in Nat
    BY Constants DEF Entry
  <2> QED  BY <2>1, <2>2
<1>3. ASSUME NEW i \in 1..Len(entries')
      PROVE  entries'[i].ts <= now' /\ (now' = now => entries'[i].ts <= now)
  <2>1. CASE entries' = entries
    <3>1. entries[i].ts <= now /\ entries[i].ts \in Nat
      BY <1>2, <1>3, <2>1 DEF Accounted
    <3> QED  BY <1>1, <2>1, <3>1
  <2>2. CASE \E p \in Procs, s \in Sessions, k \in Kinds : Begin(p, s, k)
    <3>1. PICK s \in Sessions, k \in Kinds :
            entries' = Append(entries, [session |-> s, kind |-> k, ts |-> now]) /\ now' = now
      BY <2>2 DEF Begin
    <3> DEFINE new == [session |-> s, kind |-> k, ts |-> now]
    <3>2. entries \in Seq(Entry) /\ new \in Entry /\ new.ts = now
      BY DEF TypeOK, Entry
    <3>3. entries' = Append(entries, new)
      BY <3>1
    <3> HIDE DEF new
    <3>4. /\ Len(entries) \in Nat /\ Len(entries') = Len(entries) + 1 /\ entries'[Len(entries) + 1] = new
          /\ \A j \in 1..Len(entries) : entries'[j] = entries[j]
      BY <3>2, <3>3, AppendProperties, LenProperties
    <3>5. CASE i = Len(entries) + 1
      BY <1>1, <3>1, <3>2, <3>4, <3>5
    <3>6. CASE i # Len(entries) + 1
      <4>1. i \in 1..Len(entries)
        BY <1>3, <3>4, <3>6
      <4> QED  BY <3>1, <3>4, <4>1 DEF Accounted
    <3> QED  BY <3>5, <3>6
  <2>3. entries' = entries \/ \E p \in Procs, s \in Sessions, k \in Kinds : Begin(p, s, k)
    BY DEF Next, vars, Tick, Fix, Write, WriteTorn, RemoveSegment, Load, Read, Decide, Derive, StoreOffset, Stop
  <2> QED  BY <2>1, <2>2, <2>3
<1>4. ASSUME NEW x \in Lines'  PROVE  entries'[x.id].ts <= wrote'[x.id]
  <2>1. CASE x \in Lines
    BY <1>4, <2>1 DEF Accounted, Carried, NewLines, Moved
  <2>2. CASE x \notin Lines
    <3>1. wrote'[x.id] = now /\ now' = now
      BY <1>4, <2>2 DEF Carried, NewLines
    <3>2. x.id \in 1..Len(entries')
      BY <1>4, LineEntryNext
    <3> QED  BY <1>3, <3>1, <3>2
  <2> QED  BY <2>1, <2>2
<1> QED  BY <1>3, <1>4

\* A step that leaves the offset alone.
LEMMA AccountedStep ==
  ASSUME TypeOK, TypeOK', Shape, Numbered, Numbered', Sound, Anchoring, Accounted, Carried, [Next]_vars, UNCHANGED offset,
         \A q \in Procs : \/ proc'[q] = proc[q]
                          \/ proc'[q].pc \in {"idle", "fix", "write", "load"}
                          \/ /\ Between(proc'[q], live', log', OnTime')
                             /\ Owed(proc'[q], Lines', OnTime', Open', wrote', now')
  PROVE  Accounted'
<1>1. ASSUME NEW f \in Open'  PROVE  ~BehindAt(f, offset')
  <2>1. SUFFICES ASSUME BehindAt(f, offset)  PROVE  FALSE
    OBVIOUS
  <2>2. offset \in Offset /\ Settled(offset, live, log) /\ f \in OnTime'
    BY <1>1 DEF TypeOK, Sound, Open
  <2>3. f \in OnTime
    BY <2>1, <2>2 DEF Carried, Moved, FilesKept
  <2>4. f \in Open
    BY <1>1, <2>3, OpenKept
  <2> QED  BY <2>1, <2>4 DEF Accounted
<1>2. Aligned(offset', live', log', OnTime')
  BY DEF TypeOK, Accounted, Carried, NewLines
<1>3. ASSUME NEW q \in Procs
      PROVE  Between(proc'[q], live', log', OnTime') /\ Owed(proc'[q], Lines', OnTime', Open', wrote', now')
  <2>1. Between(proc[q], live', log', OnTime') /\ Owed(proc[q], Lines', OnTime', Open', wrote', now')
    BY BetweenKept, OwedKept DEF Accounted
  <2>2. CASE proc'[q].pc \in {"idle", "fix", "write", "load"}
    BY <2>2 DEF Between, Owed, InPassAt
  <2> QED  BY <2>1, <2>2
<1>4. /\ \A i \in 1..Len(entries') : entries'[i].ts <= now'
      /\ \A x \in Lines' : entries'[x.id].ts <= wrote'[x.id]
  BY StampsKept
<1> QED  BY <1>1, <1>2, <1>3, <1>4 DEF Accounted

LEMMA AccountedAtStart == Init => Accounted
<1> SUFFICES ASSUME Init  PROVE  Accounted
  OBVIOUS
<1>1. Lines = {} /\ OnTime = {} /\ Open = {}
  BY DEF Init, OnTime, Lines, Open
<1>2. Len(entries) = 0
  BY EmptySeq DEF Init
<1>3. offset.byte = 0 /\ \A p \in Procs : proc[p].pc = "idle"
  BY DEF Init, Idle
<1> QED  BY <1>1, <1>2, <1>3 DEF Accounted, Aligned, Between, Owed, InPassAt

\* A process that goes to a stage outside a pass.
LEMMA GoneAccounted ==
  ASSUME TypeOK, TypeOK', Shape, Numbered, Numbered', Sound, Anchoring, Accounted, Carried, [Next]_vars, UNCHANGED offset,
         NEW p \in Procs, NEW stage \in {"idle", "load", "write"}, proc' = [proc EXCEPT ![p] = GoneTo(p, stage)]
  PROVE  Accounted'
<1>1. GoneTo(p, stage).pc = stage
  BY GoneTyped DEF Stages
<1>2. \A q \in Procs : proc'[q] = proc[q] \/ proc'[q].pc \in {"idle", "fix", "write", "load"}
  BY <1>1 DEF TypeOK
<1> QED  BY <1>2, AccountedStep

LEMMA BeginAccounted ==
  ASSUME TypeOK, TypeOK', Shape, Numbered, Numbered', Sound, Anchoring, Accounted, Carried, [Next]_vars,
         NEW p \in Procs, NEW s \in Sessions, NEW k \in Kinds, Begin(p, s, k)
  PROVE  Accounted'
<1> DEFINE stage == IF log[SegmentOf(now)] = <<>> \/ Last(log[SegmentOf(now)]) = NL THEN "write" ELSE "fix"
<1>1. /\ proc' = [proc EXCEPT ![p].pc = stage, ![p].id = Len(entries) + 1, ![p].day = SegmentOf(now)]
      /\ UNCHANGED offset
  BY DEF Begin
<1>2. stage \in {"write", "fix"} /\ proc[p] \in Process
  BY DEF TypeOK
<1> HIDE DEF stage
<1>3. \A q \in Procs : proc'[q] = proc[q] \/ proc'[q].pc \in {"idle", "fix", "write", "load"}
  BY <1>1, <1>2 DEF TypeOK, Process
<1> QED  BY <1>1, <1>3, AccountedStep

\* What cleanup deletes has nothing in front that it leaves.
LEMMA PrunableDown ==
  ASSUME NEW listed \in SUBSET Nat, NEW held, NEW d \in Prunable(listed, held), NEW x \in listed, x <= d
  PROVE  x \in Prunable(listed, held)
<1> DEFINE sizeFrom(c) == FoldSet(LAMBDA e, n : n + Len(held[e]), 0, {e \in listed : e >= c})
           tooOld(c)   == c * TicksPerDay + MaxAgeDays * TicksPerDay < now
           doomed(c)   == tooOld(c) \/ sizeFrom(c) > MaxTotal
<1>1. \A c : c \in Prunable(listed, held) <=>
        c \in listed /\ (\E e \in listed : e > c) /\ \A e \in listed : e <= c => doomed(e)
  BY DEF Prunable
<1> HIDE DEF doomed
<1>2. d \in listed /\ (\E e \in listed : e > d) /\ \A e \in listed : e <= d => doomed(e)
  BY <1>1
<1>3. \E e \in listed : e > x
  BY <1>2
<1>4. \A e \in listed : e <= x => doomed(e)
  <2>1. ASSUME NEW e \in listed, e <= x  PROVE  e <= d
    <3>1. e \in Nat /\ x \in Nat /\ d \in Nat
      BY <1>2
    <3> QED  BY <2>1, <3>1
  <2> QED  BY <1>2, <2>1, Zenon
<1> QED  BY <1>1, <1>3, <1>4

LEMMA WriteAccounted ==
  ASSUME TypeOK, TypeOK', Shape, Numbered, Numbered', Sound, Anchoring, Accounted, Carried, [Next]_vars,
         NEW p \in Procs, Write(p)
  PROVE  Accounted'
<1> DEFINE victims == Prunable(live, log')
           m == [proc[p] EXCEPT !.pc = "clean", !.todo = victims]
<1>1. UNCHANGED <<offset, live>>
  BY DEF Write
<1>2. CASE proc' = [proc EXCEPT ![p] = GoneTo(p, PassOf(p))]
  BY <1>1, <1>2, PassTyped, GoneAccounted
<1>3. CASE proc' = [proc EXCEPT ![p] = m]
  <2>1. \A d \in victims : \A x \in OnTime' : x.day <= d => x.day \in victims
    <3>1. live \in SUBSET Nat
      BY Constants DEF TypeOK
    <3>2. ASSUME NEW x \in OnTime'  PROVE  x.day \in live
      <4>1. live' \in SUBSET Days /\ log' \in [Days -> Seq(0..Torn)] /\ x \in LinesOf(live', log')
        BY LinesAre DEF TypeOK
      <4> QED  BY <1>1, <4>1, LineIn
    <3> QED  BY <3>1, <3>2, PrunableDown
  <2> HIDE DEF victims
  <2>2. m.pc = "clean" /\ m.todo = victims
    BY DEF TypeOK, Process
  <2> HIDE DEF m
  <2>3. Sweeping(m, OnTime')
    BY <2>1, <2>2 DEF Sweeping
  <2>4. Between(m, live', log', OnTime') /\ Owed(m, Lines', OnTime', Open', wrote', now')
    BY <2>2, <2>3 DEF Between, InPassAt, Owed
  <2>5. \A q \in Procs : \/ proc'[q] = proc[q]
                         \/ /\ Between(proc'[q], live', log', OnTime')
                            /\ Owed(proc'[q], Lines', OnTime', Open', wrote', now')
    BY <1>3, <2>4 DEF TypeOK
  <2> QED  BY <1>1, <2>5, AccountedStep
<1> QED  BY <1>2, <1>3 DEF Write, Goto

LEMMA RemoveAccounted ==
  ASSUME TypeOK, TypeOK', Shape, Numbered, Numbered', Sound, Anchoring, Accounted, Carried, [Next]_vars,
         NEW p \in Procs, RemoveSegment(p)
  PROVE  Accounted'
<1>1. PICK d \in proc[p].todo :
           /\ d \in Days /\ NewerIn(live, d) /\ live' = live \ {d} /\ log' = [log EXCEPT ![d] = <<>>]
           /\ proc' = [q \in Procs |-> AfterRemoval(p, q, d)]
           /\ At(p, "clean") /\ \A e \in proc[p].todo : d <= e /\ e \in Days
           /\ UNCHANGED <<now, entries, offset, counted, faults, ghosts>>
  BY Removal
<1>2. Lines' = {x \in Lines : x.day # d} /\ OnTime' = {x \in OnTime : x.day # d}
  BY <1>1, LinesWithout DEF ghosts
<1>3. ASSUME NEW q \in Procs
      PROVE  \/ proc'[q] = proc[q]
             \/ proc'[q].pc \in {"idle", "fix", "write", "load"}
             \/ /\ Between(proc'[q], live', log', OnTime')
                /\ Owed(proc'[q], Lines', OnTime', Open', wrote', now')
  <2>1. proc'[q] = AfterRemoval(p, q, d) /\ proc[q] \in Process
    BY <1>1 DEF TypeOK
  <2>2. CASE q = p
    <3>1. CASE d \in live /\ proc[p].todo # {d}
      <4>1. proc'[q] = [proc[p] EXCEPT !.todo = @ \ {d}]
        BY <2>1, <2>2, <3>1 DEF AfterRemoval
      <4>2. proc'[q].pc = "clean" /\ proc'[q].todo = proc[p].todo \ {d}
        BY <1>1, <2>1, <2>2, <4>1 DEF Process, At
      <4>3. Sweeping(proc[p], OnTime)
        BY <1>1 DEF Accounted, Owed, At
      <4>4. Sweeping(proc'[q], OnTime')
        BY <1>2, <4>2, <4>3 DEF Sweeping
      <4> QED  BY <4>2, <4>4 DEF Between, InPassAt, Owed
    <3>2. CASE ~(d \in live /\ proc[p].todo # {d})
      <4>1. PassOf(p) \in {"idle", "load"} /\ PassOf(p) \in Stages
        BY PassTyped DEF Stages
      <4>2. GoneTo(p, PassOf(p)) \in Process /\ GoneTo(p, PassOf(p)).pc = PassOf(p)
        BY <4>1, GoneTyped
      <4>3. proc'[q] = [GoneTo(p, PassOf(p)) EXCEPT !.todo = {}]
        BY <2>1, <2>2, <3>2 DEF AfterRemoval
      <4>4. proc'[q].pc = PassOf(p)
        BY <4>2, <4>3 DEF Process
      <4> QED  BY <4>1, <4>4
    <3> QED  BY <3>1, <3>2
  <2>3. CASE q # p /\ At(q, "write") /\ proc[q].day = d
    <3>1. proc'[q] = [proc[q] EXCEPT !.unlinked = TRUE]
      BY <2>1, <2>3 DEF AfterRemoval
    <3> QED  BY <2>1, <2>3, <3>1 DEF Process, At
  <2>4. CASE q # p /\ ~(At(q, "write") /\ proc[q].day = d)
    BY <2>1, <2>4 DEF AfterRemoval
  <2> QED  BY <2>2, <2>3, <2>4
<1> QED  BY <1>1, <1>3, AccountedStep

\* A step inside a pass, which leaves the files and the clock alone.
LEMMA AccountedInside ==
  ASSUME TypeOK, TypeOK', Shape, Numbered, Numbered', Sound, Anchoring, Accounted, Carried, [Next]_vars,
         UNCHANGED <<files, late, entries, offset, wrote, now>>,
         NEW p \in Procs, NEW n, proc' = [proc EXCEPT ![p] = n],
         Between(n, live, log, OnTime), Owed(n, Lines, OnTime, Open', wrote, now)
  PROVE  Accounted'
<1>1. Lines' = Lines /\ OnTime' = OnTime /\ log' = log /\ live' = live /\ wrote' = wrote /\ now' = now
  BY LinesAre DEF files
<1>2. Between(n, live', log', OnTime') /\ Owed(n, Lines', OnTime', Open', wrote', now')
  BY <1>1
<1>3. \A q \in Procs : \/ proc'[q] = proc[q]
                       \/ /\ Between(proc'[q], live', log', OnTime')
                          /\ Owed(proc'[q], Lines', OnTime', Open', wrote', now')
  BY <1>2 DEF TypeOK
<1> QED  BY <1>3, AccountedStep

\* Nothing opens while the files stay as they are.
LEMMA OpenShrinks ==
  ASSUME TypeOK, TypeOK', Numbered, Carried, UNCHANGED <<files, late>>
  PROVE  Open' \subseteq Open
<1>1. OnTime' = OnTime
  BY LinesAre DEF files
<1>2. \A f \in Open' : f \in OnTime
  BY <1>1 DEF Open
<1> QED  BY <1>2, OpenKept

\* A pass that begins finds every line behind the offset or in a segment it
\* will read.
LEMMA LoadAccounted ==
  ASSUME TypeOK, TypeOK', Shape, Numbered, Numbered', Sound, Anchoring, Accounted, Carried, [Next]_vars,
         NEW p \in Procs, Load(p)
  PROVE  Accounted'
<1> DEFINE todo == {d \in live : d >= offset.day}
           n == [Idle EXCEPT !.pc = IF todo = {} THEN "decide" ELSE "read", !.id = proc[p].id, !.todo = todo,
                             !.off = offset, !.next = offset, !.since = now]
<1>1. /\ proc' = [proc EXCEPT ![p] = n]
      /\ UNCHANGED <<files, late, entries, offset, wrote, now>>
  BY DEF Load
<1>2. ASSUME NEW x \in OnTime  PROVE  BehindAt(x, offset) \/ x.day \in todo
  <2>1. x.day \in live /\ x.day \in Nat /\ offset.day \in Nat
    <3>1. x \in Lines
      BY OnTimeLines
    <3>2. offset \in Offset
      BY DEF TypeOK
    <3> QED  BY <3>1, <3>2, LineTyped, Constants DEF Offset
  <2> QED  BY <2>1 DEF BehindAt
<1>3. todo = {} \/ todo # {}
  OBVIOUS
<1> HIDE DEF todo
<1>4. /\ n.off = offset /\ n.next = offset /\ n.todo = todo /\ n.batch = <<>> /\ n.since = now
      /\ n.pc = IF todo = {} THEN "decide" ELSE "read"
  BY DEF Idle
<1> HIDE DEF n
<1>5. Between(n, live, log, OnTime)
  BY <1>4 DEF Between, Accounted
<1>6. Open' \subseteq Open
  BY <1>1, OpenShrinks
<1>7. Following(n, Lines, OnTime, Open', wrote, now)
  <2>1. n.since <= now
    BY <1>4, Constants DEF TypeOK
  <2>2. \A f \in Open' : ~BehindAt(f, n.off)
    BY <1>4, <1>6 DEF Accounted
  <2>3. \A x \in OnTime : BehindAt(x, n.next) \/ (n.pc = "read" /\ x.day \in n.todo)
    BY <1>2, <1>4
  <2>4. Len(n.batch) = 0
    BY <1>4, EmptySeq
  <2> QED  BY <2>1, <2>2, <2>3, <2>4 DEF Following
<1>8. Owed(n, Lines, OnTime, Open', wrote, now)
  BY <1>4, <1>7 DEF Owed
<1> QED  BY <1>1, <1>5, <1>8, AccountedInside

\* The offset is stored: nothing is open in front of where the pass got.
LEMMA StoreAccounted ==
  ASSUME TypeOK, TypeOK', Shape, Numbered, Numbered', Sound, Anchoring, Accounted, Carried, [Next]_vars,
         NEW p \in Procs, StoreOffset(p)
  PROVE  Accounted'
<1>1. /\ At(p, "store") /\ proc' = [proc EXCEPT ![p] = GoneTo(p, "idle")] /\ offset' = proc[p].next
      /\ UNCHANGED <<entries, files, counted, wrote, late, now>>
  BY DEF StoreOffset, Goto
<1>2. Lines' = Lines /\ OnTime' = OnTime /\ log' = log /\ live' = live /\ wrote' = wrote /\ now' = now
  BY <1>1, LinesAre DEF files
<1>3. Open' \subseteq Open
  BY <1>1, OpenShrinks
<1>4. ASSUME NEW f \in Open'  PROVE  ~BehindAt(f, offset')
  <2>1. Owing(proc[p], Open) /\ proc[p].pairs = <<>>
    BY <1>1 DEF Accounted, Owed, At
  <2>2. Len(proc[p].pairs) = 0
    BY <2>1, EmptySeq
  <2> QED  BY <1>1, <1>3, <2>1, <2>2 DEF Owing
<1>5. Aligned(offset', live', log', OnTime')
  BY <1>1, <1>2 DEF Accounted, Between, InPassAt, At
<1>6. ASSUME NEW q \in Procs
      PROVE  Between(proc'[q], live', log', OnTime') /\ Owed(proc'[q], Lines', OnTime', Open', wrote', now')
  <2>1. Between(proc[q], live', log', OnTime') /\ Owed(proc[q], Lines', OnTime', Open', wrote', now')
    BY BetweenKept, OwedKept DEF Accounted
  <2>2. CASE q = p
    <3>1. GoneTo(p, "idle").pc = "idle" /\ proc'[q] = GoneTo(p, "idle")
      BY <1>1, <2>2, GoneTyped DEF TypeOK, Stages
    <3> QED  BY <3>1 DEF Between, Owed, InPassAt
  <2>3. CASE q # p
    BY <1>1, <2>1, <2>3 DEF TypeOK
  <2> QED  BY <2>2, <2>3
<1>7. /\ \A i \in 1..Len(entries') : entries'[i].ts <= now'
      /\ \A x \in Lines' : entries'[x.id].ts <= wrote'[x.id]
  BY StampsKept
<1> QED  BY <1>4, <1>5, <1>6, <1>7 DEF Accounted

LEMMA DeriveAccounted ==
  ASSUME TypeOK, TypeOK', Shape, Numbered, Numbered', Sound, Anchoring, Accounted, Carried, [Next]_vars,
         NEW p \in Procs, Derive(p)
  PROVE  Accounted'
<1> DEFINE m == proc[p]
           pairs == m.pairs
           n == AfterDeriving(p)
<1>1. /\ At(p, "derive") /\ m \in Process /\ pairs \in Seq(Pair) /\ pairs # <<>>
      /\ Head(pairs) \in Pair /\ Head(pairs).f \in Ids
      /\ counted' = [counted EXCEPT ![Head(pairs).f] = @ + 1]
      /\ proc' = [proc EXCEPT ![p] = n]
      /\ anchors' = anchors \cup {Head(pairs)}
      /\ UNCHANGED <<now, entries, files, offset, faults, wrote, late, handed, crossed, shared>>
  BY Deriving
<1>2. /\ n.pc = IF Len(pairs) = 1 THEN "store" ELSE "derive"
      /\ n.off = m.off /\ n.next = m.next /\ n.pairs = Tail(pairs)
  BY <1>1 DEF AfterDeriving, Process
<1>3. Between(m, live, log, OnTime) /\ Owing(m, Open) /\ InPassAt(m)
  BY <1>1 DEF Accounted, Owed, At, InPassAt
<1>4. Open' \subseteq Open
  BY <1>1, OpenShrinks
<1> HIDE DEF n, pairs
<1>5. /\ Len(pairs) \in Nat \ {0} /\ Head(pairs) = pairs[1] /\ Len(Tail(pairs)) = Len(pairs) - 1
      /\ \A i \in 1..Len(Tail(pairs)) : Tail(pairs)[i] = pairs[i + 1]
      /\ Tail(pairs) \in Seq(Pair)
  <2>1. Len(pairs) \in Nat \ {0}
    BY <1>1, LenProperties, EmptySeq
  <2>2. /\ Len(Tail(pairs)) = Len(pairs) - 1 /\ \A i \in 1..Len(Tail(pairs)) : Tail(pairs)[i] = pairs[i + 1]
        /\ Tail(pairs) \in Seq(Pair)
    BY <1>1, HeadTailProperties
  <2> QED  BY <1>1, <2>1, <2>2
<1>6. ASSUME NEW f \in Open', BehindAt(f, n.next)  PROVE  \E k \in 1..Len(n.pairs) : n.pairs[k].f = f.id
  <2>1. PICK k \in 1..Len(pairs) : pairs[k].f = f.id
    BY <1>2, <1>3, <1>4, <1>6 DEF Owing, pairs
  <2>2. counted'[f.id] = 0
    BY DEF Open
  <2>3. counted'[Head(pairs).f] # 0
    <3>1. counted'[Head(pairs).f] = counted[Head(pairs).f] + 1 /\ counted[Head(pairs).f] \in Nat
      BY <1>1 DEF TypeOK
    <3> QED  BY <3>1
  <2>4. k # 1
    BY <1>5, <2>1, <2>2, <2>3
  <2>5. k - 1 \in 1..Len(Tail(pairs)) /\ Tail(pairs)[k - 1] = pairs[k]
    <3>1. k - 1 \in 1..Len(Tail(pairs)) /\ (k - 1) + 1 = k
      BY <1>5, <2>4
    <3> QED  BY <1>5, <3>1
  <2> QED  BY <1>2, <2>1, <2>5
<1>7. n.pc = "store" => n.pairs = <<>>
  <2>1. SUFFICES ASSUME Len(pairs) = 1  PROVE  Tail(pairs) = <<>>
    BY <1>2
  <2>2. Len(Tail(pairs)) = 0
    BY <1>5, <2>1
  <2> QED  BY <1>5, <2>2, EmptySeq
<1>8. Between(n, live, log, OnTime)
  BY <1>2, <1>3 DEF Between
<1>9. Owed(n, Lines, OnTime, Open', wrote, now)
  BY <1>2, <1>6, <1>7 DEF Owed, Owing
<1> QED  BY <1>1, <1>8, <1>9, AccountedInside

\* Behind an entry of the batch, in front of where the pass got, all is batch.
LEMMA BatchGoesOn ==
  ASSUME TypeOK, Numbered, NEW m \in Process, Gathered(m, Lines, OnTime),
         NEW f \in OnTime, NEW i \in 1..Len(m.batch), f.id = m.batch[i],
         NEW s \in OnTime, Before(f, s), BehindAt(s, m.next)
  PROVE  \E k \in i + 1..Len(m.batch) : s.id = m.batch[k]
<1>1. m.batch \in Seq(Ids) /\ m.off \in Offset
  BY DEF Process
<1>2. Len(m.batch) \in Nat /\ m.off.day \in Nat /\ m.off.byte \in Nat
  BY <1>1, LenProperties, Constants DEF Offset
<1>3. f \in Lines /\ s \in Lines
  BY OnTimeLines
<1>4. f.day \in Nat /\ f.at \in Nat /\ s.day \in Nat /\ s.at \in Nat
  BY <1>3, LineTyped
<1>5. f.id \in Range(m.batch)
  BY <1>1 DEF Range
<1>6. ~BehindAt(f, m.off)
  BY <1>3, <1>5 DEF Gathered
<1>7. ~BehindAt(s, m.off)
  BY <1>2, <1>4, <1>6 DEF BehindAt, Before
<1>8. s.id \in Range(m.batch)
  BY <1>7 DEF Gathered
<1>9. PICK k \in 1..Len(m.batch) : s.id = m.batch[k]
  BY <1>1, <1>8 DEF Range
<1>10. k # i
  <2>1. SUFFICES ASSUME k = i  PROVE  FALSE
    OBVIOUS
  <2>2. s = f
    BY <1>3, <1>9, <2>1, LineUnique DEF Numbered
  <2> QED  BY <1>4, <2>2 DEF Before
<1>11. ~(k < i)
  <2>1. SUFFICES ASSUME k < i  PROVE  FALSE
    OBVIOUS
  <2>2. Before(s, f)
    BY <1>3, <1>9, <2>1 DEF Gathered
  <2> QED  BY <1>4, <2>2 DEF Before
<1> QED  BY <1>2, <1>9, <1>10, <1>11

LEMMA ReadAccounted ==
  ASSUME TypeOK, TypeOK', Shape, Numbered, Numbered', Sound, Anchoring, Accounted, Carried, [Next]_vars,
         NEW p \in Procs, Read(p)
  PROVE  Accounted'
<1>1. PICK d \in proc[p].todo :
           /\ d \in Days /\ \A e \in proc[p].todo : d <= e /\ e \in Days
           /\ log[d] \in Seq(0..Torn) /\ From(p, d) \in 0..Len(log[d]) /\ Len(log[d]) \in Nat
           /\ proc' = [proc EXCEPT ![p] = AfterReading(p, d)]
           /\ At(p, "read")
           /\ UNCHANGED <<now, entries, files, offset, counted, faults, ghosts>>
  BY Reading
<1> DEFINE m == proc[p]
           from == From(p, d)
           read == EntriesAt(log[d], from)
           at == LinesAfter(log[d], from)
           end == Consumed(log[d], from)
           n == AfterReading(p, d)
<1>2. UNCHANGED <<files, late, entries, offset, wrote, now>> /\ Open' \subseteq Open
  BY <1>1, OpenShrinks DEF ghosts
<1>3. /\ m \in Process /\ m.pc = "read" /\ m.batch \in Seq(Ids) /\ m.off \in Offset /\ m.next \in Offset
      /\ d \in Nat /\ m.off.day \in Nat /\ m.off.byte \in Nat /\ m.next.day \in Nat /\ m.next.byte \in Nat
      /\ Len(m.batch) \in Nat /\ \A e \in m.todo : e \in Nat
  BY <1>1, Constants, LenProperties DEF TypeOK, Process, Offset, At
<1>4. \A e \in m.todo : m.next.day <= e
  BY <1>3 DEF Sound, Safe
<1>5. /\ \A x \in Lines : x.id \in Range(m.batch) => ~BehindAt(x, m.off)
      /\ \A e \in m.todo : m.off.day <= e /\ \A x \in Lines : x.id \in Range(m.batch) => x.day < e
  BY <1>3 DEF Anchoring, Placed, Gathered
<1>6. /\ Aligned(m.off, live, log, OnTime) /\ Aligned(m.next, live, log, OnTime)
      /\ m.since <= now
      /\ \A f \in Open : ~BehindAt(f, m.off)
      /\ \A x \in OnTime : BehindAt(x, m.next) \/ m.since <= wrote[x.id] \/ x.day \in m.todo
      /\ \A f \in OnTime : \A i \in 1..Len(m.batch), k \in 1..Len(m.batch) :
           f.id = m.batch[i] /\ i < k => \E y \in Lines : y.id = m.batch[k]
  BY <1>3 DEF Accounted, Between, Owed, Following, InPassAt
<1>7. /\ read \in Seq(Ids) /\ Len(read) \in Nat
      /\ \A k \in 1..Len(read) : Nth(at, k) \in at /\ read[k] = log[d][Nth(at, k)]
  <2>1. from \in Nat
    BY <1>1
  <2>2. read \in Seq(Ids)
    BY <1>1, <2>1, EntriesTyped
  <2> HIDE DEF from
  <2> QED  BY <1>1, <2>1, <2>2, EntriesFrom, LenProperties
<1>8. /\ from \in 0..Len(log[d]) /\ end \in from..Len(log[d]) /\ end \in Nat /\ from \in Nat
      /\ (end = from \/ log[d][end] = NL)
      /\ \A i \in at : i \in Nat /\ from < i /\ i \in 1..Len(log[d]) /\ log[d][i] \in Ids
  <2>1. from \in 0..Len(log[d]) /\ from \in Nat
    BY <1>1
  <2> HIDE DEF from
  <2>2. end \in from..Len(log[d]) /\ (end = from \/ log[d][end] = NL)
    BY <1>1, <2>1, ConsumedTyped
  <2>3. \A i \in at : i \in Nat /\ from < i /\ i \in 1..Len(log[d]) /\ log[d][i] \in Ids
    BY <1>1, <2>1, ReadBetween
  <2> HIDE DEF end, at
  <2> QED  BY <1>1, <2>1, <2>2, <2>3
<1>9. /\ n.off = m.off /\ n.todo = m.todo \ {d} /\ n.since = m.since
      /\ n.pc = IF m.todo \ {d} = {} THEN "decide" ELSE "read"
      /\ d \in live => n.batch = m.batch \o read /\ n.next = [day |-> d, byte |-> end]
      /\ d \notin live => n.batch = m.batch /\ n.next = m.next
  <2> HIDE DEF from, read, end, at
  <2> QED  BY <1>3 DEF AfterReading, Process, from, read, end
<1>10. from = IF d = m.off.day THEN Smaller(m.off.byte, Len(log[d])) ELSE 0
  BY DEF From
<1>11. d \in m.todo /\ proc' = [proc EXCEPT ![p] = n]
  BY <1>1
<1>12. ASSUME NEW x \in Lines, x.day = d  PROVE  x.at \in Nat /\ x.at <= end
  <2>1. x.at \in LinesAfter(log[d], 0)
    BY <1>12, LineTyped
  <2> QED  BY <1>1, <2>1, LineWasRead
\* Where it starts reading is at the end of a line, or nothing is on time here.
<1>13. from = 0 \/ log[d][from] = NL \/ (NewerIn(live, d) /\ d = m.off.day /\ \A x \in OnTime : x.day # d)
  <2> HIDE DEF m, from
  <2>1. CASE d # m.off.day
    BY <1>10, <2>1
  <2>2. CASE d = m.off.day
    <3>1. CASE m.off.byte = 0
      BY <1>1, <1>10, <2>2, <3>1 DEF Smaller
    <3>2. CASE m.off.byte \in 1..Len(log[d]) /\ log[d][m.off.byte] = NL
      <4>1. from = m.off.byte
        BY <1>1, <1>3, <1>10, <2>2, <3>2 DEF Smaller
      <4> QED  BY <3>2, <4>1
    <3>3. CASE NewerIn(live, d) /\ \A x \in OnTime : x.day # d
      BY <2>2, <3>3
    <3> QED  BY <1>6, <2>2, <3>1, <3>2, <3>3 DEF Aligned
  <2> QED  BY <2>1, <2>2
<1>14. ASSUME from = 0 \/ log[d][from] = NL, NEW i \in at  PROVE  i \in LinesAfter(log[d], 0)
  <2>1. i \in from + 1 .. Len(log[d]) - 1 /\ log[d][i] \in Ids /\ log[d][i + 1] = NL /\ (i = from + 1 \/ log[d][i - 1] = NL)
    BY <1>14 DEF LinesAfter
  <2> HIDE DEF from
  <2>2. i \in 0 + 1 .. Len(log[d]) - 1
    BY <1>1, <1>8, <2>1
  <2>3. i = 0 + 1 \/ log[d][i - 1] = NL
    <3>1. i = from + 1 => i - 1 = from
      BY <1>8
    <3> QED  BY <1>14, <2>1, <3>1
  <2> QED  BY <2>1, <2>2, <2>3 DEF LinesAfter
<1> HIDE DEF m, n, from, read, end, at
<1>15. Between(n, live, log, OnTime)
  <2>1. ASSUME d \in live  PROVE  Aligned([day |-> d, byte |-> end], live, log, OnTime)
    <3>1. end = 0 \/ end \in 1..Len(log[d])
      BY <1>1, <1>8
    <3>2. CASE log[d][end] = NL
      BY <3>1, <3>2 DEF Aligned
    <3>3. CASE end = from
      BY <1>13, <3>1, <3>3 DEF Aligned
    <3> QED  BY <1>8, <3>2, <3>3
  <2> QED  BY <1>6, <1>9, <2>1 DEF Between
<1>16. \A f \in Open' : ~BehindAt(f, n.off)
  BY <1>2, <1>6, <1>9
<1>17. ASSUME NEW x \in OnTime
       PROVE  BehindAt(x, n.next) \/ n.since <= wrote[x.id] \/ (n.pc = "read" /\ x.day \in n.todo)
  <2>1. x \in Lines
    BY OnTimeLines
  <2>2. x.day \in live /\ x.day \in Nat /\ x.at \in Nat
    BY <2>1, LineTyped
  <2>3. CASE x.day = d
    <3>1. d \in live /\ x.at <= end
      BY <1>12, <2>1, <2>2, <2>3
    <3> QED  BY <1>9, <2>3, <3>1 DEF BehindAt
  <2>4. CASE x.day # d
    <3>1. CASE x.day \in m.todo
      <4>1. x.day \in n.todo /\ n.pc = "read"
        BY <1>9, <2>4, <3>1
      <4> QED  BY <4>1
    <3>2. CASE m.since <= wrote[x.id]
      BY <1>9, <3>2
    <3>3. CASE BehindAt(x, m.next)
      <4>1. x.day <= d
        BY <1>3, <1>4, <1>11, <2>2, <3>3 DEF BehindAt
      <4>2. d \in live => BehindAt(x, n.next)
        BY <1>3, <1>9, <2>2, <2>4, <4>1 DEF BehindAt
      <4> QED  BY <1>9, <3>3, <4>2
    <3> QED  BY <1>6, <3>1, <3>2, <3>3
  <2> QED  BY <2>3, <2>4
<1>18. ASSUME NEW f \in OnTime, NEW i \in 1..Len(n.batch), NEW k \in 1..Len(n.batch), f.id = n.batch[i], i < k
       PROVE  \E y \in Lines : y.id = n.batch[k]
  <2>1. CASE d \notin live
    <3>1. n.batch = m.batch
      BY <1>9, <2>1
    <3> QED  BY <1>6, <1>18, <3>1
  <2>2. CASE d \in live
    <3>1. n.batch = m.batch \o read
      BY <1>9, <2>2
    <3>2. /\ Len(n.batch) = Len(m.batch) + Len(read)
          /\ \A j \in 1..Len(m.batch) + Len(read) : n.batch[j] = IF j <= Len(m.batch) THEN m.batch[j] ELSE read[j - Len(m.batch)]
      BY <1>3, <1>7, <3>1, ConcatParts
    <3>3. i \in Nat \ {0} /\ k \in Nat \ {0}
      BY <1>3, <1>7, <1>18, <3>2
    <3>4. CASE k <= Len(m.batch)
      <4>1. i \in 1..Len(m.batch) /\ k \in 1..Len(m.batch) /\ n.batch[i] = m.batch[i] /\ n.batch[k] = m.batch[k]
        BY <1>3, <1>18, <3>2, <3>3, <3>4
      <4> QED  BY <1>6, <1>18, <4>1
    <3>5. CASE ~(k <= Len(m.batch))
      <4> DEFINE l == k - Len(m.batch)
      <4>1. l \in 1..Len(read) /\ n.batch[k] = read[l]
        BY <1>3, <1>7, <1>18, <3>2, <3>3, <3>5
      <4> HIDE DEF l
      <4>2. Nth(at, l) \in at /\ read[l] = log[d][Nth(at, l)]
        BY <1>7, <4>1
      <4>3. CASE from = 0 \/ log[d][from] = NL
        <5>1. Nth(at, l) \in LinesAfter(log[d], 0)
          BY <1>14, <4>2, <4>3
        <5>2. [id |-> log[d][Nth(at, l)], day |-> d, at |-> Nth(at, l)] \in Lines
          BY <2>2, <5>1, LinesParts
        <5> QED  BY <4>1, <4>2, <5>2
      <4>4. CASE d = m.off.day /\ \A x \in OnTime : x.day # d
        <5>1. f \in Lines /\ f.day # d
          BY <4>4, OnTimeLines
        <5>2. f.day \in Nat
          BY <5>1, LineTyped
        <5>3. CASE i <= Len(m.batch)
          <6>1. i \in 1..Len(m.batch) /\ f.id = m.batch[i]
            BY <1>3, <1>18, <3>2, <3>3, <5>3
          <6>2. f.id \in Range(m.batch)
            BY <1>3, <6>1 DEF Range
          <6>3. f.day < d /\ ~BehindAt(f, m.off)
            BY <1>5, <1>11, <5>1, <6>2
          <6> QED  BY <4>4, <6>3 DEF BehindAt
        <5>4. CASE ~(i <= Len(m.batch))
          <6> DEFINE h == i - Len(m.batch)
          <6>1. h \in 1..Len(read) /\ f.id = read[h]
            BY <1>3, <1>7, <1>18, <3>2, <3>3, <5>4
          <6> HIDE DEF h
          <6>2. Nth(at, h) \in at /\ read[h] = log[d][Nth(at, h)]
            BY <1>7, <6>1
          <6>3. Nth(at, h) \in 1..Len(log[d])
            BY <1>8, <6>2
          <6>4. f.day = d
            BY <1>1, <5>1, <6>1, <6>2, <6>3, OneLine DEF Numbered
          <6> QED  BY <5>1, <6>4
        <5> QED  BY <5>3, <5>4
      <4> QED  BY <1>13, <4>3, <4>4
    <3> QED  BY <3>4, <3>5
  <2> QED  BY <2>1, <2>2
<1>19. Following(n, Lines, OnTime, Open', wrote, now)
  BY <1>6, <1>9, <1>16, <1>17, <1>18 DEF Following
<1>20. Owed(n, Lines, OnTime, Open', wrote, now)
  BY <1>9, <1>19 DEF Owed
<1> QED  BY <1>2, <1>11, <1>15, <1>20, AccountedInside

\* A pass that does not hold its batch.
Released(p) ==
  /\ ~Pending(proc[p].batch) /\ proc' = [proc EXCEPT ![p] = AfterDeciding(p)]
  /\ \A i \in Failures(proc[p].batch) :
       /\ Retries(proc[p].batch, i) = {} /\ proc[p].since <= E(proc[p].batch[i]).ts + Window
       /\ now > E(proc[p].batch[i]).ts + Window
       => proc[p].batch[i] \in crossed'

LEMMA DecidingOn ==
  ASSUME TypeOK, NEW p \in Procs, Decide(p)
  PROVE  proc' = [proc EXCEPT ![p] = GoneTo(p, "idle")] \/ Released(p)
<1> DEFINE b == proc[p].batch
           pairs == PairsOf(b, proc[p].off)
           given == {b[i] : i \in {j \in Failures(b) : /\ Retries(b, j) = {}
                                                       /\ proc[p].since <= E(b[j]).ts + Window
                                                       /\ now > E(b[j]).ts + Window}}
           hold == (b = <<>> /\ proc[p].next = proc[p].off) \/ Pending(b)
<1>1. CASE hold
  BY <1>1 DEF Decide, Goto
<1>2. CASE ~hold
  <2>1. /\ proc' = [proc EXCEPT ![p].pairs = pairs, ![p].since = 0, ![p].off = Idle.off,
                                ![p].pc = IF pairs = <<>> THEN "store" ELSE "derive"]
        /\ crossed' = crossed \cup given
    BY <1>2 DEF Decide
  <2>2. AfterDeciding(p) = [proc[p] EXCEPT !.pairs = pairs, !.since = 0, !.off = Idle.off,
                                !.pc = IF pairs = <<>> THEN "store" ELSE "derive"]
    BY DEF AfterDeciding
  <2>3. \A i \in Failures(b) :
          Retries(b, i) = {} /\ proc[p].since <= E(b[i]).ts + Window /\ now > E(b[i]).ts + Window => b[i] \in crossed'
    BY <2>1
  <2> HIDE DEF pairs, given
  <2>4. proc' = [proc EXCEPT ![p] = AfterDeciding(p)]
    BY <2>1, <2>2 DEF TypeOK
  <2> QED  BY <1>2, <2>3, <2>4 DEF Released
<1> QED  BY <1>1, <1>2

\* A failure that is open after the decision is paired.
LEMMA OpenIsPaired ==
  ASSUME TypeOK, Numbered, Accounted, Carried, UNCHANGED <<entries, files, late, wrote, now, counted>>,
         NEW p \in Procs, At(p, "decide"), Gathered(proc[p], Lines, OnTime), Released(p),
         NEW f \in Open', NEW i \in 1..Len(proc[p].batch), f.id = proc[p].batch[i]
  PROVE  i \in Failures(proc[p].batch) /\ Corrected(proc[p].batch, i)
<1> DEFINE m == proc[p]
           b == proc[p].batch
           F == E(f.id)
<1>1. Lines' = Lines /\ OnTime' = OnTime
  BY LinesAre DEF files
<1>2. /\ f \in OnTime /\ F.kind = "fail" /\ f.id \notin crossed'
      /\ \/ now <= F.ts + Window /\ \A y \in Lines : ~Retry(y, f)
         \/ \E s \in OnTime : CorrectedBy(f, s)
  <2>1. f \in OnTime' /\ entries'[f.id].kind = "fail" /\ f.id \notin crossed'
    BY DEF Open, E
  <2>2. \/ now' <= entries'[f.id].ts + Window /\ \A y \in Lines' : ~Retry(y, f)'
        \/ \E s \in OnTime' : CorrectedBy(f, s)'
    BY DEF Open, E
  <2>3. \A y : Retry(y, f)' <=> Retry(y, f)
    BY DEF Retry, E, Before
  <2>4. \A s : CorrectedBy(f, s)' <=> CorrectedBy(f, s)
    BY <1>1, <2>3 DEF CorrectedBy, E, Before
  <2> QED  BY <1>1, <2>1, <2>2, <2>3, <2>4 DEF E
<1>3. /\ m \in Process /\ b \in Seq(Ids) /\ Len(b) \in Nat /\ i \in Nat /\ m.since \in Int /\ now \in Int /\ Window \in Nat
  <2>1. m \in Process /\ b \in Seq(Ids)
    BY DEF TypeOK, Process
  <2>2. Len(b) \in Nat /\ i \in Nat
    BY <2>1, LenProperties
  <2>3. m.since \in Int /\ now \in Int /\ Window \in Nat
    BY <2>1, Constants DEF Process, TypeOK
  <2> QED  BY <2>1, <2>2, <2>3
<1>4. f \in Lines /\ F.ts \in Nat
  BY <1>2, OnTimeLines, LineEntry
<1>5. i \in Failures(b)
  BY <1>2 DEF Failures
<1>6. /\ \A x \in OnTime : BehindAt(x, m.next) \/ m.since <= wrote[x.id]
      /\ \A k \in 1..Len(b) : i < k => \E y \in Lines : y.id = b[k]
  BY <1>2 DEF Accounted, Owed, Following, At
<1>7. ASSUME NEW s \in OnTime, CorrectedBy(f, s), BehindAt(s, m.next)
      PROVE  \E k \in Retries(b, i) : s.id = b[k]
  <2>1. Before(f, s) /\ E(s.id).session = F.session /\ E(s.id).kind # "recall"
    BY <1>7 DEF CorrectedBy, Retry
  <2>2. PICK k \in i + 1..Len(b) : s.id = b[k]
    BY <1>2, <1>3, <1>7, <2>1, BatchGoesOn
  <2> QED  BY <2>1, <2>2 DEF Retries
<1>8. ASSUME Retries(b, i) = {}  PROVE  FALSE
  <2>1. now > F.ts + Window
    <3>1. ~(now <= E(b[i]).ts + Window)
      BY <1>5, <1>8 DEF Released, Pending
    <3> QED  BY <1>3, <1>4, <3>1
  <2>2. PICK s \in OnTime : CorrectedBy(f, s)
    BY <1>2, <1>3, <1>4, <2>1
  <2>3. wrote[s.id] <= F.ts + Window /\ wrote[s.id] \in Nat
    <3>1. s \in Lines
      BY OnTimeLines
    <3> QED  BY <2>2, <3>1, LineEntry DEF CorrectedBy
  <2>4. m.since <= F.ts + Window
    <3>1. m.since <= wrote[s.id]
      BY <1>6, <1>7, <1>8, <2>2
    <3> QED  BY <1>3, <1>4, <2>3, <3>1
  <2>5. b[i] \in crossed'
    BY <1>5, <1>8, <2>1, <2>4 DEF Released
  <2> QED  BY <1>2, <2>5
<1> DEFINE j == Min(Retries(b, i))
<1>9. j \in Retries(b, i) /\ j \in i + 1..Len(b) /\ \A k \in Retries(b, i) : j <= k
  <2>1. Retries(b, i) \in SUBSET Nat /\ Retries(b, i) # {}
    BY <1>3, <1>8 DEF Retries
  <2>2. j \in Retries(b, i) /\ \A k \in Retries(b, i) : j <= k
    BY <2>1, MinExists
  <2> HIDE DEF j
  <2> QED  BY <2>2 DEF Retries
<1>10. Corrected(b, i)
       <=> E(b[j]).kind = "fixed" /\ F.ts <= E(b[j]).ts /\ E(b[j]).ts <= F.ts + Window
  BY <1>8 DEF Corrected
<1> HIDE DEF j, m, b
<1>11. j \in 1..Len(b) /\ i < j /\ j \in Nat
  BY <1>3, <1>9
<1>12. PICK y \in Lines : y.id = b[j]
  BY <1>6, <1>11
<1>13. Before(f, y) /\ BehindAt(y, m.next) /\ Retry(y, f)
  <2>1. Before(f, y)
    BY <1>4, <1>11, <1>12 DEF Gathered, m, b
  <2>2. y.id \in Range(b)
    BY <1>3, <1>11, <1>12 DEF Range
  <2>3. BehindAt(y, m.next)
    BY <2>2 DEF Gathered, m, b
  <2>4. E(b[j]).session = E(b[i]).session /\ E(b[j]).kind # "recall"
    BY <1>9 DEF Retries
  <2> QED  BY <1>12, <2>1, <2>3, <2>4 DEF Retry, b
<1>14. PICK s \in OnTime : CorrectedBy(f, s)
  BY <1>2, <1>13
<1>15. /\ E(s.id).kind = "fixed" /\ F.ts <= E(s.id).ts /\ wrote[s.id] <= F.ts + Window /\ ~Before(y, s)
  BY <1>13, <1>14 DEF CorrectedBy
<1>16. /\ s \in Lines /\ s.day \in Nat /\ s.at \in Nat /\ y.day \in Nat /\ y.at \in Nat
       /\ m.next.day \in Nat /\ m.next.byte \in Nat
  <2>1. s \in Lines
    BY OnTimeLines
  <2>2. m.next \in Offset
    BY <1>3 DEF Process
  <2> QED  BY <2>1, <2>2, LineTyped, Constants DEF Offset
<1>17. BehindAt(s, m.next)
  BY <1>13, <1>15, <1>16 DEF BehindAt, Before
<1>18. PICK k \in Retries(b, i) : s.id = b[k]
  BY <1>7, <1>14, <1>17
<1>19. k \in 1..Len(b) /\ j <= k /\ k \in Nat
  BY <1>3, <1>9, <1>18 DEF Retries
<1>20. ~(j < k)
  <2>1. SUFFICES ASSUME j < k  PROVE  FALSE
    OBVIOUS
  <2>2. Before(y, s)
    BY <1>11, <1>12, <1>16, <1>18, <1>19, <2>1 DEF Gathered, m, b
  <2> QED  BY <1>15, <2>2
<1>21. b[j] = s.id
  <2>1. j = k
    BY <1>11, <1>19, <1>20
  <2> QED  BY <1>18, <2>1
<1>22. E(s.id).ts <= F.ts + Window
  <2>1. E(s.id).ts <= wrote[s.id] /\ E(s.id).ts \in Nat /\ wrote[s.id] \in Nat
    BY <1>16, LineEntry DEF Accounted, E
  <2> QED  BY <1>3, <1>4, <1>15, <2>1
<1> QED  BY <1>5, <1>10, <1>15, <1>21, <1>22 DEF b

LEMMA DecideAccounted ==
  ASSUME TypeOK, TypeOK', Shape, Numbered, Numbered', Sound, Anchoring, Accounted, Carried, [Next]_vars,
         NEW p \in Procs, Decide(p)
  PROVE  Accounted'
<1> DEFINE m == proc[p]
           n == AfterDeciding(p)
           b == m.batch
           pairs == PairsOf(b, m.off)
           at == {i \in Failures(b) : Corrected(b, i)}
<1>1. /\ At(p, "decide") /\ m \in Process /\ b \in Seq(Ids) /\ m.off \in Offset /\ Len(b) \in Nat
      /\ UNCHANGED <<now, entries, files, offset, counted, wrote, late>>
  <2>1. At(p, "decide") /\ m \in Process /\ UNCHANGED <<now, entries, files, offset, counted, wrote, late>>
    BY Deciding
  <2>2. b \in Seq(Ids) /\ m.off \in Offset
    BY <2>1 DEF Process
  <2> QED  BY <2>1, <2>2, LenProperties
<1>2. CASE proc' = [proc EXCEPT ![p] = GoneTo(p, "idle")]
  BY <1>1, <1>2, GoneAccounted
<1>3. CASE Released(p)
  <2>1. Open' \subseteq Open
    BY <1>1, OpenShrinks
  <2>2. Gathered(m, Lines, OnTime) /\ Following(m, Lines, OnTime, Open, wrote, now) /\ Between(m, live, log, OnTime)
    BY <1>1 DEF Anchoring, Placed, Accounted, Owed, At
  <2>3. /\ n.pc = IF pairs = <<>> THEN "store" ELSE "derive"
        /\ n.off = Idle.off /\ n.next = m.next /\ n.pairs = pairs
    <3> HIDE DEF pairs
    <3> QED  BY <1>1 DEF AfterDeciding, Process, pairs
  <2>4. at \in SUBSET (1..Len(b))
    BY DEF Failures
  <2>5. /\ Len(pairs) = Cardinality(at)
        /\ \A k \in 1..Len(pairs) : pairs[k].f = b[Nth(at, k)]
    BY <1>1, PairsTyped
  <2>6. proc' = [proc EXCEPT ![p] = n]
    BY <1>3 DEF Released
  <2> HIDE DEF n, pairs, at
  <2>7. ASSUME NEW f \in Open', BehindAt(f, n.next)  PROVE  \E k \in 1..Len(n.pairs) : n.pairs[k].f = f.id
    <3>1. f \in Open /\ f \in OnTime
      BY <2>1, <2>7 DEF Open
    <3>2. ~BehindAt(f, m.off)
      BY <2>2, <3>1 DEF Following
    <3>3. f.id \in Range(b)
      BY <2>2, <2>3, <2>7, <3>1, <3>2 DEF Gathered
    <3>4. PICK i \in 1..Len(b) : f.id = b[i]
      BY <1>1, <3>3 DEF Range
    <3>5. i \in Failures(b) /\ Corrected(b, i)
      BY <1>1, <1>3, <2>2, <2>7, <3>4, OpenIsPaired
    <3>6. i \in at
      BY <3>5 DEF at
    <3>7. PICK k \in 1..Cardinality(at) : Nth(at, k) = i
      BY <1>1, <2>4, <3>6, NthOnto
    <3>8. k \in 1..Len(n.pairs) /\ n.pairs[k].f = f.id
      BY <2>3, <2>5, <3>4, <3>7
    <3> QED  BY <3>8
  <2>8. Between(n, live, log, OnTime)
    <3>1. n.off.byte = 0
      BY <2>3 DEF Idle
    <3>2. Aligned(m.next, live, log, OnTime)
      BY <1>1, <2>2 DEF Between, InPassAt, At
    <3> QED  BY <2>3, <3>1, <3>2 DEF Between, Aligned
  <2>9. Owed(n, Lines, OnTime, Open', wrote, now)
    BY <2>3, <2>7 DEF Owed, Owing
  <2> QED  BY <1>1, <2>6, <2>8, <2>9, AccountedInside
<1> QED  BY <1>2, <1>3, DecidingOn

LEMMA StepAccounted ==
  TypeOK /\ TypeOK' /\ Shape /\ Numbered /\ Numbered' /\ Sound /\ Anchoring /\ Accounted /\ [Next]_vars => Accounted'
<1> SUFFICES ASSUME TypeOK, TypeOK', Shape, Numbered, Numbered', Sound, Anchoring, Accounted, [Next]_vars
             PROVE  Accounted'
  OBVIOUS
<1>0. Carried
  BY StepCarried
<1>1. CASE Tick \/ UNCHANGED vars
  <2>1. UNCHANGED <<offset, proc>>
    BY <1>1 DEF Tick, vars
  <2> QED  BY <1>0, <2>1, AccountedStep
<1>2. CASE \E p \in Procs, s \in Sessions, k \in Kinds : Begin(p, s, k)
  BY <1>0, <1>2, BeginAccounted
<1>3. CASE \E p \in Procs : Fix(p)
  BY <1>0, <1>3, GoneAccounted DEF Fix, Goto
<1>4. CASE \E p \in Procs : Write(p) \/ RemoveSegment(p)
  BY <1>0, <1>4, WriteAccounted, RemoveAccounted
<1>5. CASE \E p \in Procs, survives \in BOOLEAN : WriteTorn(p, survives)
  <2>1. PICK p \in Procs, survives \in BOOLEAN : WriteTorn(p, survives)
    BY <1>5
  <2>2. PICK stage \in {"idle", "load", "write"} : proc' = [proc EXCEPT ![p] = GoneTo(p, stage)]
    BY <2>1, PassTyped DEF WriteTorn, Goto
  <2>3. UNCHANGED offset
    BY <2>1 DEF WriteTorn
  <2> QED  BY <1>0, <2>2, <2>3, GoneAccounted
<1>6. CASE \E p \in Procs : Load(p) \/ Read(p) \/ Decide(p)
  BY <1>0, <1>6, LoadAccounted, ReadAccounted, DecideAccounted
<1>7. CASE \E p \in Procs : Derive(p) \/ StoreOffset(p)
  BY <1>0, <1>7, DeriveAccounted, StoreAccounted
<1>8. CASE \E p \in Procs : Stop(p)
  BY <1>0, <1>8, GoneAccounted DEF Stop, Goto
<1> QED  BY <1>1, <1>2, <1>3, <1>4, <1>5, <1>6, <1>7, <1>8 DEF Next

\* A correction the journal holds, on disk before the window closed, has been
\* counted once both of its lines are behind the offset, however many passes
\* overlap, are killed or start over; the exception is a failure whose window
\* closed within the pass that gave it up (derive.go:84).
THEOREM NoCorrectionIsLost == Spec => []CorrectionsCounted
<1> DEFINE Inv == TypeOK /\ Shape /\ Numbered /\ Sound /\ Anchoring /\ Accounted
<1>1. Init => Inv
  BY Started, NumberedAtStart, SoundAtStart, AnchoringAtStart, AccountedAtStart
<1>2. Inv /\ [Next]_vars => Inv'
  BY StepTyped, StepNumbered, StepSound, StepAnchoring, StepAccounted
<1>3. Inv => CorrectionsCounted
  <2> SUFFICES ASSUME Inv, NEW f \in OnTime, NEW s \in OnTime, Behind(f), CorrectedBy(f, s), f.id \notin crossed
               PROVE  counted[f.id] >= 1
    BY DEF CorrectionsCounted
  <2>1. f \notin Open
    BY DEF Accounted, Behind, BehindAt
  <2>2. E(f.id).kind = "fail"
    BY DEF CorrectedBy
  <2>3. counted[f.id] # 0
    BY <2>1, <2>2 DEF Open
  <2>4. counted[f.id] \in Nat
    BY OnTimeLines, LineEntry
  <2> QED  BY <2>3, <2>4
<1> QED  BY <1>1, <1>2, <1>3, PTL DEF Spec
=============================================================================
