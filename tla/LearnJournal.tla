---------------------------- MODULE LearnJournal ----------------------------
(***************************************************************************)
(* The invocation journal and the derivation of flag corrections from it   *)
(* (internal/learn/journal.go, internal/learn/derive.go), as the commands   *)
(* of one user run them at their end (internal/cli/root.go).                *)
(*                                                                         *)
(* Every command appends one line to the segment of the day, deletes old    *)
(* segments, and then runs a derivation pass: read the journal from the     *)
(* stored offset, pair each failed unknown flag with the next invocation of *)
(* its session, record each pair as a candidate, store the new offset.      *)
(* There is no lock: processes interleave at every file operation, a write  *)
(* may be torn, and a process may die anywhere.                             *)
(*                                                                         *)
(* A segment is a sequence of tokens: the JSON text of an entry (its id), a *)
(* newline (NL), or a fragment of an entry (Torn).  Byte offsets count      *)
(* tokens.  A line is read as an entry when it is one whole entry.          *)
(***************************************************************************)
EXTENDS Integers, SequencesExt, Positions

CONSTANTS
  Procs,        \* processes
  Sessions,     \* session keys
  Scripts,      \* the orders in which invocations (session, kind) are started
  TicksPerDay,  \* resolution of the clock
  Window,       \* flagCorrectionWindow, in ticks
  MaxAgeDays,   \* journalMaxSegmentAgeDays
  MaxTotal,     \* journalMaxTotalBytes, in tokens
  MaxEntries,   \* bound: invocations
  MaxNow,       \* bound: the clock
  MaxFaults     \* bound: torn writes, processes killed, failing writes of a pass

\* fail: an unknown flag, registered nowhere in the command tree; fixed: a
\* success that carries the corrected flag; plain: any other invocation of the
\* same command; recall: a recall with a query family, which never derives.
Kinds == {"fail", "fixed", "plain", "recall"}

ASSUME JournalAssumption ==
  /\ Scripts \subseteq Seq(Sessions \X Kinds) /\ TicksPerDay \in Nat \ {0}
  /\ {Window, MaxAgeDays, MaxTotal, MaxNow, MaxFaults} \subseteq Nat /\ MaxEntries \in Nat \ {0}

Ids  == 1..MaxEntries
NL   == 0
Torn == MaxEntries + 1
Days == 0..(MaxNow \div TicksPerDay)

VARIABLES
  now,      \* wall clock
  entries,  \* the invocations so far: session, kind, timestamp
  live,     \* the segments that exist, by day
  log,      \* log[d]: contents of the segment of day d
  offset,   \* journal.offset: segment and byte
  counted,  \* counted[f]: DeriveCandidate calls for the failed invocation f
  proc,     \* the processes
  faults,   \* counter for the bound
  wrote,    \* history: wrote[i]: when the line of i was completed
  late,     \* history: lines completed in a segment that was not the newest
  handed,   \* history: entries a pass consumed, up to storing its offset
  crossed,  \* history: failures whose window closed within a pass
  shared,   \* history: a pass overlapped another, was killed, or failed
  anchors   \* history: the pairs recorded as candidates

files  == <<live, log>>
ghosts == <<wrote, late, handed, crossed, shared, anchors>>
vars   == <<now, entries, files, offset, counted, proc, faults, ghosts>>

Entry  == [session : Sessions, kind : Kinds, ts : 0..MaxNow]
Offset == [day : Days, byte : Nat]
Pair   == [f : Ids, s : Ids, family : 0..MaxEntries]
Stages == {"idle", "fix", "write", "clean", "load",
           "read", "decide", "derive", "store"}

Idle == [pc |-> "idle", id |-> 1, day |-> 0, unlinked |-> FALSE, todo |-> {}, off |-> [day |-> 0, byte |-> 0],
         next |-> [day |-> 0, byte |-> 0], batch |-> <<>>, since |-> 0, pairs |-> <<>>]

\* unlinked: the open segment was deleted; todo: segments still to delete or to
\* read; since: when the pass began.
Process == [pc : Stages, id : Ids, day : Days, unlinked : BOOLEAN, todo : SUBSET Days,
            off : Offset, next : Offset, batch : Seq(Ids), since : 0..MaxNow, pairs : Seq(Pair)]

TypeOK ==
  /\ now \in 0..MaxNow
  /\ entries \in Seq(Entry) /\ Len(entries) <= MaxEntries
  /\ live \subseteq Days
  /\ log \in [Days -> Seq(0..Torn)] /\ \A d \in Days \ live : log[d] = <<>>
  /\ offset \in Offset
  /\ counted \in [Ids -> Nat]
  /\ proc \in [Procs -> Process]
  /\ faults \in 0..MaxFaults
  /\ wrote \in [Ids -> 0..(MaxNow + 1)]
  /\ {late, handed, crossed} \subseteq SUBSET Ids
  /\ shared \in BOOLEAN
  /\ anchors \subseteq Pair

Init ==
  /\ now = 0 /\ entries = <<>>
  /\ live = {} /\ log = [d \in Days |-> <<>>]
  /\ offset = [day |-> 0, byte |-> 0]
  /\ counted = [i \in Ids |-> 0]
  /\ proc = [p \in Procs |-> Idle]
  /\ faults = 0
  /\ wrote = [i \in Ids |-> MaxNow + 1]
  /\ late = {} /\ handed = {} /\ crossed = {} /\ shared = FALSE /\ anchors = {}

-----------------------------------------------------------------------------
At(p, stage) == proc[p].pc = stage

GoneTo(p, stage) == IF stage = "idle" THEN Idle ELSE [proc[p] EXCEPT !.pc = stage]
Goto(p, stage)   == proc' = [proc EXCEPT ![p] = GoneTo(p, stage)]

InPass(p) == proc[p].pc \in {"read", "decide", "derive", "store"}

\* journalSegmentNameFor
SegmentOf(t) == t \div TicksPerDay

\* Lines of a segment behind byte from that are one whole entry each, and the
\* end of the last complete line.
LinesAfter(data, from) ==
  {i \in from + 1 .. Len(data) - 1 :
     data[i] \in Ids /\ data[i + 1] = NL /\ (i = from + 1 \/ data[i - 1] = NL)}
ConsumedToTheEnd(data, from) == Len(data)   \* mutant: the torn tail too
Consumed(data, from) == Max({from} \cup {i \in from + 1 .. Len(data) : data[i] = NL})
EntriesAt(data, from) == Picked(data, LinesAfter(data, from))

Smaller(a, b) == IF a < b THEN a ELSE b

-----------------------------------------------------------------------------
\* Appending.

\* Mutant: the segment is opened without O_CREATE, after no repair.
BeginWithoutCreate(p, s, k) ==
  /\ At(p, "idle") /\ Len(entries) < MaxEntries
  /\ entries' = Append(entries, [session |-> s, kind |-> k, ts |-> now])
  /\ proc' = [proc EXCEPT ![p].pc = "write", ![p].id = Len(entries) + 1, ![p].day = SegmentOf(now)]
  /\ UNCHANGED <<now, files, offset, counted, faults, ghosts>>

\* A command ends: AppendJournalEntry fills in the timestamp and computes the
\* segment's name.  repairJournalSegmentTail then reads the last byte; when
\* there is nothing to repair, OpenFile with O_CREATE follows.
Begin(p, s, k) ==
  /\ At(p, "idle") /\ Len(entries) < MaxEntries
  /\ \E script \in Scripts : IsPrefix([i \in 1..Len(entries) + 1 |->
       IF i > Len(entries) THEN <<s, k>> ELSE <<entries[i].session, entries[i].kind>>], script)
  /\ entries' = Append(entries, [session |-> s, kind |-> k, ts |-> now])
  /\ LET d == SegmentOf(now)
         repaired == log[d] = <<>> \/ Last(log[d]) = NL IN
     /\ proc' = [proc EXCEPT ![p].pc = IF repaired THEN "write" ELSE "fix",
                             ![p].id = Len(entries) + 1, ![p].day = d]
     /\ live' = IF repaired THEN live \cup {d} ELSE live
  /\ UNCHANGED <<now, log, offset, counted, faults, ghosts>>

\* What d's segment holds after piece was appended: the lines this completes
\* are recorded, and whether their segment was the newest.
AppendTo(d, piece) ==
  LET data  == log[d] \o piece
      fresh == {data[i] : i \in LinesAfter(data, 0) \ LinesAfter(log[d], 0)} IN
  /\ log' = [log EXCEPT ![d] = data]
  /\ wrote' = [i \in Ids |-> IF i \in fresh THEN now ELSE wrote[i]]
  /\ late' = IF \E e \in live : e > d THEN late \cup fresh ELSE late

\* The newline that ends a torn line, then OpenFile.  A file deleted since it
\* was inspected takes the newline with it, and is created again.
Fix(p) ==
  /\ At(p, "fix") /\ Goto(p, "write")
  /\ IF proc[p].day \in live THEN AppendTo(proc[p].day, <<NL>>) ELSE UNCHANGED <<log, wrote, late>>
  /\ live' = live \cup {proc[p].day}
  /\ UNCHANGED <<now, entries, offset, counted, faults, handed, crossed, shared, anchors>>

\* After its journal line a command derives, unless it is of the learn family.
PassOf(p) == IF entries[proc[p].id].kind = "recall" THEN "idle" ELSE "load"

\* The segments cleanupJournalSegments deletes of those it listed: from the
\* oldest, as long as they are too old or the rest is too big; never the newest.
Prunable(listed, held) ==
  LET sizeFrom(d) == FoldSet(LAMBDA e, n : n + Len(held[e]), 0, {e \in listed : e >= d})
      tooOld(d)   == d * TicksPerDay + MaxAgeDays * TicksPerDay < now IN
  {d \in listed : /\ \E e \in listed : e > d
                  /\ \A e \in listed : e <= d => tooOld(e) \/ sizeFrom(e) > MaxTotal}

\* The single O_APPEND write, and the listing cleanupJournalSegments starts
\* with.  A segment deleted after it was opened takes the entry with it.
Write(p) ==
  /\ At(p, "write")
  /\ IF proc[p].unlinked THEN UNCHANGED <<log, wrote, late>>
     ELSE AppendTo(proc[p].day, <<proc[p].id, NL>>)
  /\ LET victims == Prunable(live, log') IN
     IF victims = {} THEN Goto(p, PassOf(p))
     ELSE proc' = [proc EXCEPT ![p].pc = "clean", ![p].todo = victims]
  /\ UNCHANGED <<now, entries, live, offset, counted, faults, handed, crossed, shared, anchors>>

\* The write stops half way: within the entry, or before its newline.  Cleanup
\* is skipped; the command goes on, or dies with the write.
WriteTorn(p, survives) ==
  /\ At(p, "write") /\ faults < MaxFaults
  /\ faults' = faults + 1
  /\ Goto(p, IF survives THEN PassOf(p) ELSE "idle")
  /\ IF proc[p].unlinked THEN UNCHANGED <<log, wrote, late>>
     ELSE \E rest \in {Torn, proc[p].id} : AppendTo(proc[p].day, <<rest>>)
  /\ UNCHANGED <<now, entries, live, offset, counted, handed, crossed, shared, anchors>>

\* os.Remove of the oldest; a segment that is already gone ends the cleanup.
RemoveSegment(p) ==
  /\ At(p, "clean")
  /\ LET d == Min(proc[p].todo)
         more == d \in live /\ proc[p].todo # {d} IN
     /\ live' = live \ {d}
     /\ log' = [log EXCEPT ![d] = <<>>]
     /\ proc' = [q \in Procs |->
          IF q = p THEN IF more THEN [proc[p] EXCEPT !.todo = @ \ {d}]
                        ELSE [GoneTo(p, PassOf(p)) EXCEPT !.todo = {}]
          ELSE IF At(q, "write") /\ proc[q].day = d THEN [proc[q] EXCEPT !.unlinked = TRUE]
          ELSE proc[q]]
  /\ UNCHANGED <<now, entries, offset, counted, faults, ghosts>>

-----------------------------------------------------------------------------
\* Deriving.

\* LoadJournalOffset, and the listing ReadJournalFrom starts with.
Load(p) ==
  /\ At(p, "load")
  /\ LET todo == {d \in live : d >= offset.day} IN
     proc' = [proc EXCEPT ![p] = [Idle EXCEPT
       !.pc = IF todo = {} THEN "decide" ELSE "read", !.id = proc[p].id, !.todo = todo,
       !.off = offset, !.next = offset, !.since = now]]
  /\ shared' = (shared \/ \E q \in Procs \ {p} : InPass(q))
  /\ UNCHANGED <<now, entries, files, offset, counted, faults, wrote, late, handed, crossed, anchors>>

\* ReadJournalFrom, one segment: a tail without newline is left for later.
Read(p) ==
  /\ At(p, "read")
  /\ LET m    == proc[p]
         d    == Min(m.todo)
         rest == m.todo \ {d}
         from == IF d = m.off.day THEN Smaller(m.off.byte, Len(log[d])) ELSE 0 IN
     proc' = [proc EXCEPT ![p] = [m EXCEPT
       !.todo  = rest,
       !.pc    = IF rest = {} THEN "decide" ELSE "read",
       !.batch = IF d \in live THEN m.batch \o EntriesAt(log[d], from) ELSE m.batch,
       !.next  = IF d \in live THEN [day |-> d, byte |-> Consumed(log[d], from)] ELSE m.next]]
  /\ UNCHANGED <<now, entries, files, offset, counted, faults, ghosts>>

E(i) == entries[i]

\* Mutant: only the batch is searched for the recall.
SeedFamilyNone(off, session) == 0

\* scanRecallFamiliesReverse splits at newlines: the last piece counts as a line.
Pieces(data) == LinesAfter(Append(data, NL), 0)

\* sessionRecallFamiliesBeforeBatch: the last recall of the session in front of
\* the offset, from a second look at the files; 0 for none.
SeedFamily(off, session) ==
  LET before(d) == SubSeq(log[d], 1, IF d = off.day THEN Smaller(off.byte, Len(log[d])) ELSE Len(log[d]))
      recalls(d) == {i \in Pieces(before(d)) :
                       E(log[d][i]).kind = "recall" /\ E(log[d][i]).session = session}
      days == {d \in live : d <= off.day /\ recalls(d) # {}} IN
  IF off = [day |-> 0, byte |-> 0] \/ days = {} THEN 0
  ELSE log[Max(days)][Max(recalls(Max(days)))]

\* The last recall of the session in the batch in front of position i.
Family(batch, off, i) ==
  LET session == E(batch[i]).session
      recalls == {j \in 1..i - 1 : E(batch[j]).kind = "recall" /\ E(batch[j]).session = session} IN
  IF recalls = {} THEN SeedFamily(off, session) ELSE batch[Max(recalls)]

\* pairFlagCorrections: the next invocation of the command in the session
\* decides about a failure.
Failures(batch) == {i \in 1..Len(batch) : E(batch[i]).kind = "fail"}
Retries(batch, i) ==
  {j \in i + 1..Len(batch) : E(batch[j]).session = E(batch[i]).session /\ E(batch[j]).kind # "recall"}
PendingNever(batch) == FALSE   \* mutant: a batch is never held
Pending(batch) ==
  \E i \in Failures(batch) : Retries(batch, i) = {} /\ now <= E(batch[i]).ts + Window
Corrected(batch, i) ==
  /\ Retries(batch, i) # {}
  /\ LET f == E(batch[i])
         s == E(batch[Min(Retries(batch, i))]) IN
     s.kind = "fixed" /\ f.ts <= s.ts /\ s.ts <= f.ts + Window
PairsOf(batch, off) ==
  LET at == {i \in Failures(batch) : Corrected(batch, i)} IN
  [k \in 1..Cardinality(at) |->
    LET i == Nth(at, k) IN
    [f |-> batch[i], s |-> batch[Min(Retries(batch, i))], family |-> Family(batch, off, i)]]

\* DeriveFlagCorrections between reading and recording: nothing new, a pending
\* failure that holds the whole batch, or pairs to record.
Decide(p) ==
  /\ At(p, "decide")
  /\ LET b == proc[p].batch
         hold == (b = <<>> /\ proc[p].next = proc[p].off) \/ Pending(b)
         pairs == PairsOf(b, proc[p].off) IN
     /\ IF hold THEN Goto(p, "idle") /\ UNCHANGED crossed
        ELSE /\ proc' = [proc EXCEPT ![p].pairs = pairs, ![p].since = 0,
                                     ![p].off = Idle.off, ![p].pc = IF pairs = <<>> THEN "store" ELSE "derive"]
             /\ crossed' = crossed \cup
                  {b[i] : i \in {j \in Failures(b) : /\ Retries(b, j) = {}
                                                     /\ proc[p].since <= E(b[j]).ts + Window
                                                     /\ now > E(b[j]).ts + Window}}
  /\ UNCHANGED <<now, entries, files, offset, counted, faults, wrote, late, handed, shared, anchors>>

\* DeriveCandidate for the next pair: one transaction.
Derive(p) ==
  /\ At(p, "derive")
  /\ LET pair == Head(proc[p].pairs) IN
     /\ counted' = [counted EXCEPT ![pair.f] = @ + 1]
     /\ anchors' = anchors \cup {pair}
     /\ proc' = [proc EXCEPT ![p].pairs = Tail(@),
                             ![p].pc = IF Len(proc[p].pairs) = 1 THEN "store" ELSE "derive"]
  /\ UNCHANGED <<now, entries, files, offset, faults, wrote, late, handed, crossed, shared>>

\* Mutant: the offset does not advance.
StoreOffsetNot(p) ==
  /\ At(p, "store") /\ Goto(p, "idle")
  /\ handed' = handed \cup Range(proc[p].batch)
  /\ UNCHANGED <<now, entries, files, offset, counted, faults, wrote, late, crossed, shared, anchors>>

\* StoreJournalOffset: an atomic replacement of the file.
StoreOffset(p) ==
  /\ At(p, "store") /\ Goto(p, "idle")
  /\ offset' = proc[p].next
  /\ handed' = handed \cup Range(proc[p].batch)
  /\ UNCHANGED <<now, entries, files, counted, faults, wrote, late, crossed, shared, anchors>>

\* The process is killed, or the candidate or offset write fails: the pass
\* ends and the offset stays.
Stop(p) ==
  /\ ~At(p, "idle") /\ faults < MaxFaults
  /\ faults' = faults + 1
  /\ Goto(p, "idle")
  /\ shared' = (shared \/ InPass(p))
  /\ UNCHANGED <<now, entries, files, offset, counted, wrote, late, handed, crossed, anchors>>

Tick ==
  /\ now < MaxNow /\ now' = now + 1
  /\ UNCHANGED <<entries, files, offset, counted, proc, faults, ghosts>>

Next ==
  \/ Tick
  \/ \E p \in Procs :
       \/ \E s \in Sessions, k \in Kinds : Begin(p, s, k)
       \/ Fix(p) \/ Write(p)
       \/ \E survives \in BOOLEAN : WriteTorn(p, survives)
       \/ RemoveSegment(p)
       \/ Load(p) \/ Read(p) \/ Decide(p) \/ Derive(p) \/ StoreOffset(p) \/ Stop(p)

Spec == Init /\ [][Next]_vars
-----------------------------------------------------------------------------
\* The lines the journal holds now: entry, day, position.
Lines == UNION {{[id |-> log[d][k], day |-> d, at |-> k] : k \in LinesAfter(log[d], 0)} : d \in live}
OnTime == {x \in Lines : x.id \notin late}
Before(x, y) == x.day < y.day \/ (x.day = y.day /\ x.at < y.at)
Behind(x)    == x.day < offset.day \/ (x.day = offset.day /\ x.at <= offset.byte)

\* "A failed pass can never skip unprocessed entries" (derive.go:68): whatever
\* lies behind the stored offset was consumed by a pass that got as far as
\* storing an offset, however appends, torn lines, deletions and passes
\* interleave.  The one exception is a line completed in a segment that was no
\* longer the newest.
NothingSkipped == \A x \in OnTime : Behind(x) => x.id \in handed

\* f was corrected by s: the next invocation of its session, within the window,
\* and on disk before the window closed.
Retry(x, f) == E(x.id).session = E(f.id).session /\ E(x.id).kind # "recall" /\ Before(f, x)
CorrectedBy(f, s) ==
  /\ E(f.id).kind = "fail" /\ E(s.id).kind = "fixed" /\ Retry(s, f)
  /\ E(f.id).ts <= E(s.id).ts /\ wrote[s.id] <= E(f.id).ts + Window
  /\ \A m \in Lines : Retry(m, f) => ~Before(m, s)

\* A correction the journal holds is not lost: once both lines are behind the
\* offset it has been counted, unless the window closed between the reading and
\* the decision of the pass that gave the failure up.  This is what holding the
\* whole batch for a pending failure is for (derive.go:84).
CorrectionsCounted ==
  LET behind == {x \in OnTime : Behind(x)} IN
  \A f \in behind, s \in behind :
    CorrectedBy(f, s) /\ f.id \notin crossed => counted[f.id] >= 1

\* Passes that neither overlap nor fail count a correction once, also when the
\* batch was held and read again.
CountedOnceAlone == ~shared => \A f \in Ids : counted[f] <= 1

\* The query family of a candidate is that of the last recall of its session
\* in front of the failure, whether that recall is in the batch or was consumed
\* by an earlier pass (derive.go:287).
AnchoredToLastRecall ==
  \A a \in anchors : \A f \in OnTime, r \in OnTime :
    /\ f.id = a.f /\ E(r.id).kind = "recall" /\ E(r.id).session = E(a.f).session /\ Before(r, f)
    => /\ a.family # 0
       /\ \A l \in OnTime : l.id = a.family => ~Before(l, r)

=============================================================================
