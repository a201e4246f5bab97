-------------------------- MODULE SyncCommandProofs --------------------------
(***************************************************************************)
(* SyncCommand for any processes, pool, resources and command lines: its     *)
(* types, that no stamp is ahead of the rows it speaks for, and that a       *)
(* command reports what it was given.                                       *)
(*                                                                         *)
(* That a stamp never overtakes the rows is not inductive by itself: the     *)
(* answer that a goroutine is about to stamp must be in the store already    *)
(* (Carried), and a command that has not started its goroutines, or waits    *)
(* for one refresh, must have no other running (Staged).                    *)
(***************************************************************************)
EXTENDS SyncCommand, FiniteSetTheorems, SequenceTheorems, TLAPS

\* Which goroutines may run, and what of the list is left.
Staged ==
  \A p \in Procs :
    /\ proc[p].pc \in {"idle", "stamp", "decide"} => \A w \in Workers : unit[p][w].pc = "off"
    /\ proc[p].pc = "refresh" => \A w \in Workers \ {Lead} : unit[p][w].pc = "off"
    /\ proc[p].pc \in {"stamp", "feed"} => proc[p].next <= Len(proc[p].job.resources)

\* What is about to be stamped is in the store.
Carried ==
  \A p \in Procs : \A w \in Workers :
    unit[p][w].pc = "stamp" => unit[p][w].from <= answered[unit[p][w].resource]

Typed ==
  /\ now \in 0..MaxTime
  /\ sync \in [Resources -> [at : Times, from : Times]] /\ answered \in [Resources -> Times]
  /\ proc \in [Procs -> Proc] /\ unit \in [Procs -> [Workers -> Unit]]
  /\ runs \in [Procs -> 0..MaxRuns] /\ kills \in 0..MaxKills

Inv == Typed /\ Staged /\ Carried /\ StampAfterRows

-----------------------------------------------------------------------------
\* The records that a command and a goroutine start from.
LEMMA OffTyped == Off \in Unit /\ Off.pc = "off"
  BY SyncCommandAssumption DEF Off, Unit, Times, Never, Results

LEMMA FreshTyped ==
  ASSUME NEW job \in Lines
  PROVE  Fresh(job) \in Proc /\ Fresh(job).pc = "idle" /\ Fresh(job).next = 1
         /\ Fresh(job).job = job
<1> <<>> \in Seq(Resources) /\ [o \in Resources \X Results |-> 0] \in [Resources \X Results -> Nat]
  OBVIOUS
<1> QED  BY DEF Fresh, Proc, Verdicts

LEMMA InitInv == Init => Inv
<1> SUFFICES ASSUME Init PROVE Inv
  OBVIOUS
<1>1. Never \in Times /\ 0 \in 0..MaxTime /\ 0 \in 0..MaxRuns /\ 0 \in 0..MaxKills
  BY SyncCommandAssumption DEF Times
<1>2. \A p \in Procs : (CHOOSE job \in Jobs[p] : TRUE) \in Lines
  BY SyncCommandAssumption
<1>3. \A p \in Procs : proc[p] \in Proc /\ proc[p].pc = "idle"
  BY <1>2, FreshTyped DEF Init
<1>4. \A p \in Procs : \A w \in Workers : unit[p][w] \in Unit /\ unit[p][w].pc = "off"
  BY OffTyped DEF Init
<1>5. Typed
  BY <1>1, <1>3, <1>4 DEF Init, Typed
<1>6. Staged /\ Carried
  BY <1>3, <1>4 DEF Staged, Carried
<1>7. StampAfterRows
  BY DEF Init, StampAfterRows, Never
<1> QED  BY <1>5, <1>6, <1>7 DEF Inv

-----------------------------------------------------------------------------
\* What a goroutine that runs syncResource is given, and leaves behind, as one
\* step of it sees: it stays in its process, and stamps only what is stored.
LEMMA UnitStep ==
  ASSUME Inv, NEW p \in Procs, NEW w \in Workers, unit[p][w].pc # "off",
         NEW u \in Unit, unit' = [unit EXCEPT ![p][w] = u],
         NEW m \in Proc, proc' = [proc EXCEPT ![p] = m],
         m.pc = proc[p].pc, m.next = proc[p].next, m.job = proc[p].job,
         answered' \in [Resources -> Times], \A r \in Resources : answered[r] <= answered'[r],
         u.pc = "stamp" => u.from <= answered'[u.resource]
  PROVE  /\ proc' \in [Procs -> Proc] /\ unit' \in [Procs -> [Workers -> Unit]]
         /\ Staged' /\ Carried'
<1>1. unit' \in [Procs -> [Workers -> Unit]] /\ proc' \in [Procs -> Proc]
  BY DEF Inv, Typed
<1>2. \A q \in Procs : /\ proc'[q].pc = proc[q].pc /\ proc'[q].next = proc[q].next
                       /\ proc'[q].job = proc[q].job
  BY DEF Inv, Typed
<1>3. \A q \in Procs : \A v \in Workers :
         unit'[q][v] = IF q = p /\ v = w THEN u ELSE unit[q][v]
  BY DEF Inv, Typed
<1>4. Staged'
  BY <1>2, <1>3 DEF Inv, Staged
<1>5. ASSUME NEW q \in Procs, NEW v \in Workers, unit'[q][v].pc = "stamp"
      PROVE  unit'[q][v].from <= answered'[unit'[q][v].resource]
  <2>1. CASE q = p /\ v = w
    BY <2>1, <1>3, <1>5
  <2>2. CASE ~(q = p /\ v = w)
    <3>1. unit'[q][v] = unit[q][v] /\ unit[q][v] \in Unit
      BY <2>2, <1>3 DEF Inv, Typed
    <3>2. /\ unit[q][v].resource \in Resources /\ unit[q][v].from \in Times
          /\ unit[q][v].from <= answered[unit[q][v].resource]
      BY <3>1, <1>5 DEF Inv, Carried, Unit
    <3>3. \A r \in Resources : answered[r] \in Int /\ answered'[r] \in Int
      BY SyncCommandAssumption DEF Inv, Typed, Times, Never
    <3>4. unit[q][v].from \in Int
      BY <3>2, SyncCommandAssumption DEF Times, Never
    <3> QED  BY <3>1, <3>2, <3>3, <3>4
  <2> QED  BY <2>1, <2>2
<1> QED  BY <1>1, <1>4, <1>5 DEF Carried

LEMMA TakeInv ==
  ASSUME Inv, NEW p \in Procs, NEW w \in Workers, Take(p, w)
  PROVE  Inv'
<1> DEFINE u == [Off EXCEPT !.pc = "fetch", !.resource = Head(proc[p].work)]
           m == [proc[p] EXCEPT !.work = Tail(@)]
<1>1. proc[p] \in Proc /\ proc[p].work \in Seq(Resources) /\ proc[p].work # <<>>
  BY DEF Inv, Typed, Proc, Take
<1>2. Head(proc[p].work) \in Resources /\ Tail(proc[p].work) \in Seq(Resources)
  BY <1>1
<1>3. u \in Unit /\ u.pc = "fetch"
  BY <1>2, OffTyped DEF Unit
<1>4. m \in Proc /\ m.pc = proc[p].pc /\ m.next = proc[p].next /\ m.job = proc[p].job
  BY <1>1, <1>2 DEF Proc
<1>5. /\ unit[p][w].pc # "off" /\ unit' = [unit EXCEPT ![p][w] = u]
      /\ proc' = [proc EXCEPT ![p] = m] /\ UNCHANGED <<now, sync, answered, runs, kills>>
  BY DEF Take, Is
<1>6. answered' \in [Resources -> Times] /\ \A r \in Resources : answered[r] <= answered'[r]
  BY <1>5, SyncCommandAssumption DEF Inv, Typed, Times, Never
<1>7. /\ proc' \in [Procs -> Proc] /\ unit' \in [Procs -> [Workers -> Unit]]
      /\ Staged' /\ Carried'
  <2> HIDE DEF u, m
  <2> QED  BY UnitStep, <1>3, <1>4, <1>5, <1>6
<1> QED  BY <1>5, <1>7 DEF Inv, Typed, StampAfterRows

\* The same when only the goroutine moves.
LEMMA UnitAlone ==
  ASSUME Inv, NEW p \in Procs, NEW w \in Workers, unit[p][w].pc # "off",
         NEW u \in Unit, unit' = [unit EXCEPT ![p][w] = u], u.pc = "stamp" => u.from = Never,
         UNCHANGED <<proc, answered>>
  PROVE  /\ proc' \in [Procs -> Proc] /\ unit' \in [Procs -> [Workers -> Unit]]
         /\ Staged' /\ Carried'
<1>1. proc[p] \in Proc /\ proc' = [proc EXCEPT ![p] = proc[p]]
  BY DEF Inv, Typed
<1>2. answered' \in [Resources -> Times] /\ \A r \in Resources : answered[r] <= answered'[r]
  BY SyncCommandAssumption DEF Inv, Typed, Times, Never
<1>3. u.pc = "stamp" => u.from <= answered'[u.resource]
  BY <1>2, SyncCommandAssumption DEF Unit, Times, Never
<1> QED  BY UnitStep, <1>1, <1>2, <1>3

LEMMA LeaveInv ==
  ASSUME Inv, NEW p \in Procs, NEW w \in Workers, Leave(p, w)
  PROVE  Inv'
<1>1. /\ unit[p][w].pc # "off" /\ unit' = [unit EXCEPT ![p][w] = Off]
      /\ UNCHANGED <<now, sync, answered, proc, runs, kills>>
  BY DEF Leave, Is
<1>2. /\ proc' \in [Procs -> Proc] /\ unit' \in [Procs -> [Workers -> Unit]]
      /\ Staged' /\ Carried'
  BY <1>1, UnitAlone, OffTyped
<1> QED  BY <1>1, <1>2 DEF Inv, Typed, StampAfterRows

\* What Go leaves in a goroutine.
LEMMA GoTyped ==
  ASSUME Inv, NEW p \in Procs, NEW w \in Workers,
         NEW stage \in {"store", "stamp", "send"}, NEW from \in Times, NEW result \in Results,
         Go(p, w, stage, from, result)
  PROVE  \E u \in Unit : /\ unit' = [unit EXCEPT ![p][w] = u] /\ u.pc = stage /\ u.from = from
                         /\ u.resource = unit[p][w].resource
<1> DEFINE u == [unit[p][w] EXCEPT !.pc = stage, !.from = from, !.result = result]
<1>1. unit[p][w] \in Unit
  BY DEF Inv, Typed
<1>2. u \in Unit /\ u.pc = stage /\ u.from = from /\ u.resource = unit[p][w].resource
  BY <1>1 DEF Unit
<1>3. unit' = [unit EXCEPT ![p][w] = u]
  BY DEF Go, Inv, Typed, Unit
<1> QED  BY <1>2, <1>3

LEMMA FetchInv ==
  ASSUME Inv, NEW p \in Procs, NEW w \in Workers, NEW answer \in Answers(p), Fetch(p, w, answer)
  PROVE  Inv'
<1>1. /\ unit[p][w].pc # "off" /\ UNCHANGED <<now, sync, answered, proc, runs, kills>>
  BY DEF Fetch, Is
<1>2. now \in Times /\ Never \in Times
  BY DEF Inv, Typed, Times
<1>3. \E stage \in {"store", "stamp", "send"} : \E from \in Times : \E result \in Results :
        Go(p, w, stage, from, result) /\ (stage = "stamp" => from = Never)
  <2>1. answer \in {"error", "denied", "preview", "garbled", "unkeyed", "page"}
    BY DEF Answers
  <2> QED  BY <2>1, <1>2 DEF Fetch, Results
<1>4. \E u \in Unit : /\ unit' = [unit EXCEPT ![p][w] = u] /\ (u.pc = "stamp" => u.from = Never)
  BY <1>3, GoTyped
<1>5. /\ proc' \in [Procs -> Proc] /\ unit' \in [Procs -> [Workers -> Unit]]
      /\ Staged' /\ Carried'
  BY <1>1, <1>4, UnitAlone
<1> QED  BY <1>1, <1>5 DEF Inv, Typed, StampAfterRows

\* Keep never takes an answer back, and afterwards covers the one it was given.
LEMMA KeepCovers ==
  ASSUME Inv, NEW r \in Resources, NEW from \in Times, Keep(r, from)
  PROVE  /\ answered' \in [Resources -> Times] /\ \A q \in Resources : answered[q] <= answered'[q]
         /\ from <= answered'[r]
<1>1. \A t \in Times : t \in Int
  BY SyncCommandAssumption DEF Times, Never
<1>2. answered \in [Resources -> Times]
  BY DEF Inv, Typed
<1>3. \A q \in Resources : answered'[q] = IF q = r /\ answered[r] < from THEN from ELSE answered[q]
  BY <1>2 DEF Keep
<1>4. answered' \in [Resources -> Times]
  BY <1>2 DEF Keep
<1> QED  BY <1>1, <1>2, <1>3, <1>4

LEMMA StoreInv ==
  ASSUME Inv, NEW p \in Procs, NEW w \in Workers, NEW outcome \in {"stored", "failed", "unrecorded"},
         Store(p, w, outcome)
  PROVE  Inv'
<1>1. /\ unit[p][w].pc # "off" /\ UNCHANGED <<now, sync, proc, runs, kills>>
      /\ unit[p][w] \in Unit /\ proc[p] \in Proc /\ proc' = [proc EXCEPT ![p] = proc[p]]
  BY DEF Store, Is, Inv, Typed
<1>2. /\ unit[p][w].from \in Times /\ unit[p][w].resource \in Resources /\ Never \in Times
      /\ \A t \in Times : t \in Int
  BY <1>1, SyncCommandAssumption DEF Unit, Times, Never
<1>3. /\ answered' \in [Resources -> Times] /\ \A q \in Resources : answered[q] <= answered'[q]
      /\ outcome # "failed" => unit[p][w].from <= answered'[unit[p][w].resource]
  BY <1>2, KeepCovers DEF Store, Resource, Inv, Typed
<1>4. \E u \in Unit : /\ unit' = [unit EXCEPT ![p][w] = u] /\ u.resource = unit[p][w].resource
                      /\ (u.pc = "stamp" => outcome = "stored" /\ u.from = unit[p][w].from)
  <2>1. CASE outcome = "stored"
    <3>1. Go(p, w, "stamp", unit[p][w].from, "success")
      BY <2>1 DEF Store
    <3>2. "success" \in Results
      BY DEF Results
    <3> QED  BY <2>1, <3>1, <3>2, <1>2, GoTyped
  <2>2. CASE outcome # "stored"
    <3>1. Go(p, w, "send", Never, "err")
      BY <2>2 DEF Store
    <3>2. "err" \in Results
      BY DEF Results
    <3> QED  BY <2>2, <3>1, <3>2, <1>2, GoTyped
  <2> QED  BY <2>1, <2>2
<1>5. /\ proc' \in [Procs -> Proc] /\ unit' \in [Procs -> [Workers -> Unit]]
      /\ Staged' /\ Carried'
  <2>1. PICK u \in Unit : /\ unit' = [unit EXCEPT ![p][w] = u] /\ u.resource = unit[p][w].resource
                         /\ (u.pc = "stamp" => outcome = "stored" /\ u.from = unit[p][w].from)
    BY <1>4
  <2>2. u.pc = "stamp" => u.from <= answered'[u.resource]
    BY <2>1, <1>3
  <2> QED  BY <1>1, <1>3, <2>1, <2>2, UnitStep, ZenonT(60)
<1>6. StampAfterRows'
  <2>1. \A r \in Resources : sync[r].from \in Times /\ sync[r].from <= answered[r]
                             /\ answered[r] \in Times /\ answered'[r] \in Times
    BY <1>3 DEF Inv, Typed, StampAfterRows
  <2> QED  BY <2>1, <1>1, <1>2, <1>3 DEF StampAfterRows
<1> QED  BY <1>1, <1>3, <1>5, <1>6 DEF Inv, Typed

\* A stamp that lands has, by Carried, an answer behind it that is stored.
LEMMA StampInv ==
  ASSUME Inv, NEW p \in Procs, NEW w \in Workers, NEW landed \in BOOLEAN, Stamp(p, w, landed)
  PROVE  Inv'
<1> DEFINE u == [unit[p][w] EXCEPT !.pc = "send", !.from = Never]
<1>1. /\ unit[p][w].pc = "stamp" /\ UNCHANGED <<now, answered, proc, runs, kills>>
      /\ unit[p][w] \in Unit
  BY DEF Stamp, Is, Inv, Typed
<1>2. Never \in Times /\ now \in Times /\ unit[p][w].from \in Times /\ unit[p][w].resource \in Resources
  BY <1>1 DEF Unit, Times, Inv, Typed
<1>3. u \in Unit /\ u.pc = "send"
  BY <1>1, <1>2 DEF Unit
<1>4. unit' = [unit EXCEPT ![p][w] = u]
  BY DEF Stamp, Inv, Typed, Unit
<1>5. /\ proc' \in [Procs -> Proc] /\ unit' \in [Procs -> [Workers -> Unit]]
      /\ Staged' /\ Carried'
  <2> HIDE DEF u
  <2> QED  BY <1>1, <1>3, <1>4, UnitAlone
<1>6. unit[p][w].from <= answered[unit[p][w].resource]
  BY <1>1 DEF Inv, Carried
<1>7. \/ sync' = sync
      \/ sync' = [sync EXCEPT ![unit[p][w].resource] = [at |-> now, from |-> unit[p][w].from]]
  BY DEF Stamp, SaveSyncState, Resource
<1>8. sync' \in [Resources -> [at : Times, from : Times]]
  BY <1>2, <1>7 DEF Inv, Typed
<1>9. StampAfterRows'
  BY <1>1, <1>2, <1>6, <1>7 DEF Inv, Typed, StampAfterRows
<1> QED  BY <1>1, <1>5, <1>8, <1>9 DEF Inv, Typed

\* One more in the report.
LEMMA ReportTyped ==
  ASSUME NEW m \in Proc, NEW o \in Resources \X Results
  PROVE  LET n == [m EXCEPT !.report = [m.report EXCEPT ![o] = @ + 1]]
         IN  n \in Proc /\ n.pc = m.pc /\ n.next = m.next /\ n.job = m.job
<1>1. m.report \in [Resources \X Results -> Nat]
  BY DEF Proc
<1>2. [m.report EXCEPT ![o] = @ + 1] \in [Resources \X Results -> Nat]
  BY <1>1
<1> QED  BY <1>2 DEF Proc

\* What Send and RefreshResult do.
Sent(p, w, u) ==
  /\ unit[p][w].pc = "send" /\ unit' = [unit EXCEPT ![p][w] = u]
  /\ proc' = [proc EXCEPT ![p].report[Outcome(p, w)] = @ + 1]
  /\ UNCHANGED <<now, sync, answered, runs, kills>>

LEMMA SentInv ==
  ASSUME Inv, NEW p \in Procs, NEW w \in Workers, NEW u \in Unit, u.pc # "stamp", Sent(p, w, u)
  PROVE  Inv'
<1> DEFINE m == [proc[p] EXCEPT !.report = [proc[p].report EXCEPT ![Outcome(p, w)] = @ + 1]]
<1>1. Outcome(p, w) \in Resources \X Results /\ proc[p] \in Proc
  BY DEF Outcome, Resource, Inv, Typed, Unit
<1>2. m \in Proc /\ m.pc = proc[p].pc /\ m.next = proc[p].next /\ m.job = proc[p].job
  BY <1>1, ReportTyped
<1>3. proc' = [proc EXCEPT ![p] = m]
  BY DEF Sent, Inv, Typed, Proc
<1>4. /\ unit' = [unit EXCEPT ![p][w] = u] /\ unit[p][w].pc # "off"
      /\ UNCHANGED <<now, sync, answered, runs, kills>>
  BY DEF Sent
<1>5. answered' \in [Resources -> Times] /\ \A r \in Resources : answered[r] <= answered'[r]
  BY <1>4, SyncCommandAssumption DEF Inv, Typed, Times, Never
<1>6. /\ proc' \in [Procs -> Proc] /\ unit' \in [Procs -> [Workers -> Unit]]
      /\ Staged' /\ Carried'
  <2> HIDE DEF m
  <2> QED  BY <1>2, <1>3, <1>4, <1>5, UnitStep
<1> QED  BY <1>4, <1>6 DEF Inv, Typed, StampAfterRows

LEMMA SendInv ==
  ASSUME Inv, NEW p \in Procs, NEW w \in Workers, Send(p, w)
  PROVE  Inv'
<1>1. [Off EXCEPT !.pc = "take"] \in Unit /\ [Off EXCEPT !.pc = "take"].pc # "stamp"
  BY OffTyped DEF Unit
<1>2. Sent(p, w, [Off EXCEPT !.pc = "take"])
  BY DEF Send, Sent, Is
<1> QED  BY <1>1, <1>2, SentInv

LEMMA RefreshResultInv ==
  ASSUME Inv, NEW p \in Procs, RefreshResult(p)
  PROVE  Inv'
<1>1. Sent(p, Lead, Off)
  BY DEF RefreshResult, Sent, Is
<1> QED  BY <1>1, OffTyped, SentInv, SyncCommandAssumption

-----------------------------------------------------------------------------
\* A step of the main goroutine that leaves the store and the goroutines alone.
LEMMA MainStep ==
  ASSUME Inv, NEW p \in Procs, NEW m \in Proc, proc' = [proc EXCEPT ![p] = m],
         UNCHANGED <<now, sync, answered, unit, runs, kills>>,
         m.pc \in {"idle", "stamp", "decide"} => \A w \in Workers : unit[p][w].pc = "off",
         m.pc = "refresh" => \A w \in Workers \ {Lead} : unit[p][w].pc = "off",
         m.pc \in {"stamp", "feed"} => m.next <= Len(m.job.resources)
  PROVE  Inv'
<1>1. proc' \in [Procs -> Proc] /\ \A q \in Procs : proc'[q] = IF q = p THEN m ELSE proc[q]
  BY DEF Inv, Typed
<1>2. Staged'
  BY <1>1 DEF Inv, Staged
<1> QED  BY <1>1, <1>2 DEF Inv, Typed, Carried, StampAfterRows

LEMMA EndInv ==
  ASSUME Inv, NEW p \in Procs, NEW verdict \in Verdicts, End(p, verdict),
         \A w \in Workers : unit[p][w].pc = "off",
         UNCHANGED <<now, sync, answered, runs, kills>>
  PROVE  Inv'
<1> DEFINE m == [Fresh(proc[p].job) EXCEPT !.verdict = verdict]
<1>1. proc[p].job \in Lines
  BY DEF Inv, Typed, Proc
<1>2. m \in Proc /\ m.pc = "idle"
  <2>1. \A f \in Proc : [f EXCEPT !.verdict = verdict] \in Proc
                       /\ [f EXCEPT !.verdict = verdict].pc = f.pc
    BY DEF Proc
  <2> QED  BY <2>1, <1>1, FreshTyped
<1>3. proc' = [proc EXCEPT ![p] = m] /\ UNCHANGED unit
  BY DEF End
<1> HIDE DEF m
<1> QED  BY <1>2, <1>3, MainStep

LEMMA ExitInv ==
  ASSUME Inv, NEW p \in Procs, Exit(p)
  PROVE  Inv'
<1>1. \E verdict \in Verdicts : End(p, verdict)
  BY DEF Exit, Verdicts
<1> QED  BY <1>1, EndInv DEF Exit, Is

LEMMA DecideInv ==
  ASSUME Inv, NEW p \in Procs, Decide(p)
  PROVE  Inv'
<1>1. proc[p].pc = "decide" /\ UNCHANGED <<now, sync, answered, runs, kills>>
  BY DEF Decide, At
<1>2. \A w \in Workers : unit[p][w].pc = "off"
  BY <1>1 DEF Inv, Staged
<1>3. CASE End(p, "fresh")
  BY <1>1, <1>2, <1>3, EndInv DEF Verdicts
<1>4. CASE proc' = [proc EXCEPT ![p].pc = "refresh"] /\ UNCHANGED unit
  <2> DEFINE m == [proc[p] EXCEPT !.pc = "refresh"]
  <2>1. proc[p] \in Proc
    BY DEF Inv, Typed
  <2>2. m \in Proc /\ m.pc = "refresh"
    BY <2>1 DEF Proc
  <2>3. proc' = [proc EXCEPT ![p] = m]
    BY <1>4
  <2> HIDE DEF m
  <2> QED  BY <2>2, <2>3, <1>1, <1>2, <1>4, MainStep, ZenonT(60)
<1> QED  BY <1>3, <1>4 DEF Decide

LEMMA DecideFailsInv ==
  ASSUME Inv, NEW p \in Procs, DecideFails(p)
  PROVE  Inv'
<1>1. \A w \in Workers : unit[p][w].pc = "off"
  BY DEF DecideFails, At, Inv, Staged
<1> QED  BY <1>1, EndInv DEF DecideFails, Verdicts

LEMMA RefreshEndInv ==
  ASSUME Inv, NEW p \in Procs, RefreshEnd(p)
  PROVE  Inv'
<1>1. \A w \in Workers : unit[p][w].pc = "off"
  BY DEF RefreshEnd, At, Is, Inv, Staged
<1>2. \E verdict \in Verdicts : End(p, verdict)
  BY DEF RefreshEnd, Verdicts
<1> QED  BY <1>1, <1>2, EndInv DEF RefreshEnd

LEMMA ExpireInv ==
  ASSUME Inv, NEW p \in Procs, Expire(p)
  PROVE  Inv'
<1> DEFINE m == [proc[p] EXCEPT !.expired = TRUE]
<1>1. proc[p] \in Proc /\ proc[p].pc = "refresh"
  BY DEF Inv, Typed, Expire, At
<1>2. m \in Proc /\ m.pc = "refresh"
  BY <1>1 DEF Proc
<1>3. proc' = [proc EXCEPT ![p] = m] /\ UNCHANGED <<now, sync, answered, unit, runs, kills>>
  BY DEF Expire
<1>4. \A w \in Workers \ {Lead} : unit[p][w].pc = "off"
  BY <1>1 DEF Inv, Staged
<1> HIDE DEF m
<1> QED  BY <1>2, <1>3, <1>4, MainStep

\* One more on the channel of resources.
Fed(n, work, next, closed, pc) ==
  [n EXCEPT !.work = work, !.next = next, !.closed = closed, !.pc = pc]

LEMMA FedTyped ==
  ASSUME NEW n \in Proc, NEW work \in Seq(Resources), NEW next \in Nat \ {0},
         NEW closed \in BOOLEAN, NEW pc \in {"collect", "feed"}
  PROVE  LET m == Fed(n, work, next, closed, pc)
         IN  m \in Proc /\ m.pc = pc /\ m.next = next /\ m.job = n.job
  BY DEF Proc, Fed

LEMMA FeedInv ==
  ASSUME Inv, NEW p \in Procs, Feed(p)
  PROVE  Inv'
<1> DEFINE last == proc[p].next = Len(List(p))
           work == Append(proc[p].work, List(p)[proc[p].next])
           next == proc[p].next + 1
           pc   == IF last THEN "collect" ELSE "feed"
           m == Fed(proc[p], work, next, last, pc)
<1>1. /\ proc[p] \in Proc /\ List(p) \in Seq(Resources) /\ proc[p].work \in Seq(Resources)
      /\ proc[p].next \in Nat \ {0} /\ proc[p].next <= Len(List(p))
  BY DEF Inv, Typed, Staged, Feed, At, Proc, Lines, List
<1>2. /\ work \in Seq(Resources) /\ next \in Nat \ {0}
      /\ last \in BOOLEAN /\ pc \in {"collect", "feed"}
  BY <1>1
<1>3. m \in Proc /\ m.pc = pc /\ m.next = next /\ m.job = proc[p].job
  <2> HIDE DEF last, work, next, pc
  <2> QED  BY <1>1, <1>2, FedTyped, SMTT(60)
<1>4. m.pc = "feed" => m.next <= Len(m.job.resources)
  <2> HIDE DEF m
  <2> QED  BY <1>1, <1>3 DEF List
<1>5. proc' = [proc EXCEPT ![p] = m] /\ UNCHANGED <<now, sync, answered, unit, runs, kills>>
  BY DEF Feed, Fed
<1> HIDE DEF m, pc
<1> QED  BY <1>2, <1>3, <1>4, <1>5, MainStep

-----------------------------------------------------------------------------
\* A step that gives all goroutines of one process anew, none of them stamping.
LEMMA CrewStep ==
  ASSUME Inv, NEW p \in Procs, NEW m \in Proc, proc' = [proc EXCEPT ![p] = m],
         NEW crew \in [Workers -> Unit], unit' = [unit EXCEPT ![p] = crew],
         \A w \in Workers : crew[w].pc # "stamp", UNCHANGED answered,
         m.pc \in {"idle", "stamp", "decide"} => \A w \in Workers : crew[w].pc = "off",
         m.pc = "refresh" => \A w \in Workers \ {Lead} : crew[w].pc = "off",
         m.pc \in {"stamp", "feed"} => m.next <= Len(m.job.resources)
  PROVE  /\ proc' \in [Procs -> Proc] /\ unit' \in [Procs -> [Workers -> Unit]]
         /\ Staged' /\ Carried'
<1>1. /\ proc' \in [Procs -> Proc] /\ \A q \in Procs : proc'[q] = IF q = p THEN m ELSE proc[q]
      /\ unit' \in [Procs -> [Workers -> Unit]]
      /\ \A q \in Procs : unit'[q] = IF q = p THEN crew ELSE unit[q]
  BY DEF Inv, Typed
<1>2. Staged'
  BY <1>1 DEF Inv, Staged
<1>3. Carried'
  BY <1>1 DEF Inv, Carried
<1> QED  BY <1>1, <1>2, <1>3

LEMMA CrewTyped ==
  ASSUME NEW pc \in {"off", "take"}
  PROVE  LET crew == [w \in Workers |-> [Off EXCEPT !.pc = pc]]
         IN  crew \in [Workers -> Unit] /\ \A w \in Workers : crew[w].pc = pc
<1>1. [Off EXCEPT !.pc = pc] \in Unit /\ [Off EXCEPT !.pc = pc].pc = pc
  BY OffTyped DEF Unit
<1> QED  BY <1>1

\* A command at its first stage.
Begun(m, pc) == [m EXCEPT !.pc = pc]

LEMMA BegunTyped ==
  ASSUME NEW m \in Proc, NEW pc \in {"decide", "stamp", "feed", "refresh"}
  PROVE  /\ Begun(m, pc) \in Proc /\ Begun(m, pc).pc = pc
         /\ Begun(m, pc).next = m.next /\ Begun(m, pc).job = m.job
  BY DEF Proc, Begun

LEMMA StartInv ==
  ASSUME Inv, NEW p \in Procs, NEW job \in Jobs[p], Start(p, job)
  PROVE  Inv'
<1> DEFINE first == CASE job.kind = "read" -> "decide"
                      [] job.kind = "sync" /\ job.full /\ ~job.dry -> "stamp"
                      [] OTHER -> "feed"
           m == Begun(Fresh(job), first)
           on == job.kind = "sync" /\ ~(job.full /\ ~job.dry)
           crew == [w \in Workers |-> IF on THEN [Off EXCEPT !.pc = "take"] ELSE Off]
<1>1. job \in Lines
  BY SyncCommandAssumption
<1>2. /\ job.kind \in {"sync", "read"} /\ job.full \in BOOLEAN /\ job.dry \in BOOLEAN
      /\ job.resources \in Seq(Resources) /\ 1 <= Len(job.resources)
  BY <1>1 DEF Lines
<1>3. /\ first \in {"decide", "stamp", "feed"} /\ (first \in {"decide", "stamp"} => ~on)
  BY <1>2
<1>4. m \in Proc /\ m.pc = first /\ m.next = 1 /\ m.job = job
  <2> HIDE DEF first
  <2> QED  BY <1>1, <1>3, FreshTyped, BegunTyped
<1>5. /\ crew \in [Workers -> Unit]
      /\ \A w \in Workers : crew[w].pc \in {"off", "take"} /\ (~on => crew[w].pc = "off")
  BY OffTyped DEF Unit
<1>6. /\ proc' = [proc EXCEPT ![p] = m] /\ unit' = [unit EXCEPT ![p] = crew]
      /\ UNCHANGED <<now, sync, answered, kills>>
      /\ runs[p] < MaxRuns /\ runs' = [runs EXCEPT ![p] = @ + 1]
  BY DEF Start, Begun
<1>7. /\ proc' \in [Procs -> Proc] /\ unit' \in [Procs -> [Workers -> Unit]]
      /\ Staged' /\ Carried'
  <2>1. \A w \in Workers : crew[w].pc # "stamp"
    BY <1>5
  <2>2. m.pc \in {"idle", "stamp", "decide"} => \A w \in Workers : crew[w].pc = "off"
    BY <1>3, <1>4, <1>5
  <2>3. m.pc # "refresh" /\ m.next <= Len(m.job.resources)
    BY <1>2, <1>3, <1>4
  <2> HIDE DEF m, crew
  <2> QED  BY <1>4, <1>5, <1>6, <2>1, <2>2, <2>3, CrewStep
<1>8. runs' \in [Procs -> 0..MaxRuns]
  BY <1>6, SyncCommandAssumption DEF Inv, Typed
<1> QED  BY <1>6, <1>7, <1>8 DEF Inv, Typed, StampAfterRows

LEMMA KillInv ==
  ASSUME Inv, NEW p \in Procs, Kill(p)
  PROVE  Inv'
<1> DEFINE m == [Fresh(proc[p].job) EXCEPT !.verdict = "killed"]
<1>1. m \in Proc /\ m.pc = "idle"
  <2>1. \A f \in Proc : [f EXCEPT !.verdict = "killed"] \in Proc
                       /\ [f EXCEPT !.verdict = "killed"].pc = f.pc
    BY DEF Proc, Verdicts
  <2>2. proc[p].job \in Lines
    BY DEF Inv, Typed, Proc
  <2> QED  BY <2>1, <2>2, FreshTyped
<1>2. AllOff \in [Workers -> Unit] /\ \A w \in Workers : AllOff[w].pc = "off"
  BY OffTyped DEF AllOff
<1>3. /\ proc' = [proc EXCEPT ![p] = m] /\ unit' = [unit EXCEPT ![p] = AllOff]
      /\ kills < MaxKills /\ kills' = kills + 1 /\ UNCHANGED <<now, sync, answered, runs>>
  BY DEF Kill
<1>4. /\ proc' \in [Procs -> Proc] /\ unit' \in [Procs -> [Workers -> Unit]]
      /\ Staged' /\ Carried'
  <2> HIDE DEF m
  <2> QED  BY <1>1, <1>2, <1>3, CrewStep
<1>5. kills' \in 0..MaxKills
  BY <1>3, SyncCommandAssumption DEF Inv, Typed
<1> QED  BY <1>3, <1>4, <1>5 DEF Inv, Typed, StampAfterRows

\* The stamp that --full sets in advance has no answer behind it.
LEMMA StampFullInv ==
  ASSUME Inv, NEW p \in Procs, StampFull(p)
  PROVE  Inv'
<1> DEFINE r == List(p)[proc[p].next]
<1>1. /\ proc[p] \in Proc /\ proc[p].pc = "stamp" /\ UNCHANGED <<now, answered, runs, kills>>
      /\ \A w \in Workers : unit[p][w].pc = "off"
  BY DEF Inv, Typed, Staged, StampFull, At
<1>2. /\ List(p) \in Seq(Resources) /\ proc[p].next \in Nat \ {0} /\ proc[p].next <= Len(List(p))
  BY <1>1 DEF Inv, Staged, Proc, Lines, List
<1>3. r \in Resources
  BY <1>2
<1>4. now \in Times /\ Never \in Times /\ \A q \in Resources : answered[q] \in Times
  BY DEF Inv, Typed, Times
<1>5. sync' = [sync EXCEPT ![r] = [at |-> now, from |-> Never]]
  BY DEF StampFull, SaveSyncState
<1>6. sync' \in [Resources -> [at : Times, from : Times]]
  BY <1>4, <1>5 DEF Inv, Typed
<1>7. StampAfterRows'
  <2>1. \A t \in Times : Never <= t
    BY SyncCommandAssumption DEF Times, Never
  <2> QED  BY <1>1, <1>4, <1>5, <2>1 DEF Inv, Typed, StampAfterRows
<1>8. /\ proc' \in [Procs -> Proc] /\ unit' \in [Procs -> [Workers -> Unit]]
      /\ Staged' /\ Carried'
  <2>1. CASE proc[p].next < Len(List(p))
    <3> DEFINE m == [proc[p] EXCEPT !.next = @ + 1]
    <3>1. m \in Proc /\ m.pc = "stamp" /\ m.next = proc[p].next + 1 /\ m.job = proc[p].job
      <4>1. proc[p] \in Proc /\ proc[p].pc = "stamp"
        BY <1>1
      <4>2. proc[p].next \in Nat
        BY <4>1 DEF Proc
      <4>3. proc[p].next + 1 \in Nat \ {0}
        BY <4>2
      <4> QED  BY <4>1, <4>3, Zenon DEF Proc
    <3>2. m.next <= Len(m.job.resources)
      <4> HIDE DEF m
      <4> QED  BY <1>2, <2>1, <3>1 DEF List
    <3>3. proc' = [proc EXCEPT ![p] = m] /\ unit' = [unit EXCEPT ![p] = unit[p]]
      BY <2>1 DEF StampFull, Inv, Typed
    <3>4. unit[p] \in [Workers -> Unit]
      BY DEF Inv, Typed
    <3> HIDE DEF m
    <3> QED  BY <1>1, <3>1, <3>2, <3>3, <3>4, CrewStep
  <2>2. CASE ~(proc[p].next < Len(List(p)))
    <3> DEFINE m == [proc[p] EXCEPT !.next = 1, !.pc = "feed"]
               crew == [w \in Workers |-> [Off EXCEPT !.pc = "take"]]
    <3>1. m \in Proc /\ m.pc = "feed" /\ m.next = 1 /\ m.job = proc[p].job
      <4>1. 1 \in Nat \ {0} /\ "feed" \in {"idle", "stamp", "feed", "collect", "decide", "refresh"}
        OBVIOUS
      <4> QED  BY <4>1, <1>1, Zenon DEF Proc
    <3>2. m.next <= Len(m.job.resources)
      <4> HIDE DEF m
      <4> QED  BY <1>2, <3>1 DEF List
    <3>3. proc' = [proc EXCEPT ![p] = m] /\ unit' = [unit EXCEPT ![p] = crew]
      BY <2>2 DEF StampFull
    <3>4. crew \in [Workers -> Unit] /\ \A w \in Workers : crew[w].pc = "take"
      BY CrewTyped
    <3> HIDE DEF m, crew
    <3> QED  BY <1>1, <3>1, <3>2, <3>3, <3>4, CrewStep
  <2> QED  BY <2>1, <2>2
<1> QED  BY <1>1, <1>6, <1>7, <1>8 DEF Inv, Typed

LEMMA RefreshNextInv ==
  ASSUME Inv, NEW p \in Procs, RefreshNext(p)
  PROVE  Inv'
<1> DEFINE m == [proc[p] EXCEPT !.next = @ + 1]
           u == [Off EXCEPT !.pc = "fetch", !.resource = List(p)[proc[p].next]]
           crew == [unit[p] EXCEPT ![Lead] = u]
<1>1. /\ proc[p] \in Proc /\ proc[p].pc = "refresh" /\ UNCHANGED <<now, sync, answered, runs, kills>>
      /\ unit[p] \in [Workers -> Unit] /\ \A w \in Workers : unit[p][w].pc = "off"
  BY DEF Inv, Typed, Staged, RefreshNext, At, Is
<1>2. /\ List(p) \in Seq(Resources) /\ proc[p].next \in Nat \ {0} /\ proc[p].next <= Len(List(p))
  BY <1>1 DEF RefreshNext, Proc, Lines, List
<1>3. m \in Proc /\ m.pc = "refresh"
  BY <1>1, <1>2, SMTT(60) DEF Proc
<1>4. u \in Unit /\ u.pc = "fetch"
  <2>1. List(p)[proc[p].next] \in Resources
    BY <1>2
  <2> QED  BY <2>1, OffTyped DEF Unit
<1>5. /\ crew \in [Workers -> Unit]
      /\ \A w \in Workers : crew[w].pc \in {"off", "fetch"} /\ (w # Lead => crew[w].pc = "off")
  <2> HIDE DEF u
  <2> QED  BY <1>1, <1>4
<1>6. proc' = [proc EXCEPT ![p] = m] /\ unit' = [unit EXCEPT ![p] = crew]
  BY DEF RefreshNext
<1>7. /\ proc' \in [Procs -> Proc] /\ unit' \in [Procs -> [Workers -> Unit]]
      /\ Staged' /\ Carried'
  <2>1. \A w \in Workers : crew[w].pc # "stamp"
    BY <1>5
  <2>2. \A w \in Workers \ {Lead} : crew[w].pc = "off"
    BY <1>5
  <2>3. m.pc \notin {"idle", "stamp", "decide", "feed"} /\ UNCHANGED answered
    BY <1>1, <1>3
  <2> HIDE DEF m, crew
  <2> QED  BY <1>3, <1>5, <1>6, <2>1, <2>2, <2>3, CrewStep
<1> QED  BY <1>1, <1>7 DEF Inv, Typed, StampAfterRows

LEMMA TickInv ==
  ASSUME Inv, Tick
  PROVE  Inv'
<1>1. now' \in 0..MaxTime /\ UNCHANGED <<sync, answered, proc, unit, runs, kills>>
  BY SyncCommandAssumption DEF Tick, Inv, Typed
<1> QED  BY <1>1 DEF Inv, Typed, Staged, Carried, StampAfterRows

-----------------------------------------------------------------------------
LEMMA NextInv ==
  ASSUME Inv, [Next]_vars
  PROVE  Inv'
<1>1. CASE UNCHANGED vars
  BY <1>1 DEF vars, Inv, Typed, Staged, Carried, StampAfterRows
<1>2. CASE Tick
  BY <1>2, TickInv
<1>3. ASSUME NEW p \in Procs, \E job \in Jobs[p] : Start(p, job)
      PROVE  Inv'
  BY <1>3, StartInv
<1>4. ASSUME NEW p \in Procs, Kill(p) \/ Expire(p)
      PROVE  Inv'
  BY <1>4, KillInv, ExpireInv
<1>5. ASSUME NEW p \in Procs, Main(p)
      PROVE  Inv'
  BY <1>5, StampFullInv, FeedInv, ExitInv, DecideInv, DecideFailsInv, RefreshNextInv,
     RefreshResultInv, RefreshEndInv DEF Main
<1>6. ASSUME NEW p \in Procs, NEW w \in Workers, Work(p, w)
      PROVE  Inv'
  BY <1>6, TakeInv, LeaveInv, SendInv, FetchInv, StoreInv, StampInv DEF Work
<1> QED  BY <1>1, <1>2, <1>3, <1>4, <1>5, <1>6 DEF Next

LEMMA InvTypeOK == Inv => TypeOK
  BY DEF Inv, Typed, Staged, TypeOK

\* Every reachable state of the commands and their goroutines is well-formed, and
\* a command that has returned has left no goroutine of its pool behind.
THEOREM TypeCorrect == Spec => []TypeOK
<1>1. Init => Inv
  BY InitInv
<1>2. Inv /\ [Next]_vars => Inv'
  BY NextInv
<1>3. Inv => TypeOK
  BY InvTypeOK
<1> QED  BY <1>1, <1>2, <1>3, PTL DEF Spec

\* The store holds the answer behind every stamp of sync_state, or a newer one,
\* for any processes, pools, lists of resources and kills.
THEOREM StampsFollowRows == Spec => []StampAfterRows
<1>1. Init => Inv
  BY InitInv
<1>2. Inv /\ [Next]_vars => Inv'
  BY NextInv
<1>3. Inv => StampAfterRows
  BY DEF Inv
<1> QED  BY <1>1, <1>2, <1>3, PTL DEF Spec

-----------------------------------------------------------------------------
(***************************************************************************)
(* Every resource is reported once.                                         *)
(*                                                                         *)
(* A resource is handed out when it is sent to the channel, or taken by the *)
(* refresh; from then on until the command ends it is in the channel, with  *)
(* a goroutine, or in the report, as often as it was handed out.  When all  *)
(* goroutines of a pool have left, the channel is closed and empty.         *)
(***************************************************************************)
Working == {"fetch", "store", "stamp", "send"}

\* The places of r among the first n of s, and the goroutines that have it.
Places(s, n, r) == {i \in 1..n : s[i] = r}
HeldBy(crew, r) == {w \in Workers : crew[w].pc \in Working /\ crew[w].resource = r}
Sum(report, r)  == report[<<r, "success">>] + report[<<r, "warn">>] + report[<<r, "err">>]

\* How much of the list has been handed out.
Gone(m) == IF m.pc \in {"feed", "collect", "refresh"} THEN m.next - 1 ELSE 0

Balanced(m, crew) ==
  \A r \in Resources :
    Sum(m.report, r) + Cardinality(HeldBy(crew, r)) + Cardinality(Places(m.work, Len(m.work), r))
    = Cardinality(Places(m.job.resources, Gone(m), r))

Staffed(m, crew) ==
  /\ m.verdict = "none" /\ (m.closed <=> m.pc = "collect")
  /\ m.pc \in {"stamp", "feed", "collect"} => m.job.kind = "sync"
  /\ m.pc \in {"decide", "refresh"} => m.job.kind = "read"
  /\ m.pc = "collect" => m.next = Len(m.job.resources) + 1
  /\ m.pc = "decide" => m.next = 1
  /\ m.pc = "refresh" => m.next <= Len(m.job.resources) + 1
  /\ m.pc \notin {"feed", "collect"} => m.work = <<>>
  /\ m.pc \in {"feed", "collect"} => \A w \in Workers : crew[w].pc = "off" => m.closed /\ m.work = <<>>

Accounted ==
  \A p \in Procs : proc[p].pc # "idle" => Staffed(proc[p], unit[p]) /\ Balanced(proc[p], unit[p])


\* What is counted is finite, and one place more may be one of r.
LEMMA PlacesMore ==
  ASSUME NEW s, NEW n \in Nat, NEW r
  PROVE  /\ Cardinality(Places(s, n, r)) \in Nat
         /\ Cardinality(Places(s, n + 1, r)) = Cardinality(Places(s, n, r)) + (IF s[n + 1] = r THEN 1 ELSE 0)
<1>1. IsFiniteSet(1..n) /\ Places(s, n, r) \in SUBSET (1..n) /\ n + 1 \notin Places(s, n, r)
  BY FS_Interval DEF Places
<1>2. IsFiniteSet(Places(s, n, r)) /\ Cardinality(Places(s, n, r)) \in Nat
  BY <1>1, FS_Subset, FS_CardinalityType
<1>3. Places(s, n + 1, r) = IF s[n + 1] = r THEN Places(s, n, r) \cup {n + 1} ELSE Places(s, n, r)
  BY DEF Places
<1>4. Cardinality(Places(s, n, r) \cup {n + 1}) = Cardinality(Places(s, n, r)) + 1
  BY <1>1, <1>2, FS_AddElement
<1>5. CASE s[n + 1] = r
  BY <1>2, <1>3, <1>4, <1>5
<1>6. CASE s[n + 1] # r
  <2>1. Cardinality(Places(s, n + 1, r)) = Cardinality(Places(s, n, r))
    BY <1>3, <1>6
  <2> QED  BY <1>2, <1>6, <2>1
<1> QED  BY <1>5, <1>6

LEMMA PlacesNone ==
  ASSUME NEW s, NEW r
  PROVE  Cardinality(Places(s, 0, r)) = 0
<1>1. Places(s, 0, r) = {}
  BY DEF Places
<1> QED  BY <1>1, FS_EmptySet

LEMMA PlacesSame ==
  ASSUME NEW s, NEW t, NEW n \in Nat, \A i \in 1..n : s[i] = t[i], NEW r
  PROVE  Places(s, n, r) = Places(t, n, r)
BY DEF Places

\* The first of the channel is taken, and the others move up.
LEMMA PlacesTail ==
  ASSUME NEW S, NEW s \in Seq(S), s # <<>>, NEW r
  PROVE  Cardinality(Places(s, Len(s), r))
         = Cardinality(Places(Tail(s), Len(Tail(s)), r)) + (IF Head(s) = r THEN 1 ELSE 0)
<1> DEFINE A == Places(s, Len(s), r)
           B == Places(Tail(s), Len(Tail(s)), r)
           up == [i \in A \ {1} |-> i - 1]
<1>1. /\ Len(s) \in Nat \ {0} /\ Head(s) = s[1] /\ Len(Tail(s)) = Len(s) - 1
      /\ \A i \in 1..Len(s) - 1 : Tail(s)[i] = s[i + 1]
  BY HeadTailProperties, EmptySeq
<1>2. IsFiniteSet(A) /\ A \in SUBSET Nat /\ (1 \in A <=> Head(s) = r)
  <2>1. IsFiniteSet(1..Len(s)) /\ A \in SUBSET (1..Len(s))
    BY <1>1, FS_Interval DEF Places
  <2>2. 1 \in A <=> Head(s) = r
    BY <1>1 DEF Places
  <2> QED  BY <2>1, <2>2, FS_Subset
<1>3. \A i \in A \ {1} : i - 1 \in B
  BY <1>1 DEF Places
<1>4. \A j \in B : j + 1 \in A \ {1} /\ j \in Nat
  BY <1>1 DEF Places
<1>5. up \in Bijection(A \ {1}, B)
  <2> HIDE DEF A, B
  <2>1. up \in [A \ {1} -> B]
    BY <1>3
  <2>2. \A i, j \in A \ {1} : up[i] = up[j] => i = j
    BY <1>2
  <2>3. \A j \in B : \E i \in A \ {1} : up[i] = j
    <3> TAKE j \in B
    <3>1. j + 1 \in A \ {1} /\ up[j + 1] = j
      BY <1>4
    <3> QED  BY <3>1
  <2> HIDE DEF up
  <2> QED  BY <2>1, <2>2, <2>3 DEF Bijection, Injection, Surjection, IsInjective
<1>6. IsFiniteSet(A \ {1}) /\ Cardinality(B) = Cardinality(A \ {1})
      /\ Cardinality(A \ {1}) = (IF 1 \in A THEN Cardinality(A) - 1 ELSE Cardinality(A))
      /\ Cardinality(A) \in Nat
  <2> HIDE DEF A, B, up
  <2>1. IsFiniteSet(A \ {1})
        /\ Cardinality(A \ {1}) = (IF 1 \in A THEN Cardinality(A) - 1 ELSE Cardinality(A))
    BY <1>2, FS_RemoveElement
  <2>2. ExistsBijection(A \ {1}, B)
    BY <1>5 DEF ExistsBijection
  <2> QED  BY <1>2, <2>1, <2>2, FS_Bijection, FS_CardinalityType
<1> HIDE DEF A, B, up
<1> QED  BY <1>2, <1>6 DEF A, B

\* One more at the end of the channel.
LEMMA PlacesAppend ==
  ASSUME NEW S, NEW s \in Seq(S), NEW e \in S, NEW r
  PROVE  Cardinality(Places(Append(s, e), Len(Append(s, e)), r))
         = Cardinality(Places(s, Len(s), r)) + (IF e = r THEN 1 ELSE 0)
<1> DEFINE a == Append(s, e)
<1>1. /\ Len(s) \in Nat /\ Len(a) = Len(s) + 1 /\ a[Len(s) + 1] = e
      /\ \A i \in 1..Len(s) : a[i] = s[i]
  BY AppendProperties, LenProperties
<1> HIDE DEF a
<1>2. Places(a, Len(s), r) = Places(s, Len(s), r)
  BY <1>1, PlacesSame
<1>3. Cardinality(Places(a, Len(s) + 1, r)) = Cardinality(Places(a, Len(s), r)) + (IF a[Len(s) + 1] = r THEN 1 ELSE 0)
  BY <1>1, PlacesMore
<1>4. Cardinality(Places(a, Len(a), r)) = Cardinality(Places(s, Len(s), r)) + (IF e = r THEN 1 ELSE 0)
  BY <1>1, <1>2, <1>3
<1> QED  BY <1>4 DEF a

\* A goroutine that has a resource of its own.
Has(u, r)  == u.pc \in Working /\ u.resource = r
Load(u, r) == IF Has(u, r) THEN 1 ELSE 0

LEMMA HeldNumber ==
  ASSUME NEW crew, NEW r
  PROVE  IsFiniteSet(HeldBy(crew, r)) /\ Cardinality(HeldBy(crew, r)) \in Nat
<1>1. HeldBy(crew, r) \in SUBSET Workers
  BY DEF HeldBy
<1> QED  BY <1>1, SyncCommandAssumption, FS_Subset, FS_CardinalityType

With(crew, w, u) == [crew EXCEPT ![w] = u]

LEMMA HeldChange ==
  ASSUME NEW crew \in [Workers -> Unit], NEW w \in Workers, NEW u, NEW r
  PROVE  Cardinality(HeldBy(With(crew, w, u), r)) + Load(crew[w], r)
         = Cardinality(HeldBy(crew, r)) + Load(u, r)
<1> DEFINE A == HeldBy(crew, r)
           B == HeldBy(With(crew, w, u), r)
<1>1. (w \in A <=> Has(crew[w], r)) /\ (w \in B <=> Has(u, r)) /\ A \ {w} = B \ {w}
  BY DEF HeldBy, Has, With
<1>2. IsFiniteSet(A) /\ IsFiniteSet(B) /\ Cardinality(A) \in Nat /\ Cardinality(B) \in Nat
  BY HeldNumber
<1> HIDE DEF A, B
<1>3. /\ Cardinality(A \ {w}) = (IF w \in A THEN Cardinality(A) - 1 ELSE Cardinality(A))
      /\ Cardinality(B \ {w}) = (IF w \in B THEN Cardinality(B) - 1 ELSE Cardinality(B))
  BY <1>2, FS_RemoveElement
<1>4. Cardinality(A) = Cardinality(A \ {w}) + Load(crew[w], r)
  <2>1. CASE Has(crew[w], r)
    BY <2>1, <1>1, <1>2, <1>3 DEF Load
  <2>2. CASE ~Has(crew[w], r)
    BY <2>2, <1>1, <1>2, <1>3 DEF Load
  <2> QED  BY <2>1, <2>2
<1>5. Cardinality(B) = Cardinality(B \ {w}) + Load(u, r)
  <2>1. CASE Has(u, r)
    BY <2>1, <1>1, <1>2, <1>3 DEF Load
  <2>2. CASE ~Has(u, r)
    BY <2>2, <1>1, <1>2, <1>3 DEF Load
  <2> QED  BY <2>1, <2>2
<1>6. Load(crew[w], r) \in Nat /\ Load(u, r) \in Nat
  BY DEF Load
<1>7. Cardinality(A \ {w}) = Cardinality(B \ {w}) /\ Cardinality(A \ {w}) \in Nat
  BY <1>1, <1>2, FS_RemoveElement, FS_CardinalityType
<1>8. Cardinality(B) + Load(crew[w], r) = Cardinality(A) + Load(u, r)
  BY <1>4, <1>5, <1>6, <1>7
<1> QED  BY <1>8 DEF A, B

LEMMA HeldNone ==
  ASSUME NEW crew, \A w \in Workers : crew[w].pc \in {"off", "take"}, NEW r
  PROVE  Cardinality(HeldBy(crew, r)) = 0
<1>1. HeldBy(crew, r) = {}
  BY DEF HeldBy, Working
<1> QED  BY <1>1, FS_EmptySet


\* The books of a command that does nothing stay as they are.
LEMMA OfOne ==
  ASSUME Accounted, NEW p \in Procs,
         \A q \in Procs \ {p} : proc'[q] = proc[q] /\ unit'[q] = unit[q],
         proc'[p].pc # "idle" => Staffed(proc'[p], unit'[p]) /\ Balanced(proc'[p], unit'[p])
  PROVE  Accounted'
<1>1. ASSUME NEW q \in Procs, proc'[q].pc # "idle"
      PROVE  Staffed(proc'[q], unit'[q]) /\ Balanced(proc'[q], unit'[q])
  <2>1. CASE q = p
    BY <2>1, <1>1
  <2>2. CASE q # p
    BY <2>2, <1>1 DEF Accounted
  <2> QED  BY <2>1, <2>2
<1> QED  BY <1>1 DEF Accounted

\* What a count is made of are numbers.
LEMMA SumTyped ==
  ASSUME NEW m \in Proc, NEW r \in Resources
  PROVE  Sum(m.report, r) \in Nat
<1>1. m.report \in [Resources \X Results -> Nat]
  BY DEF Proc
<1>2. <<r, "success">> \in Resources \X Results /\ <<r, "warn">> \in Resources \X Results
      /\ <<r, "err">> \in Resources \X Results
  BY DEF Results
<1> QED  BY <1>1, <1>2 DEF Sum

LEMMA SumMore ==
  ASSUME NEW m \in Proc, NEW q \in Resources, NEW result \in Results, NEW r \in Resources
  PROVE  Sum([m.report EXCEPT ![<<q, result>>] = @ + 1], r) = Sum(m.report, r) + (IF q = r THEN 1 ELSE 0)
<1>1. m.report \in [Resources \X Results -> Nat]
  BY DEF Proc
<1>2. <<r, "success">> \in Resources \X Results /\ <<r, "warn">> \in Resources \X Results
      /\ <<r, "err">> \in Resources \X Results
  BY DEF Results
<1>3. CASE q = r
  BY <1>1, <1>2, <1>3 DEF Sum, Results
<1>4. CASE q # r
  BY <1>1, <1>2, <1>4 DEF Sum, Results
<1> QED  BY <1>3, <1>4

LEMMA PlacesNumber ==
  ASSUME NEW s, NEW n \in Nat, NEW r
  PROVE  Cardinality(Places(s, n, r)) \in Nat
BY PlacesMore

\* What a goroutine no longer has is in the report, what it has now was in the channel.
Passed(m, v, n, u) ==
  \A r \in Resources :
    Sum(n.report, r) + Load(u, r) + Cardinality(Places(n.work, Len(n.work), r))
    = Sum(m.report, r) + Load(v, r) + Cardinality(Places(m.work, Len(m.work), r))

LEMMA BalanceMoves ==
  ASSUME NEW m \in Proc, NEW n \in Proc, NEW crew \in [Workers -> Unit], Balanced(m, crew),
         NEW w \in Workers, NEW u, n.job = m.job, Gone(n) = Gone(m), Passed(m, crew[w], n, u)
  PROVE  Balanced(n, [crew EXCEPT ![w] = u])
<1> SUFFICES ASSUME NEW r \in Resources
             PROVE  Sum(n.report, r) + Cardinality(HeldBy([crew EXCEPT ![w] = u], r))
                      + Cardinality(Places(n.work, Len(n.work), r))
                    = Cardinality(Places(n.job.resources, Gone(n), r))
  BY DEF Balanced
<1>8. Cardinality(HeldBy(With(crew, w, u), r)) + Load(crew[w], r)
      = Cardinality(HeldBy(crew, r)) + Load(u, r)
  BY HeldChange
<1> DEFINE H == Cardinality(HeldBy(crew, r))
           K == Cardinality(HeldBy([crew EXCEPT ![w] = u], r))
           A == Cardinality(Places(m.work, Len(m.work), r))
           B == Cardinality(Places(n.work, Len(n.work), r))
<1>1. Sum(n.report, r) \in Nat /\ Sum(m.report, r) \in Nat /\ H \in Nat /\ K \in Nat
      /\ Load(u, r) \in Nat /\ Load(crew[w], r) \in Nat
  BY SumTyped, HeldNumber DEF Load
<1>2. m.work \in Seq(Resources) /\ n.work \in Seq(Resources)
  BY DEF Proc
<1>3. A \in Nat /\ B \in Nat
  BY <1>2, PlacesNumber, LenProperties
<1>4. K + Load(crew[w], r) = H + Load(u, r)
  BY <1>8 DEF With
<1>5. Sum(m.report, r) + H + A = Cardinality(Places(m.job.resources, Gone(m), r))
  BY DEF Balanced
<1>6. Sum(n.report, r) + Load(u, r) + B = Sum(m.report, r) + Load(crew[w], r) + A
  BY DEF Passed
<1> HIDE DEF H, K, A, B
<1>7. Sum(n.report, r) + K + B = Sum(m.report, r) + H + A
  BY <1>1, <1>3, <1>4, <1>6, Z3
<1> QED  BY <1>5, <1>7 DEF K, B

\* The same when nothing but the goroutine changes.
LEMMA BalanceStays ==
  ASSUME NEW m \in Proc, NEW n \in Proc, NEW crew \in [Workers -> Unit], Balanced(m, crew),
         NEW w \in Workers, NEW u, n.job = m.job, Gone(n) = Gone(m), n.report = m.report, n.work = m.work,
         \A r \in Resources : Has(u, r) <=> Has(crew[w], r)
  PROVE  Balanced(n, [crew EXCEPT ![w] = u])
<1>1. \A r \in Resources : Load(u, r) = Load(crew[w], r)
  BY DEF Load
<1>2. Passed(m, crew[w], n, u)
  BY <1>1 DEF Passed
<1> QED  BY <1>2, BalanceMoves

-----------------------------------------------------------------------------
\* What holds of a command and its goroutines while it runs.
LEMMA OfRunning ==
  ASSUME Inv, Accounted, NEW p \in Procs
  PROVE  /\ proc[p] \in Proc /\ unit[p] \in [Workers -> Unit] /\ Off \in Unit /\ Off.pc = "off"
         /\ proc[p].pc # "idle" => Staffed(proc[p], unit[p]) /\ Balanced(proc[p], unit[p])
  BY OffTyped DEF Inv, Typed, Accounted

\* A goroutine of a command that goes on with the resource it has.
LEMMA StaysAccounted ==
  ASSUME Inv, Accounted, NEW p \in Procs, NEW w \in Workers, NEW u,
         unit' = [unit EXCEPT ![p][w] = u], UNCHANGED proc,
         unit[p][w].pc \in Working, u.pc \in Working, u.resource = unit[p][w].resource
  PROVE  Accounted'
<1> DEFINE m == proc[p]
<1>1. /\ unit' = [unit EXCEPT ![p] = [unit[p] EXCEPT ![w] = u]] /\ unit' [p] = [unit[p] EXCEPT ![w] = u]
      /\ \A q \in Procs \ {p} : proc'[q] = proc[q] /\ unit'[q] = unit[q]
      /\ proc'[p] = proc[p]
  BY DEF Inv, Typed
<1>2. ASSUME proc[p].pc # "idle"
      PROVE  Staffed(proc[p], unit'[p]) /\ Balanced(proc[p], unit'[p])
  <2>1. Staffed(proc[p], unit[p]) /\ Balanced(proc[p], unit[p]) /\ proc[p] \in Proc /\ unit[p] \in [Workers -> Unit]
    BY <1>2, OfRunning
  <2>2. \A v \in Workers : unit'[p][v].pc = "off" => unit[p][v].pc = "off"
    BY <1>1, <2>1 DEF Working
  <2>3. Staffed(proc[p], unit'[p])
    BY <2>1, <2>2 DEF Staffed
  <2>4. \A r \in Resources : Has(u, r) <=> Has(unit[p][w], r)
    BY DEF Has
  <2>5. Balanced(proc[p], [unit[p] EXCEPT ![w] = u])
    BY <2>1, <2>4, BalanceStays
  <2> QED  BY <1>1, <2>3, <2>5
<1> QED  BY <1>1, <1>2, OfOne

LEMMA FetchAccounted ==
  ASSUME Inv, Accounted, NEW p \in Procs, NEW w \in Workers, NEW answer \in Answers(p), Fetch(p, w, answer)
  PROVE  Accounted'
<1>1. answer \in {"error", "denied", "preview", "garbled", "unkeyed", "page"}
  BY DEF Answers
<1>2. now \in Times /\ Never \in Times
  BY DEF Inv, Typed, Times
<1>3. \E stage \in {"store", "stamp", "send"} : \E from \in Times : \E result \in Results : Go(p, w, stage, from, result)
  BY <1>1, <1>2 DEF Fetch, Results
<1>4. PICK stage \in {"store", "stamp", "send"}, from \in Times, result \in Results : Go(p, w, stage, from, result)
  BY <1>3
<1>5. \E u \in Unit : /\ unit' = [unit EXCEPT ![p][w] = u] /\ u.pc = stage
                      /\ u.resource = unit[p][w].resource
  BY <1>4, GoTyped
<1>6. unit[p][w].pc \in Working /\ UNCHANGED proc /\ stage \in Working
  BY DEF Fetch, Is, Working
<1>7. PICK u \in Unit : /\ unit' = [unit EXCEPT ![p][w] = u] /\ u.pc = stage
                         /\ u.resource = unit[p][w].resource
  BY <1>5
<1> QED  BY <1>6, <1>7, StaysAccounted

LEMMA StoreAccounted ==
  ASSUME Inv, Accounted, NEW p \in Procs, NEW w \in Workers, NEW outcome, Store(p, w, outcome)
  PROVE  Accounted'
<1>1. unit[p][w] \in Unit /\ Never \in Times
  BY DEF Inv, Typed, Times
<1>2. unit[p][w].from \in Times
  BY <1>1 DEF Unit
<1>3. \E stage \in {"store", "stamp", "send"} : \E from \in Times : \E result \in Results : Go(p, w, stage, from, result)
  BY <1>1, <1>2 DEF Store, Results
<1>4. PICK stage \in {"store", "stamp", "send"}, from \in Times, result \in Results : Go(p, w, stage, from, result)
  BY <1>3
<1>5. \E u \in Unit : /\ unit' = [unit EXCEPT ![p][w] = u] /\ u.pc = stage
                      /\ u.resource = unit[p][w].resource
  BY <1>4, GoTyped
<1>6. unit[p][w].pc \in Working /\ UNCHANGED proc /\ stage \in Working
  BY DEF Store, Is, Working
<1>7. PICK u \in Unit : /\ unit' = [unit EXCEPT ![p][w] = u] /\ u.pc = stage
                         /\ u.resource = unit[p][w].resource
  BY <1>5
<1> QED  BY <1>6, <1>7, StaysAccounted

LEMMA StampAccounted ==
  ASSUME Inv, Accounted, NEW p \in Procs, NEW w \in Workers, NEW landed, Stamp(p, w, landed)
  PROVE  Accounted'
<1> DEFINE u == [unit[p][w] EXCEPT !.pc = "send", !.from = Never]
<1>1. unit[p][w] \in Unit
  BY DEF Inv, Typed
<1>2. unit' = [unit EXCEPT ![p][w] = u] /\ unit[p][w].pc \in Working /\ UNCHANGED proc
  BY DEF Stamp, Is, Working, Inv, Typed, Unit
<1>3. u.pc \in Working /\ u.resource = unit[p][w].resource
  BY <1>1 DEF Unit, Working
<1> HIDE DEF u
<1> QED  BY <1>2, <1>3, StaysAccounted

LEMMA TakeAccounted ==
  ASSUME Inv, Accounted, NEW p \in Procs, NEW w \in Workers, Take(p, w)
  PROVE  Accounted'
<1> DEFINE u == [Off EXCEPT !.pc = "fetch", !.resource = Head(proc[p].work)]
           n == [proc[p] EXCEPT !.work = Tail(@)]
<1>1. proc[p] \in Proc /\ unit[p] \in [Workers -> Unit] /\ Off \in Unit
  BY OfRunning
<1>2. proc[p].work \in Seq(Resources) /\ proc[p].work # <<>> /\ unit[p][w].pc = "take"
  BY <1>1 DEF Take, Is, Proc
<1>3. Head(proc[p].work) \in Resources /\ Tail(proc[p].work) \in Seq(Resources)
  BY <1>2
<1>4. /\ n \in Proc /\ n.work = Tail(proc[p].work) /\ n.report = proc[p].report /\ n.job = proc[p].job
      /\ n.pc = proc[p].pc /\ n.next = proc[p].next /\ n.closed = proc[p].closed /\ n.verdict = proc[p].verdict
  BY <1>1, <1>3 DEF Proc
<1>5. u.pc = "fetch" /\ u.resource = Head(proc[p].work)
  BY <1>1 DEF Unit
<1>6. /\ proc'[p] = n /\ unit'[p] = [unit[p] EXCEPT ![w] = u]
      /\ \A q \in Procs \ {p} : proc'[q] = proc[q] /\ unit'[q] = unit[q]
  BY DEF Take, Inv, Typed
<1> HIDE DEF u, n
<1>7. ASSUME proc[p].pc # "idle"
      PROVE  Staffed(n, [unit[p] EXCEPT ![w] = u]) /\ Balanced(n, [unit[p] EXCEPT ![w] = u])
  <2>1. Staffed(proc[p], unit[p]) /\ Balanced(proc[p], unit[p])
    BY <1>7, OfRunning
  <2>2. \A v \in Workers : [unit[p] EXCEPT ![w] = u][v].pc = "off" => unit[p][v].pc = "off"
    BY <1>1, <1>5
  <2>3. proc[p].pc \in {"feed", "collect"} /\ \A v \in Workers : unit[p][v].pc # "off"
    BY <2>1, <1>2 DEF Staffed
  <2>4. Staffed(n, [unit[p] EXCEPT ![w] = u])
    BY <2>1, <2>2, <2>3, <1>4 DEF Staffed
  <2>5. Gone(n) = Gone(proc[p])
    BY <1>4 DEF Gone
  <2>6. ASSUME NEW r \in Resources
        PROVE  Sum(n.report, r) + Load(u, r) + Cardinality(Places(n.work, Len(n.work), r))
               = Sum(proc[p].report, r) + Load(unit[p][w], r) + Cardinality(Places(proc[p].work, Len(proc[p].work), r))
    <3> DEFINE A == Cardinality(Places(proc[p].work, Len(proc[p].work), r))
               B == Cardinality(Places(n.work, Len(n.work), r))
    <3>1. A = B + (IF Head(proc[p].work) = r THEN 1 ELSE 0)
      BY <1>2, <1>4, PlacesTail
    <3>2. Load(unit[p][w], r) = 0
      BY <1>2 DEF Has, Load, Working
    <3>3. Load(u, r) = IF Head(proc[p].work) = r THEN 1 ELSE 0
      BY <1>5 DEF Has, Load, Working
    <3>4. A \in Nat /\ B \in Nat /\ Sum(proc[p].report, r) \in Nat /\ n.report = proc[p].report
      BY <1>1, <1>2, <1>3, <1>4, PlacesNumber, LenProperties, SumTyped
    <3> HIDE DEF A, B
    <3>5. Sum(n.report, r) + Load(u, r) + B = Sum(proc[p].report, r) + Load(unit[p][w], r) + A
      BY <3>1, <3>2, <3>3, <3>4
    <3> QED  BY <3>5 DEF A, B
  <2>7. Passed(proc[p], unit[p][w], n, u)
    BY <2>6 DEF Passed
  <2>8. Balanced(n, [unit[p] EXCEPT ![w] = u])
    BY <2>1, <2>5, <2>7, <1>1, <1>4, BalanceMoves
  <2> QED  BY <2>4, <2>8
<1> QED  BY <1>4, <1>6, <1>7, OfOne

LEMMA LeaveAccounted ==
  ASSUME Inv, Accounted, NEW p \in Procs, NEW w \in Workers, Leave(p, w)
  PROVE  Accounted'
<1>1. /\ proc[p] \in Proc /\ unit[p] \in [Workers -> Unit] /\ Off.pc = "off" /\ unit[p][w].pc = "take"
      /\ proc[p].work = <<>> /\ proc[p].closed
  BY OfRunning DEF Leave, Is
<1>2. /\ proc'[p] = proc[p] /\ unit'[p] = [unit[p] EXCEPT ![w] = Off]
      /\ \A q \in Procs \ {p} : proc'[q] = proc[q] /\ unit'[q] = unit[q]
  BY DEF Leave, Inv, Typed
<1>3. ASSUME proc[p].pc # "idle"
      PROVE  Staffed(proc[p], [unit[p] EXCEPT ![w] = Off]) /\ Balanced(proc[p], [unit[p] EXCEPT ![w] = Off])
  <2>1. Staffed(proc[p], unit[p]) /\ Balanced(proc[p], unit[p])
    BY <1>3, OfRunning
  <2>2. Staffed(proc[p], [unit[p] EXCEPT ![w] = Off])
    BY <1>1, <2>1 DEF Staffed
  <2>3. \A r \in Resources : Has(Off, r) <=> Has(unit[p][w], r)
    BY <1>1 DEF Has, Working
  <2> QED  BY <1>1, <2>1, <2>2, <2>3, BalanceStays
<1> QED  BY <1>2, <1>3, OfOne


\* A result that leaves a goroutine is in the report.
LEMMA SentAccounted ==
  ASSUME Inv, Accounted, NEW p \in Procs, NEW w \in Workers, NEW u \in Unit, Sent(p, w, u),
         \/ u.pc = "take" /\ proc[p].pc # "refresh"
         \/ u.pc = "off" /\ proc[p].pc = "refresh"
  PROVE  Accounted'
<1> DEFINE o == Outcome(p, w)
           n == [proc[p] EXCEPT !.report = [proc[p].report EXCEPT ![o] = @ + 1]]
<1>1. proc[p] \in Proc /\ unit[p] \in [Workers -> Unit] /\ unit[p][w].pc = "send" /\ unit[p][w] \in Unit
  BY OfRunning DEF Sent
<1>2. /\ o = <<unit[p][w].resource, unit[p][w].result>>
      /\ unit[p][w].resource \in Resources /\ unit[p][w].result \in Results
  BY <1>1 DEF Outcome, Resource, Unit
<1>3. n \in Proc /\ n.pc = proc[p].pc /\ n.next = proc[p].next /\ n.job = proc[p].job
  BY <1>1, <1>2, ReportTyped
<1>4. /\ n.work = proc[p].work /\ n.closed = proc[p].closed /\ n.verdict = proc[p].verdict
      /\ n.report = [proc[p].report EXCEPT ![o] = @ + 1]
  BY <1>1 DEF Proc
<1>5. proc' = [proc EXCEPT ![p] = n]
  BY DEF Sent, Inv, Typed, Proc
<1>6. /\ proc'[p] = n /\ unit'[p] = [unit[p] EXCEPT ![w] = u]
      /\ \A q \in Procs \ {p} : proc'[q] = proc[q] /\ unit'[q] = unit[q]
  BY <1>5 DEF Sent, Inv, Typed
<1> HIDE DEF n, o
<1>7. ASSUME proc[p].pc # "idle"
      PROVE  Staffed(n, [unit[p] EXCEPT ![w] = u]) /\ Balanced(n, [unit[p] EXCEPT ![w] = u])
  <2>1. Staffed(proc[p], unit[p]) /\ Balanced(proc[p], unit[p])
    BY <1>7, OfRunning
  <2>2. ASSUME proc[p].pc # "refresh", NEW v \in Workers, [unit[p] EXCEPT ![w] = u][v].pc = "off"
        PROVE  unit[p][v].pc = "off"
    BY <2>2, <1>1
  <2>3. Staffed(n, [unit[p] EXCEPT ![w] = u])
    BY <2>1, <2>2, <1>3, <1>4 DEF Staffed
  <2>4. Gone(n) = Gone(proc[p])
    BY <1>3 DEF Gone
  <2>5. ASSUME NEW r \in Resources
        PROVE  Sum(n.report, r) + Load(u, r) + Cardinality(Places(n.work, Len(n.work), r))
               = Sum(proc[p].report, r) + Load(unit[p][w], r) + Cardinality(Places(proc[p].work, Len(proc[p].work), r))
    <3> DEFINE A == Cardinality(Places(proc[p].work, Len(proc[p].work), r))
    <3>1. Load(u, r) = 0
      BY DEF Has, Load, Working
    <3>2. Load(unit[p][w], r) = IF unit[p][w].resource = r THEN 1 ELSE 0
      BY <1>1 DEF Has, Load, Working
    <3>3. Sum(n.report, r) = Sum(proc[p].report, r) + (IF unit[p][w].resource = r THEN 1 ELSE 0)
      BY <1>1, <1>2, <1>4, SumMore
    <3>4. proc[p].work \in Seq(Resources)
      BY <1>1 DEF Proc
    <3>5. A \in Nat /\ Sum(proc[p].report, r) \in Nat
      BY <1>1, <3>4, PlacesNumber, LenProperties, SumTyped
    <3> HIDE DEF A
    <3>6. Sum(n.report, r) + Load(u, r) + A = Sum(proc[p].report, r) + Load(unit[p][w], r) + A
      BY <3>1, <3>2, <3>3, <3>5
    <3> QED  BY <3>6, <1>4 DEF A
  <2>6. Passed(proc[p], unit[p][w], n, u)
    BY <2>5 DEF Passed
  <2>7. Balanced(n, [unit[p] EXCEPT ![w] = u])
    BY <2>1, <2>4, <2>6, <1>1, <1>3, BalanceMoves
  <2> QED  BY <2>3, <2>7
<1> QED  BY <1>3, <1>6, <1>7, OfOne

LEMMA SendAccounted ==
  ASSUME Inv, Accounted, NEW p \in Procs, NEW w \in Workers, Send(p, w)
  PROVE  Accounted'
<1> DEFINE u == [Off EXCEPT !.pc = "take"]
<1>1. u \in Unit /\ u.pc = "take"
  BY OffTyped DEF Unit
<1>2. Sent(p, w, u) /\ proc[p].pc # "refresh"
  BY DEF Send, Sent, Is, At
<1> HIDE DEF u
<1> QED  BY <1>1, <1>2, SentAccounted

LEMMA RefreshResultAccounted ==
  ASSUME Inv, Accounted, NEW p \in Procs, RefreshResult(p)
  PROVE  Accounted'
<1>1. Sent(p, Lead, Off) /\ proc[p].pc = "refresh" /\ Lead \in Workers
  BY SyncCommandAssumption DEF RefreshResult, Sent, Is, At
<1> QED  BY <1>1, OffTyped, SentAccounted

-----------------------------------------------------------------------------
\* The books of a command that begins: nothing handed out, and nothing there.
LEMMA BeginBalanced ==
  ASSUME NEW job \in Lines, NEW m \in Proc, m.report = Fresh(job).report, m.work = <<>>, Gone(m) = 0,
         NEW crew, \A w \in Workers : crew[w].pc \in {"off", "take"}
  PROVE  Balanced(m, crew)
<1> SUFFICES ASSUME NEW r \in Resources
             PROVE  Sum(m.report, r) + Cardinality(HeldBy(crew, r)) + Cardinality(Places(m.work, Len(m.work), r))
                    = Cardinality(Places(m.job.resources, Gone(m), r))
  BY DEF Balanced
<1>1. /\ <<r, "success">> \in Resources \X Results /\ <<r, "warn">> \in Resources \X Results
      /\ <<r, "err">> \in Resources \X Results
  BY DEF Results
<1>2. Sum(m.report, r) = 0
  <2>1. m.report = [o \in Resources \X Results |-> 0]
    BY DEF Fresh
  <2> QED  BY <1>1, <2>1 DEF Sum
<1>3. Cardinality(HeldBy(crew, r)) = 0
  BY HeldNone
<1>4. Len(m.work) = 0 /\ Cardinality(Places(m.work, 0, r)) = 0
  BY PlacesNone
<1>5. Cardinality(Places(m.job.resources, Gone(m), r)) = 0
  BY PlacesNone
<1> QED  BY <1>2, <1>3, <1>4, <1>5

LEMMA StartAccounted ==
  ASSUME Inv, Accounted, NEW p \in Procs, NEW job \in Jobs[p], Start(p, job)
  PROVE  Accounted'
<1> DEFINE first == CASE job.kind = "read" -> "decide"
                      [] job.kind = "sync" /\ job.full /\ ~job.dry -> "stamp"
                      [] OTHER -> "feed"
           m == Begun(Fresh(job), first)
           on == job.kind = "sync" /\ ~(job.full /\ ~job.dry)
           crew == [w \in Workers |-> IF on THEN [Off EXCEPT !.pc = "take"] ELSE Off]
<1>1. job \in Lines /\ job.kind \in {"sync", "read"}
  BY SyncCommandAssumption DEF Lines
<1>2. /\ first \in {"decide", "stamp", "feed"} /\ (first = "feed" => on)
      /\ (first # "decide" => job.kind = "sync") /\ (first = "decide" => job.kind = "read")
  BY <1>1
<1>3. m \in Proc /\ m.pc = first /\ m.next = 1 /\ m.job = job
  <2> HIDE DEF first
  <2> QED  BY <1>1, <1>2, FreshTyped, BegunTyped
<1>4. /\ m.report = Fresh(job).report /\ m.work = <<>> /\ m.closed = FALSE /\ m.verdict = "none"
  BY DEF Begun, Fresh
<1>5. \A w \in Workers : crew[w].pc \in {"off", "take"} /\ (on => crew[w].pc = "take")
  BY OffTyped DEF Unit
<1>6. /\ proc'[p] = m /\ unit'[p] = crew
      /\ \A q \in Procs \ {p} : proc'[q] = proc[q] /\ unit'[q] = unit[q]
  BY DEF Start, Begun, Inv, Typed
<1> HIDE DEF m, crew, first, on
<1>7. Staffed(m, crew)
  BY <1>2, <1>3, <1>4, <1>5 DEF Staffed
<1>8. Gone(m) = 0
  BY <1>3 DEF Gone
<1>9. Balanced(m, crew)
  BY <1>1, <1>3, <1>4, <1>5, <1>8, BeginBalanced
<1> QED  BY <1>6, <1>7, <1>9, OfOne


\* The books of a command whose goroutines have what they had.
LEMMA BalanceSame ==
  ASSUME NEW m, NEW n, NEW crew, NEW team, Balanced(m, crew),
         n.job = m.job, n.report = m.report, n.work = m.work, Gone(n) = Gone(m),
         \A r \in Resources : Cardinality(HeldBy(team, r)) = Cardinality(HeldBy(crew, r))
  PROVE  Balanced(n, team)
BY DEF Balanced

LEMMA StampFullAccounted ==
  ASSUME Inv, Accounted, NEW p \in Procs, StampFull(p)
  PROVE  Accounted'
<1> DEFINE last == ~(proc[p].next < Len(List(p)))
           n == proc'[p]
           team == unit'[p]
<1>1. /\ proc[p] \in Proc /\ unit[p] \in [Workers -> Unit] /\ proc[p].pc = "stamp"
      /\ \A w \in Workers : unit[p][w].pc = "off"
      /\ Staffed(proc[p], unit[p]) /\ Balanced(proc[p], unit[p])
  <2>1. proc[p].pc = "stamp"
    BY DEF StampFull, At
  <2> QED  BY <2>1, OfRunning DEF Inv, Staged
<1>4. /\ n.job = proc[p].job /\ n.report = proc[p].report /\ n.work = proc[p].work
      /\ n.closed = proc[p].closed /\ n.verdict = proc[p].verdict
      /\ \/ n.pc = "feed" /\ n.next = 1 /\ \A w \in Workers : team[w].pc = "take"
         \/ n.pc = "stamp" /\ \A w \in Workers : team[w].pc = "off"
  <2>1. CASE last
    <3>1. /\ n = [proc[p] EXCEPT !.next = 1, !.pc = "feed"]
          /\ team = [w \in Workers |-> [Off EXCEPT !.pc = "take"]]
      BY <2>1 DEF StampFull, Inv, Typed, Proc
    <3>2. \A w \in Workers : team[w].pc = "take"
      BY <3>1, CrewTyped
    <3>3. /\ n.job = proc[p].job /\ n.report = proc[p].report /\ n.work = proc[p].work
          /\ n.closed = proc[p].closed /\ n.verdict = proc[p].verdict /\ n.next = 1 /\ n.pc = "feed"
      BY <1>1, <3>1 DEF Proc
    <3> QED  BY <3>2, <3>3
  <2>2. CASE ~last
    <3>1. n = [proc[p] EXCEPT !.next = @ + 1] /\ team = unit[p]
      BY <2>2 DEF StampFull, Inv, Typed
    <3>2. /\ n.job = proc[p].job /\ n.report = proc[p].report /\ n.work = proc[p].work
          /\ n.closed = proc[p].closed /\ n.verdict = proc[p].verdict /\ n.pc = "stamp"
      BY <1>1, <3>1 DEF Proc
    <3> QED  BY <1>1, <3>1, <3>2
  <2> QED  BY <2>1, <2>2
<1>5. \A q \in Procs \ {p} : proc'[q] = proc[q] /\ unit'[q] = unit[q]
  BY DEF StampFull, Inv, Typed
<1> HIDE DEF n, team, last
<1>6. Staffed(n, team)
  BY <1>1, <1>4 DEF Staffed
<1>7. Gone(n) = Gone(proc[p])
  BY <1>1, <1>4 DEF Gone
<1>8. \A r \in Resources : Cardinality(HeldBy(team, r)) = Cardinality(HeldBy(unit[p], r))
  BY <1>1, <1>4, HeldNone
<1>9. Balanced(n, team)
  BY <1>1, <1>4, <1>7, <1>8, BalanceSame
<1> QED  BY <1>5, <1>6, <1>9, OfOne DEF n, team

LEMMA FeedAccounted ==
  ASSUME Inv, Accounted, NEW p \in Procs, Feed(p)
  PROVE  Accounted'
<1> DEFINE m == proc[p]
           e == List(p)[m.next]
           last == m.next = Len(List(p))
           n == [m EXCEPT !.work = Append(m.work, e), !.next = m.next + 1, !.closed = last,
                          !.pc = IF last THEN "collect" ELSE "feed"]
<1>1. /\ m \in Proc /\ unit[p] \in [Workers -> Unit] /\ m.pc = "feed"
      /\ Staffed(m, unit[p]) /\ Balanced(m, unit[p])
  <2>1. proc[p].pc = "feed"
    BY DEF Feed, At
  <2> QED  BY <2>1, OfRunning
<1>2. /\ List(p) = m.job.resources /\ List(p) \in Seq(Resources) /\ m.work \in Seq(Resources)
      /\ m.next \in Nat \ {0} /\ m.next <= Len(List(p)) /\ e \in Resources
  BY <1>1 DEF Inv, Staged, Proc, Lines, List
<1>3. /\ n.job = m.job /\ n.report = m.report /\ n.work = Append(m.work, e) /\ n.next = m.next + 1
      /\ n.closed = last /\ n.verdict = m.verdict /\ n.pc = (IF last THEN "collect" ELSE "feed")
  BY <1>1 DEF Proc
<1>4. proc' = [proc EXCEPT ![p] = n] /\ UNCHANGED unit
  BY DEF Feed, Inv, Typed, Proc
<1>5. proc'[p] = n /\ unit'[p] = unit[p] /\ \A q \in Procs \ {p} : proc'[q] = proc[q] /\ unit'[q] = unit[q]
  BY <1>4 DEF Inv, Typed
<1>6. \A w \in Workers : unit[p][w].pc # "off"
  BY <1>1 DEF Staffed
<1> HIDE DEF n
<1>7. Staffed(n, unit[p])
  <2>1. Staffed(m, unit[p]) /\ m.job.kind = "sync"
    BY <1>1 DEF Staffed
  <2>2. CASE last
    <3>1. n.pc = "collect" /\ n.closed = TRUE /\ n.verdict = m.verdict /\ n.job = m.job
          /\ n.next = Len(m.job.resources) + 1
      BY <1>2, <1>3, <2>2, Zenon
    <3> QED  BY <3>1, <2>1, <1>6, Zenon DEF Staffed
  <2>3. CASE ~last
    <3>1. n.pc = "feed" /\ n.closed = FALSE /\ n.verdict = m.verdict /\ n.job = m.job
      BY <1>3, <2>3, Zenon
    <3> QED  BY <3>1, <2>1, <1>6, Zenon DEF Staffed
  <2> QED  BY <2>2, <2>3
<1>8. /\ Gone(m) = m.next - 1 /\ Gone(n) = Gone(m) + 1 /\ Gone(m) \in Nat /\ m.next = Gone(m) + 1
  BY <1>1, <1>2, <1>3 DEF Gone
<1> HIDE DEF m, e, last
<1>9. ASSUME NEW r \in Resources
      PROVE  Sum(n.report, r) + Cardinality(HeldBy(unit[p], r)) + Cardinality(Places(n.work, Len(n.work), r))
             = Cardinality(Places(n.job.resources, Gone(n), r))
  <2> DEFINE S == Sum(m.report, r)
             H == Cardinality(HeldBy(unit[p], r))
             A == Cardinality(Places(m.work, Len(m.work), r))
             B == Cardinality(Places(n.work, Len(n.work), r))
             C == Cardinality(Places(m.job.resources, Gone(m), r))
             D == Cardinality(Places(m.job.resources, Gone(m) + 1, r))
             one == IF e = r THEN 1 ELSE 0
  <2>1. S \in Nat /\ H \in Nat /\ A \in Nat /\ C \in Nat /\ one \in Nat
    BY <1>1, <1>2, <1>8, SumTyped, HeldNumber, PlacesNumber, LenProperties
  <2>2. B = A + one
    BY <1>2, <1>3, PlacesAppend
  <2>3. D = C + one
    <3>1. m.job.resources[Gone(m) + 1] = e
      BY <1>2, <1>8 DEF e
    <3> QED  BY <1>8, <3>1, PlacesMore
  <2>4. S + H + A = C
    BY <1>1 DEF Balanced
  <2>5. n.report = m.report /\ n.job = m.job /\ Gone(n) = Gone(m) + 1
    BY <1>3, <1>8
  <2> HIDE DEF S, H, A, B, C, D, one
  <2>6. S + H + B = D
    BY <2>1, <2>2, <2>3, <2>4, Z3
  <2> QED  BY <2>5, <2>6 DEF S, H, B, D
<1>10. Balanced(n, unit[p])
  BY <1>9 DEF Balanced
<1> QED  BY <1>5, <1>7, <1>10, OfOne

LEMMA DecideAccounted ==
  ASSUME Inv, Accounted, NEW p \in Procs, proc[p].pc = "decide",
         proc' = [proc EXCEPT ![p].pc = "refresh"], UNCHANGED unit
  PROVE  Accounted'
<1> DEFINE n == [proc[p] EXCEPT !.pc = "refresh"]
<1>1. /\ proc[p] \in Proc /\ Staffed(proc[p], unit[p]) /\ Balanced(proc[p], unit[p])
  BY OfRunning
<1>2. /\ n.job = proc[p].job /\ n.report = proc[p].report /\ n.work = proc[p].work /\ n.next = proc[p].next
      /\ n.closed = proc[p].closed /\ n.verdict = proc[p].verdict /\ n.pc = "refresh"
  BY <1>1 DEF Proc
<1>3. proc'[p] = n /\ unit'[p] = unit[p] /\ \A q \in Procs \ {p} : proc'[q] = proc[q] /\ unit'[q] = unit[q]
  BY DEF Inv, Typed
<1> HIDE DEF n
<1>4. Gone(n) = Gone(proc[p])
  BY <1>1, <1>2 DEF Gone, Staffed
<1>5. Staffed(n, unit[p])
  <2>1. proc[p].job.resources \in Seq(Resources)
    BY <1>1 DEF Proc, Lines
  <2>2. Len(proc[p].job.resources) \in Nat
    BY <2>1, LenProperties
  <2> QED  BY <2>2, <1>1, <1>2 DEF Staffed
<1>6. Balanced(n, unit[p])
  BY <1>1, <1>2, <1>4, BalanceSame
<1> QED  BY <1>3, <1>5, <1>6, OfOne

LEMMA ExpireAccounted ==
  ASSUME Inv, Accounted, NEW p \in Procs, Expire(p)
  PROVE  Accounted'
<1> DEFINE n == [proc[p] EXCEPT !.expired = TRUE]
<1>1. proc[p] \in Proc /\ proc[p].pc = "refresh" /\ Staffed(proc[p], unit[p]) /\ Balanced(proc[p], unit[p])
  <2>1. proc[p].pc = "refresh"
    BY DEF Expire, At
  <2> QED  BY <2>1, OfRunning
<1>2. /\ n.job = proc[p].job /\ n.report = proc[p].report /\ n.work = proc[p].work /\ n.next = proc[p].next
      /\ n.closed = proc[p].closed /\ n.verdict = proc[p].verdict /\ n.pc = "refresh"
  BY <1>1 DEF Proc
<1>3. proc'[p] = n /\ unit'[p] = unit[p] /\ \A q \in Procs \ {p} : proc'[q] = proc[q] /\ unit'[q] = unit[q]
  BY DEF Expire, Inv, Typed
<1> HIDE DEF n
<1>4. Staffed(n, unit[p])
  BY <1>1, <1>2 DEF Staffed
<1>5. Gone(n) = Gone(proc[p])
  BY <1>1, <1>2 DEF Gone
<1>6. Balanced(n, unit[p])
  BY <1>1, <1>2, <1>5, BalanceSame
<1> QED  BY <1>3, <1>4, <1>6, OfOne

LEMMA RefreshNextAccounted ==
  ASSUME Inv, Accounted, NEW p \in Procs, RefreshNext(p)
  PROVE  Accounted'
<1> DEFINE m == proc[p]
           e == List(p)[m.next]
           u == [Off EXCEPT !.pc = "fetch", !.resource = e]
           n == [m EXCEPT !.next = @ + 1]
<1>1. /\ m \in Proc /\ unit[p] \in [Workers -> Unit] /\ m.pc = "refresh" /\ Lead \in Workers
      /\ unit[p][Lead].pc = "off" /\ Staffed(m, unit[p]) /\ Balanced(m, unit[p])
  <2>1. proc[p].pc = "refresh"
    BY DEF RefreshNext, At
  <2> QED  BY <2>1, OfRunning, SyncCommandAssumption DEF RefreshNext, Is
<1>2. /\ List(p) = m.job.resources /\ List(p) \in Seq(Resources)
      /\ m.next \in Nat \ {0} /\ m.next <= Len(List(p)) /\ e \in Resources
  BY <1>1 DEF RefreshNext, Proc, Lines, List
<1>3. /\ n.job = m.job /\ n.report = m.report /\ n.work = m.work /\ n.next = m.next + 1
      /\ n.closed = m.closed /\ n.verdict = m.verdict /\ n.pc = "refresh"
  BY <1>1 DEF Proc
<1>4. u.pc = "fetch" /\ u.resource = e
  BY OffTyped DEF Unit
<1>5. /\ proc'[p] = n /\ unit'[p] = [unit[p] EXCEPT ![Lead] = u]
      /\ \A q \in Procs \ {p} : proc'[q] = proc[q] /\ unit'[q] = unit[q]
  BY DEF RefreshNext, Inv, Typed
<1> HIDE DEF n, u
<1>6. Staffed(n, [unit[p] EXCEPT ![Lead] = u])
  <2>1. Len(m.job.resources) \in Nat
    BY <1>2, LenProperties
  <2> QED  BY <2>1, <1>1, <1>2, <1>3 DEF Staffed
<1>7. /\ Gone(m) = m.next - 1 /\ Gone(n) = Gone(m) + 1 /\ Gone(m) \in Nat /\ m.next = Gone(m) + 1
  BY <1>1, <1>2, <1>3 DEF Gone
<1> HIDE DEF m, e
<1>8. ASSUME NEW r \in Resources
      PROVE  Sum(n.report, r) + Cardinality(HeldBy(With(unit[p], Lead, u), r)) + Cardinality(Places(n.work, Len(n.work), r))
             = Cardinality(Places(n.job.resources, Gone(n), r))
  <2> DEFINE S == Sum(m.report, r)
             H == Cardinality(HeldBy(unit[p], r))
             K == Cardinality(HeldBy(With(unit[p], Lead, u), r))
             A == Cardinality(Places(m.work, Len(m.work), r))
             C == Cardinality(Places(m.job.resources, Gone(m), r))
             D == Cardinality(Places(m.job.resources, Gone(m) + 1, r))
             one == IF e = r THEN 1 ELSE 0
  <2>1. S \in Nat /\ H \in Nat /\ K \in Nat /\ A \in Nat /\ C \in Nat /\ one \in Nat
    <3>1. m.work \in Seq(Resources)
      BY <1>1 DEF Proc
    <3> QED  BY <3>1, <1>1, <1>7, SumTyped, HeldNumber, PlacesNumber, LenProperties
  <2>2. K + Load(unit[p][Lead], r) = H + Load(u, r)
    BY <1>1, HeldChange
  <2>3. Load(unit[p][Lead], r) = 0 /\ Load(u, r) = one
    BY <1>1, <1>4 DEF Load, Has, Working
  <2>4. D = C + one
    <3>1. m.job.resources[Gone(m) + 1] = e
      BY <1>2, <1>7 DEF e
    <3> QED  BY <1>7, <3>1, PlacesMore
  <2>5. S + H + A = C
    BY <1>1 DEF Balanced
  <2>6. n.report = m.report /\ n.job = m.job /\ n.work = m.work /\ Gone(n) = Gone(m) + 1
    BY <1>3, <1>7
  <2> HIDE DEF S, H, K, A, C, D, one
  <2>7. K = H + one
    BY <2>1, <2>2, <2>3
  <2>8. S + K + A = D
    BY <2>1, <2>4, <2>5, <2>7, Z3
  <2> QED  BY <2>6, <2>8 DEF S, K, A, D
<1>9. Balanced(n, [unit[p] EXCEPT ![Lead] = u])
  BY <1>8 DEF Balanced, With
<1> QED  BY <1>5, <1>6, <1>9, OfOne


\* A command that ends keeps no books.
LEMMA IdleAccounted ==
  ASSUME Inv, Accounted, NEW p \in Procs, NEW m, m.pc = "idle", proc' = [proc EXCEPT ![p] = m],
         \A q \in Procs \ {p} : unit'[q] = unit[q]
  PROVE  Accounted'
<1>1. proc'[p].pc = "idle" /\ \A q \in Procs \ {p} : proc'[q] = proc[q] /\ unit'[q] = unit[q]
  BY DEF Inv, Typed
<1> QED  BY <1>1, OfOne

LEMMA EndAccounted ==
  ASSUME Inv, Accounted, NEW p \in Procs, NEW verdict, End(p, verdict)
  PROVE  Accounted'
<1>1. [Fresh(proc[p].job) EXCEPT !.verdict = verdict].pc = "idle"
  BY DEF Fresh
<1> QED  BY <1>1, IdleAccounted DEF End

LEMMA KillAccounted ==
  ASSUME Inv, Accounted, NEW p \in Procs, Kill(p)
  PROVE  Accounted'
<1>1. [Fresh(proc[p].job) EXCEPT !.verdict = "killed"].pc = "idle"
  BY DEF Fresh
<1>2. \A q \in Procs \ {p} : unit'[q] = unit[q]
  BY DEF Kill, Inv, Typed
<1> QED  BY <1>1, <1>2, IdleAccounted DEF Kill

LEMMA NextAccounted ==
  ASSUME Inv, Accounted, [Next]_vars
  PROVE  Accounted'
<1>1. CASE UNCHANGED vars \/ Tick
  <2>1. UNCHANGED <<proc, unit>>
    BY <1>1 DEF vars, Tick
  <2> QED  BY <2>1 DEF Accounted
<1>2. ASSUME NEW p \in Procs, \E job \in Jobs[p] : Start(p, job)
      PROVE  Accounted'
  BY <1>2, StartAccounted
<1>3. ASSUME NEW p \in Procs, Kill(p) \/ Expire(p)
      PROVE  Accounted'
  BY <1>3, KillAccounted, ExpireAccounted
<1>4. ASSUME NEW p \in Procs, Main(p)
      PROVE  Accounted'
  <2>1. CASE Decide(p)
    <3>1. proc[p].pc = "decide"
      BY <2>1 DEF Decide, At
    <3>2. CASE End(p, "fresh")
      BY <3>2, EndAccounted
    <3>3. CASE proc' = [proc EXCEPT ![p].pc = "refresh"] /\ UNCHANGED unit
      BY <3>1, <3>3, DecideAccounted
    <3> QED  BY <2>1, <3>2, <3>3 DEF Decide
  <2>2. CASE Exit(p) \/ DecideFails(p) \/ RefreshEnd(p)
    <3>1. \E verdict \in Verdicts : End(p, verdict)
      BY <2>2 DEF Exit, DecideFails, RefreshEnd, Verdicts
    <3> QED  BY <3>1, EndAccounted
  <2>3. CASE StampFull(p) \/ Feed(p) \/ RefreshNext(p) \/ RefreshResult(p)
    BY <2>3, StampFullAccounted, FeedAccounted, RefreshNextAccounted, RefreshResultAccounted
  <2> QED  BY <1>4, <2>1, <2>2, <2>3 DEF Main
<1>5. ASSUME NEW p \in Procs, NEW w \in Workers, Work(p, w)
      PROVE  Accounted'
  BY <1>5, TakeAccounted, LeaveAccounted, SendAccounted, FetchAccounted, StoreAccounted, StampAccounted DEF Work
<1> QED  BY <1>1, <1>2, <1>3, <1>4, <1>5 DEF Next

LEMMA InitAccounted == Init => Accounted
<1> SUFFICES ASSUME Init, NEW p \in Procs PROVE proc[p].pc = "idle"
  BY DEF Accounted
<1> QED  BY DEF Init, Fresh

-----------------------------------------------------------------------------
\* Who gives a verdict on a whole list.
Concluded(p, verdict) ==
  \/ proc[p].job.kind = "sync" /\ verdict \in {"ok", "failed"}
  \/ verdict = "refreshed"

\* Steps that give none leave it as it is, or say that the command was cut short.
LEMMA VerdictKept ==
  ASSUME Inv, NEW p \in Procs, Next, proc[p].pc # "idle",
         ~Exit(p), ~RefreshEnd(p)
  PROVE  proc'[p].verdict \in {proc[p].verdict, "killed", "fresh", "error"}
<1>1. proc \in [Procs -> Proc]
  BY DEF Inv, Typed
<1>2. CASE Tick
  BY <1>2 DEF Tick
<1>3. ASSUME NEW o \in Procs, NEW job \in Jobs[o], Start(o, job)
      PROVE  proc'[p] = proc[p]
  <2>1. o # p
    BY <1>3 DEF Start, At
  <2> QED  BY <1>1, <1>3, <2>1 DEF Start
<1>4. ASSUME NEW o \in Procs, Kill(o)
      PROVE  proc'[p] = proc[p] \/ proc'[p].verdict = "killed"
  <2>1. proc'[o].verdict = "killed" /\ \A z \in Procs \ {o} : proc'[z] = proc[z]
    BY <1>1, <1>4 DEF Kill, Fresh
  <2> QED  BY <2>1
<1>5. ASSUME NEW o \in Procs, Expire(o)
      PROVE  proc'[p].verdict = proc[p].verdict
  BY <1>1, <1>5 DEF Expire, Proc
<1>6. ASSUME NEW o \in Procs, Main(o)
      PROVE  proc'[p].verdict \in {proc[p].verdict, "killed", "fresh", "error"}
  <2>1. CASE StampFull(o)
    <3>1. CASE proc' = [proc EXCEPT ![o].next = @ + 1]
      BY <1>1, <3>1 DEF Proc
    <3>2. CASE proc' = [proc EXCEPT ![o].next = 1, ![o].pc = "feed"]
      BY <1>1, <3>2 DEF Proc
    <3> QED  BY <2>1, <3>1, <3>2 DEF StampFull
  <2>2. CASE Feed(o)
    BY <1>1, <2>2 DEF Feed, Proc
  <2>3. CASE Exit(o) \/ RefreshEnd(o)
    <3>1. o # p
      BY <2>3
    <3>2. \E verdict \in Verdicts : End(o, verdict)
      BY <2>3 DEF Exit, RefreshEnd, Verdicts
    <3> QED  BY <1>1, <3>1, <3>2 DEF End
  <2>4. CASE Decide(o) \/ DecideFails(o)
    <3>1. CASE proc' = [proc EXCEPT ![o].pc = "refresh"]
      <4>1. proc'[p].verdict = proc[p].verdict
        BY <1>1, <3>1 DEF Proc
      <4> QED  BY <4>1
    <3>2. CASE End(o, "fresh") \/ End(o, "error")
      <4>1. /\ proc'[o].verdict \in {"fresh", "error"}
            /\ \A z \in Procs \ {o} : proc'[z] = proc[z]
        BY <1>1, <3>2 DEF End, Fresh
      <4> QED  BY <4>1
    <3> QED  BY <2>4, <3>1, <3>2 DEF Decide, DecideFails
  <2>5. CASE RefreshNext(o)
    BY <1>1, <2>5 DEF RefreshNext, Proc
  <2>6. CASE RefreshResult(o)
    BY <1>1, <2>6 DEF RefreshResult, Proc
  <2> QED  BY <1>6, <2>1, <2>2, <2>3, <2>4, <2>5, <2>6 DEF Main
<1>7. ASSUME NEW o \in Procs, NEW w \in Workers, Work(o, w)
      PROVE  proc'[p].verdict = proc[p].verdict
  <2>1. CASE Take(o, w)
    BY <1>1, <2>1 DEF Take, Proc
  <2>2. CASE Send(o, w)
    BY <1>1, <2>2 DEF Send, Proc
  <2>3. CASE UNCHANGED proc
    BY <2>3
  <2> QED  BY <1>7, <2>1, <2>2, <2>3 DEF Work, Leave, Fetch, Store, Stamp
<1> QED  BY <1>2, <1>3, <1>4, <1>5, <1>6, <1>7 DEF Next

\* A list gone through, and nothing left anywhere: the report has it all.
LEMMA BooksClosed ==
  ASSUME Inv, Accounted, NEW p \in Procs, proc[p].pc \in {"collect", "refresh"},
         proc[p].next = Len(List(p)) + 1, proc[p].work = <<>>, \A w \in Workers : unit[p][w].pc = "off",
         NEW r \in Resources
  PROVE  Reported(p, r) = Named(p, r)
<1> DEFINE m == proc[p]
<1>1. m \in Proc /\ Balanced(m, unit[p]) /\ m.job.resources \in Seq(Resources) /\ List(p) = m.job.resources
  BY OfRunning DEF List, Proc, Lines
<1>2. Len(m.job.resources) \in Nat /\ DOMAIN m.job.resources = 1..Len(m.job.resources)
  BY <1>1, LenProperties
<1>3. Gone(m) = Len(m.job.resources)
  BY <1>1, <1>2 DEF Gone
<1>4. Cardinality(HeldBy(unit[p], r)) = 0
  BY HeldNone
<1>5. Cardinality(Places(m.work, Len(m.work), r)) = 0
  <2>1. Len(m.work) = 0
    OBVIOUS
  <2> QED  BY <2>1, PlacesNone
<1>6. Sum(m.report, r) \in Nat
  BY <1>1, SumTyped
<1>7. Sum(m.report, r) + 0 + 0 = Cardinality(Places(m.job.resources, Len(m.job.resources), r))
  BY <1>1, <1>3, <1>4, <1>5 DEF Balanced
<1>8. Places(m.job.resources, Len(m.job.resources), r) = {i \in DOMAIN List(p) : List(p)[i] = r}
  BY <1>1, <1>2 DEF Places
<1>9. Reported(p, r) = Sum(m.report, r)
  BY DEF Reported, Sum
<1>10. Sum(m.report, r) = Cardinality(Places(m.job.resources, Len(m.job.resources), r))
  BY <1>6, <1>7
<1> QED  BY <1>8, <1>9, <1>10 DEF Named

LEMMA ConcludedReported ==
  ASSUME Inv, Accounted, [Next]_vars, NEW p \in Procs, ~At(p, "idle"), Concluded(p, proc'[p].verdict),
         NEW r \in Resources
  PROVE  Reported(p, r) = Named(p, r)
<1>1. proc[p] \in Proc /\ Staffed(proc[p], unit[p]) /\ proc[p].pc # "idle" /\ Lead \in Workers
  BY OfRunning, SyncCommandAssumption DEF At
<1>2. proc[p].verdict = "none"
  BY <1>1 DEF Staffed
<1>3. Exit(p) \/ RefreshEnd(p)
  <2>1. CASE UNCHANGED vars
    BY <2>1, <1>2 DEF vars, Concluded
  <2>2. CASE Next /\ ~Exit(p) /\ ~RefreshEnd(p)
    BY <2>2, <1>1, <1>2, VerdictKept DEF Concluded
  <2> QED  BY <2>1, <2>2
<1>4. proc[p].job.resources \in Seq(Resources) /\ List(p) = proc[p].job.resources
      /\ Len(List(p)) \in Nat /\ proc[p].next \in Nat
  BY <1>1, LenProperties DEF List, Proc, Lines
<1>5. CASE Exit(p)
  <2>1. proc[p].pc = "collect" /\ \A w \in Workers : unit[p][w].pc = "off"
    BY <1>5 DEF Exit, At, Is
  <2>2. proc[p].next = Len(List(p)) + 1 /\ proc[p].work = <<>>
    BY <1>1, <1>4, <2>1 DEF Staffed
  <2> QED  BY <2>1, <2>2, BooksClosed
<1>6. CASE RefreshEnd(p)
  <2>1. proc[p].pc = "refresh" /\ \A w \in Workers : unit[p][w].pc = "off"
    BY <1>6 DEF RefreshEnd, At, Is, Inv, Staged
  <2>2. proc[p].job.kind = "read" /\ proc[p].next <= Len(List(p)) + 1 /\ proc[p].work = <<>>
    BY <1>1, <1>4, <2>1 DEF Staffed
  <2>3. proc'[p].verdict = "refreshed"
    BY <2>2, <1>6 DEF Concluded, RefreshEnd, End, Fresh, Inv, Typed
  <2>4. proc[p].next > Len(List(p))
    <3>1. CASE End(p, "failed")
      <4>1. proc'[p].verdict = "failed"
        BY <3>1 DEF End, Fresh, Inv, Typed
      <4> QED  BY <4>1, <2>3
    <3> QED  BY <3>1, <1>6 DEF RefreshEnd
  <2> QED  BY <1>4, <2>1, <2>2, <2>4, BooksClosed
<1> QED  BY <1>3, <1>5, <1>6

\* A sync that ends has counted every resource of its list as often as the list
\* names it, whatever its pool, its list and the order in which its goroutines
\* take, fail and send; and so has a reading command that says it refreshed.
THEOREM ReportsAreComplete == Spec => ReportedOnce
<1>1. Init => Inv /\ Accounted
  BY InitInv, InitAccounted
<1>2. Inv /\ Accounted /\ [Next]_vars => Inv' /\ Accounted'
  BY NextInv, NextAccounted
<1>3. Inv /\ Accounted /\ [Next]_vars =>
        [\A p \in Procs :
           \/ proc[p].job.kind = "sync" /\ Ends(p, {"ok", "failed"})
           \/ Ends(p, {"refreshed"})
           => \A r \in Resources : Reported(p, r) = Named(p, r)]_vars
  BY ConcludedReported DEF Ends, Concluded
<1> QED  BY <1>1, <1>2, <1>3, PTL DEF Spec, ReportedOnce
=============================================================================
