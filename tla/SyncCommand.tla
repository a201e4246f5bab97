----------------------------- MODULE SyncCommand -----------------------------
(***************************************************************************)
(* The sync command and the auto-refresh of the reading commands,            *)
(* internal/cli/sync.go and auto_refresh.go: the pool of workers, the results *)
(* it reports, and sync_state, from which EnsureFresh judges what is fresh.  *)
(*                                                                         *)
(* Processes share the store.  A resource is fetched, stored and stamped in  *)
(* steps of their own; what its rows are is CatalogMirror's subject, here    *)
(* only how old the newest stored answer is.                                *)
(***************************************************************************)
EXTENDS Integers, Sequences, FiniteSets

CONSTANTS
  Procs,       \* processes
  Workers,     \* --concurrency: goroutines of one sync
  Lead,        \* the goroutine of a reading command
  Resources,   \* resources of sync_state
  Jobs,        \* command lines that each process may run
  StaleAfter,  \* staleness budget, 168 hours in the code
  MaxTime,     \* bound: of the clock
  MaxRuns,     \* bound: commands that a process starts
  MaxKills     \* bound: commands killed

\* kind: sync, or a command that reads and may refresh.
Lines == [kind : {"sync", "read"}, resources : Seq(Resources) \ {<<>>},
          full : BOOLEAN, strict : BOOLEAN, dry : BOOLEAN]

ASSUME SyncCommandAssumption ==
  /\ Resources # {} /\ Lead \in Workers /\ IsFiniteSet(Workers)
  /\ \A p \in Procs : Jobs[p] # {} /\ Jobs[p] \subseteq Lines
  /\ {StaleAfter, MaxTime, MaxRuns, MaxKills} \subseteq Nat

Never == -1
Times == {Never} \cup 0..MaxTime
Results == {"success", "warn", "err"}
Verdicts == {"none", "ok", "failed", "fresh", "refreshed", "error", "killed"}

VARIABLES
  now,       \* the clock
  sync,      \* sync_state; at: last_synced_at; from: when the answer behind it was fetched
  answered,  \* when the newest answer in the store was fetched
  proc,      \* the main goroutine of each process, its channels and what it told
  unit,      \* the goroutines that run syncResource
  runs, kills

vars == <<now, sync, answered, proc, unit, runs, kills>>

Proc == [pc : {"idle", "stamp", "feed", "collect", "decide", "refresh"}, job : Lines,
         next : Nat \ {0}, work : Seq(Resources), closed : BOOLEAN,
         report : [Resources \X Results -> Nat],
         expired : BOOLEAN, verdict : Verdicts]
Unit == [pc : {"off", "take", "fetch", "store", "stamp", "send"}, resource : Resources,
         from : Times, result : Results]

Fresh(job) == [pc |-> "idle", job |-> job, next |-> 1, work |-> <<>>, closed |-> FALSE,
               report |-> [o \in Resources \X Results |-> 0], expired |-> FALSE, verdict |-> "none"]
Off == [pc |-> "off", resource |-> CHOOSE r \in Resources : TRUE, from |-> Never, result |-> "err"]

TypeOK ==
  /\ now \in 0..MaxTime
  /\ sync \in [Resources -> [at : Times, from : Times]] /\ answered \in [Resources -> Times]
  /\ proc \in [Procs -> Proc] /\ unit \in [Procs -> [Workers -> Unit]]
  /\ \A p \in Procs : proc[p].pc = "idle" => \A w \in Workers : unit[p][w].pc = "off"
  /\ runs \in [Procs -> 0..MaxRuns] /\ kills \in 0..MaxKills

Init ==
  /\ now = 0
  /\ sync = [r \in Resources |-> [at |-> Never, from |-> Never]]
  /\ answered = [r \in Resources |-> Never]
  /\ proc = [p \in Procs |-> Fresh(CHOOSE job \in Jobs[p] : TRUE)]
  /\ unit = [p \in Procs |-> [w \in Workers |-> Off]]
  /\ runs = [p \in Procs |-> 0] /\ kills = 0

-----------------------------------------------------------------------------
At(p, stage) == proc[p].pc = stage
Is(p, w, stage) == unit[p][w].pc = stage
List(p) == proc[p].job.resources
Resource(p, w) == unit[p][w].resource
AllOff == [w \in Workers |-> Off]

Start(p, job) ==
  /\ At(p, "idle") /\ runs[p] < MaxRuns /\ runs' = [runs EXCEPT ![p] = @ + 1]
  /\ proc' = [proc EXCEPT ![p] = [Fresh(job) EXCEPT !.pc =
       CASE job.kind = "read" -> "decide"
         [] job.kind = "sync" /\ job.full /\ ~job.dry -> "stamp"
         [] OTHER -> "feed"]]
  /\ unit' = [unit EXCEPT ![p] = [w \in Workers |-> IF job.kind = "sync" /\ ~(job.full /\ ~job.dry)
                                                    THEN [Off EXCEPT !.pc = "take"] ELSE Off]]
  /\ UNCHANGED <<now, sync, answered, kills>>

\* The command returns, and what it told remains.
End(p, verdict) ==
  /\ proc' = [proc EXCEPT ![p] = [Fresh(proc[p].job) EXCEPT !.verdict = verdict]]
  /\ UNCHANGED unit

Kill(p) ==
  /\ ~At(p, "idle") /\ kills < MaxKills /\ kills' = kills + 1
  /\ proc' = [proc EXCEPT ![p] = [Fresh(proc[p].job) EXCEPT !.verdict = "killed"]]
  /\ unit' = [unit EXCEPT ![p] = AllOff]
  /\ UNCHANGED <<now, sync, answered, runs>>

\* SaveSyncState stamps the present; its error is dropped.
SaveSyncState(r, from, landed) ==
  sync' = IF landed THEN [sync EXCEPT ![r] = [at |-> now, from |-> from]] ELSE sync

\* --full: sync_state of every resource of the list, before anything is fetched.
\* (That this write fails is left out: it leaves sync_state as a read finds it.)
StampFull(p) ==
  /\ At(p, "stamp")
  /\ SaveSyncState(List(p)[proc[p].next], Never, TRUE)
  /\ IF proc[p].next < Len(List(p))
     THEN proc' = [proc EXCEPT ![p].next = @ + 1] /\ UNCHANGED unit
     ELSE /\ proc' = [proc EXCEPT ![p].next = 1, ![p].pc = "feed"]
          /\ unit' = [unit EXCEPT ![p] = [w \in Workers |-> [Off EXCEPT !.pc = "take"]]]
  /\ UNCHANGED <<now, answered, runs, kills>>

\* Mutant: the channel stays open after the last resource.
FeedLeavesOpen(p) ==
  /\ At(p, "feed")
  /\ LET last == proc[p].next = Len(List(p)) IN
     proc' = [proc EXCEPT ![p].work = Append(@, List(p)[proc[p].next]), ![p].next = @ + 1,
                          ![p].pc = IF last THEN "collect" ELSE "feed"]
  /\ UNCHANGED <<now, sync, answered, unit, runs, kills>>

\* The work channel holds all resources, so that no send blocks.
Feed(p) ==
  /\ At(p, "feed")
  /\ LET last == proc[p].next = Len(List(p)) IN
     proc' = [proc EXCEPT ![p].work = Append(@, List(p)[proc[p].next]), ![p].next = @ + 1,
                          ![p].closed = last, ![p].pc = IF last THEN "collect" ELSE "feed"]
  /\ UNCHANGED <<now, sync, answered, unit, runs, kills>>

-----------------------------------------------------------------------------
Take(p, w) ==
  /\ Is(p, w, "take") /\ proc[p].work # <<>>
  /\ unit' = [unit EXCEPT ![p][w] = [Off EXCEPT !.pc = "fetch", !.resource = Head(proc[p].work)]]
  /\ proc' = [proc EXCEPT ![p].work = Tail(@)]
  /\ UNCHANGED <<now, sync, answered, runs, kills>>

\* The range over the closed channel ends.
Leave(p, w) ==
  /\ Is(p, w, "take") /\ proc[p].work = <<>> /\ proc[p].closed
  /\ unit' = [unit EXCEPT ![p][w] = Off]
  /\ UNCHANGED <<now, sync, answered, proc, runs, kills>>

\* What c.Get and the first look at the page come to.
Answers(p) ==
  {"error", "denied"} \cup CASE proc[p].job.dry -> {"preview"}
                             [] proc[p].expired -> {}
                             [] OTHER -> {"garbled", "unkeyed", "page"}

Go(p, w, stage, from, result) ==
  unit' = [unit EXCEPT ![p][w].pc = stage, ![p][w].from = from, ![p][w].result = result]

\* syncResource up to the page.  A refusal and an unfilled path are warnings, and
\* leave sync_state alone; a body that is not JSON ends the loop as a success
\* with nothing stored, and items without a key as a warning, both stamped.
Fetch(p, w, answer) ==
  /\ Is(p, w, "fetch") /\ answer \in Answers(p)
  /\ CASE answer = "error"   -> Go(p, w, "send", Never, "err")
       [] answer = "denied"  -> Go(p, w, "send", Never, "warn")
       [] answer = "preview" -> Go(p, w, "send", Never, "success")
       [] answer = "garbled" -> Go(p, w, "stamp", Never, "success")
       [] answer = "unkeyed" -> Go(p, w, "stamp", Never, "warn")
       [] answer = "page"    -> Go(p, w, "store", now, "success")
  /\ UNCHANGED <<now, sync, answered, proc, runs, kills>>

Keep(r, from) == answered' = [answered EXCEPT ![r] = IF @ < from THEN from ELSE @]

\* Mutant: a batch that fails is as good as stored.
StoreErrorIgnored(p, w, outcome) ==
  /\ Is(p, w, "store")
  /\ IF outcome = "unrecorded" THEN Go(p, w, "send", Never, "err")
                               ELSE Go(p, w, "stamp", unit[p][w].from, "success")
  /\ IF outcome = "failed" THEN UNCHANGED answered ELSE Keep(Resource(p, w), unit[p][w].from)
  /\ UNCHANGED <<now, sync, proc, runs, kills>>

\* The page, empty or not, in one transaction; then, in another, that its scope is
\* complete, which may fail with the rows stored.
Store(p, w, outcome) ==
  /\ Is(p, w, "store")
  /\ IF outcome = "stored" THEN Go(p, w, "stamp", unit[p][w].from, "success")
                           ELSE Go(p, w, "send", Never, "err")
  /\ IF outcome = "failed" THEN UNCHANGED answered ELSE Keep(Resource(p, w), unit[p][w].from)
  /\ UNCHANGED <<now, sync, proc, runs, kills>>

Stamp(p, w, landed) ==
  /\ Is(p, w, "stamp") /\ SaveSyncState(Resource(p, w), unit[p][w].from, landed)
  /\ unit' = [unit EXCEPT ![p][w].pc = "send", ![p][w].from = Never]
  /\ UNCHANGED <<now, answered, proc, runs, kills>>

Outcome(p, w) == <<Resource(p, w), unit[p][w].result>>

\* Mutant: a worker ends with its first failure.
SendAndGiveUp(p, w) ==
  /\ Is(p, w, "send") /\ ~At(p, "refresh")
  /\ proc' = [proc EXCEPT ![p].report[Outcome(p, w)] = @ + 1]
  /\ unit' = [unit EXCEPT ![p][w] = IF @.result = "err" THEN Off ELSE [Off EXCEPT !.pc = "take"]]
  /\ UNCHANGED <<now, sync, answered, runs, kills>>

\* The results channel holds all of them too; report is what was sent to it.
Send(p, w) ==
  /\ Is(p, w, "send") /\ ~At(p, "refresh")
  /\ proc' = [proc EXCEPT ![p].report[Outcome(p, w)] = @ + 1]
  /\ unit' = [unit EXCEPT ![p][w] = [Off EXCEPT !.pc = "take"]]
  /\ UNCHANGED <<now, sync, answered, runs, kills>>

Told(p, result) == \E r \in Resources : proc[p].report[<<r, result>>] > 0

\* The loop over the results, which are closed when every worker has left, counts
\* them in any order.  The exit code: 0 when a
\* resource succeeded, and under --strict none failed.
Exit(p) ==
  /\ At(p, "collect") /\ \A w \in Workers : Is(p, w, "off")
  /\ End(p, IF Told(p, "success") /\ ~(proc[p].job.strict /\ Told(p, "err")) THEN "ok" ELSE "failed")
  /\ UNCHANGED <<now, sync, answered, runs, kills>>

-----------------------------------------------------------------------------
\* EnsureFresh, of one resource; a budget of zero is none.  The stamp is cut to a
\* second and the present is not: as many whole seconds are more than the budget.
Stale(r) == sync[r].at = Never \/ (StaleAfter > 0 /\ now - sync[r].at >= StaleAfter)

\* autoRefreshIfStale up to the decision.
Decide(p) ==
  /\ At(p, "decide")
  /\ IF \E i \in DOMAIN List(p) : Stale(List(p)[i])
     THEN proc' = [proc EXCEPT ![p].pc = "refresh"] /\ UNCHANGED unit
     ELSE End(p, "fresh")
  /\ UNCHANGED <<now, sync, answered, runs, kills>>

\* The store does not open, or the query fails: the command goes on without.
DecideFails(p) ==
  /\ At(p, "decide") /\ End(p, "error")
  /\ UNCHANGED <<now, sync, answered, runs, kills>>

\* The budget of thirty seconds.
Expire(p) ==
  /\ At(p, "refresh") /\ ~proc[p].expired /\ proc' = [proc EXCEPT ![p].expired = TRUE]
  /\ UNCHANGED <<now, sync, answered, unit, runs, kills>>

\* runAutoRefresh takes the resources one after the other while there is time.
RefreshNext(p) ==
  /\ At(p, "refresh") /\ Is(p, Lead, "off") /\ ~proc[p].expired /\ proc[p].next <= Len(List(p))
  /\ proc' = [proc EXCEPT ![p].next = @ + 1]
  /\ unit' = [unit EXCEPT ![p][Lead] = [Off EXCEPT !.pc = "fetch", !.resource = List(p)[proc[p].next]]]
  /\ UNCHANGED <<now, sync, answered, runs, kills>>

RefreshResult(p) ==
  /\ At(p, "refresh") /\ Is(p, Lead, "send")
  /\ proc' = [proc EXCEPT ![p].report[Outcome(p, Lead)] = @ + 1]
  /\ unit' = [unit EXCEPT ![p][Lead] = Off]
  /\ UNCHANGED <<now, sync, answered, runs, kills>>

\* Warnings do not count; nor is there a refresh when no client can be built.
RefreshEnd(p) ==
  /\ At(p, "refresh") /\ Is(p, Lead, "off")
  /\ \/ /\ proc[p].next > Len(List(p))
        /\ End(p, IF Told(p, "err") THEN "failed" ELSE "refreshed")
     \/ /\ proc[p].next <= Len(List(p)) /\ (proc[p].expired \/ proc[p].next = 1)
        /\ End(p, "failed")
  /\ UNCHANGED <<now, sync, answered, runs, kills>>

Tick ==
  /\ now < MaxTime /\ now' = now + 1
  /\ UNCHANGED <<sync, answered, proc, unit, runs, kills>>

\* A step of the main goroutine, and of a worker, that the code takes by itself.
Main(p) ==
  \/ StampFull(p) \/ Feed(p) \/ Exit(p)
  \/ Decide(p) \/ DecideFails(p) \/ RefreshNext(p) \/ RefreshResult(p) \/ RefreshEnd(p)

Work(p, w) ==
  \/ Take(p, w) \/ Leave(p, w) \/ Send(p, w) \/ \E answer \in Answers(p) : Fetch(p, w, answer)
  \/ \E outcome \in {"stored", "failed", "unrecorded"} : Store(p, w, outcome)
  \/ \E landed \in BOOLEAN : Stamp(p, w, landed)

Next ==
  \/ Tick
  \/ \E p \in Procs :
       (\E job \in Jobs[p] : Start(p, job)) \/ Kill(p) \/ Expire(p) \/ Main(p) \/ \E w \in Workers : Work(p, w)

\* A process with a goroutine that can run goes on, and a request ends.
Spec == Init /\ [][Next]_vars /\ \A p \in Procs : WF_vars(Main(p) \/ \E w \in Workers : Work(p, w))

-----------------------------------------------------------------------------
Named(p, r) == Cardinality({i \in DOMAIN List(p) : List(p)[i] = r})
Reported(p, r) == LET of(result) == proc[p].report[<<r, result>>] IN of("success") + of("warn") + of("err")

\* A sync that ends has counted every resource of its list exactly once, however
\* its workers interleave and whichever of them fail; and a reading command that
\* says it refreshed has gone through its whole list within the budget.
Ends(p, verdicts) == ~At(p, "idle") /\ proc'[p].verdict \in verdicts

ReportedOnce ==
  [][\A p \in Procs :
       \/ proc[p].job.kind = "sync" /\ Ends(p, {"ok", "failed"})
       \/ Ends(p, {"refreshed"})
       => \A r \in Resources : Reported(p, r) = Named(p, r)]_vars

\* A stamp that a fetched answer is behind is never ahead of the rows: the store
\* holds that answer or a newer one, wherever processes are killed, writes fail
\* and two commands sync one resource.
StampAfterRows == \A r \in Resources : sync[r].from <= answered[r]

\* A command ends, whichever of its resources fail and in whatever order.
CommandsEnd == \A p \in Procs : ~At(p, "idle") ~> At(p, "idle")
=============================================================================
