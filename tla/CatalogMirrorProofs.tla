------------------------- MODULE CatalogMirrorProofs -------------------------
(***************************************************************************)
(* The safety of CatalogMirror for any clients, scopes, ids, filters and    *)
(* runs, and for any number of runs, changes and damaged batches.           *)
(***************************************************************************)
EXTENDS CatalogMirror, TLAPS

\* What a response to scope s under filter f may claim: only records the scope
\* has published, none unless it is a list, and all of them if nothing filters.
Honest(r, s, f) ==
  /\ r.ids \subseteq ever[s]
  /\ r.kind # "list" => r.ids = {}
  /\ r.kind = "list" /\ f = Ids => r.whole \subseteq r.ids

\* The store, the cache and the published catalogs.
FilesOK ==
  /\ IndexesFollowRows
  /\ RowsWerePublished
  /\ \A s \in Scopes : upstream[s] \subseteq ever[s]
  /\ \A s \in Scopes : snap[s] => fetched[s]
  /\ \A s \in Scopes, f \in Filters : cache[s][f] # NoEntry => Honest(cache[s][f], s, f)

\* A client holds an honest response and shows published records.
Holds(c) ==
  /\ Honest(Resp(c), Scope(c), Job(c).filter)
  /\ \A s \in Scopes : client[c].answer[s] \subseteq ever[s]

\* Who has come this far has the evidence its next steps rely on.
Evidence(c) ==
  /\ client[c].pc \in {"reconcile", "snapshot", "record", "checkOther", "load", "loadOther", "answered"}
       => fetched[Scope(c)]
  /\ Op(c) = "diff" /\ client[c].pc \in {"load", "loadOther", "answered"} => fetched[Job(c).other]
  /\ At(c, "reconcile") => Op(c) = "full" /\ Complete(c)

\* An undisturbed --full run: first everything seen is stored, then nothing else is.
Mirroring(c) ==
  Op(c) = "full" /\ client[c].clean =>
    /\ At(c, "reconcile") => Resp(c).ids \subseteq rows[Scope(c)]
    /\ At(c, "snapshot") => rows[Scope(c)] = Resp(c).ids

ClientOK(c) == Holds(c) /\ Evidence(c) /\ Mirroring(c)

IInv == TypeOK /\ FilesOK /\ \A c \in Clients : ClientOK(c)
-----------------------------------------------------------------------------
(* Clients.                                                                 *)

\* Nothing is published, held or stored in the idle response.
LEMMA IdleType == Idle \in Client /\ Idle.pc = "idle" /\ Idle.resp = NoResp /\ Idle.clean
                  /\ NoResp \in Response /\ Idle.answer = Nothing
<1>1. (CHOOSE j \in Jobs : TRUE) \in Jobs
  BY JobsAssumption
<1>2. NoResp \in Response
  BY DEF NoResp, Response, Kinds
<1>3. Nothing \in [Scopes -> SUBSET Ids]
  BY DEF Nothing
<1>. QED
  BY <1>1, <1>2, <1>3 DEF Idle, Client, Stages

\* A job names its scopes and its filter.
LEMMA JobType ==
  ASSUME TypeOK, NEW c \in Clients
  PROVE  /\ client[c] \in Client
         /\ Job(c) \in JobRecord /\ Scope(c) \in Scopes /\ Job(c).other \in Scopes
         /\ Job(c).filter \in Filters /\ Op(c) \in Ops /\ Job(c).capped \in BOOLEAN
         /\ Resp(c) \in Response
<1>1. client[c] \in Client
  BY DEF TypeOK
<1>2. client[c].job \in JobRecord /\ client[c].resp \in Response
  BY <1>1, JobsAssumption DEF Client
<1>. QED
  BY <1>1, <1>2 DEF Job, Scope, Op, Resp, JobRecord

\* What Goto, GotoWith and Return do to the clients.
LEMMA GotoClient ==
  ASSUME TypeOK, NEW c \in Clients, NEW stage \in Stages, NEW r \in Response,
         GotoWith(c, stage, r)
  PROVE  /\ client' \in [Clients -> Client]
         /\ \A d \in Clients : d # c => client'[d] = client[d]
         /\ stage = "idle" => client'[c] = Idle
         /\ stage # "idle" => client'[c] = [client[c] EXCEPT !.pc = stage, !.resp = r]
<1>1. client \in [Clients -> Client]
  BY DEF TypeOK
<1>2. client[c] \in Client
  BY <1>1
<1>3. [client[c] EXCEPT !.pc = stage, !.resp = r] \in Client
  BY <1>2 DEF Client
<1>. QED
  BY <1>1, <1>3, IdleType DEF GotoWith

\* An idle client is in order.
LEMMA IdleOK ==
  ASSUME NEW c \in Clients, client'[c] = Idle
  PROVE  ClientOK(c)'
<1>1. Holds(c)'
  BY IdleType DEF Holds, Honest, Resp, Scope, Job, NoResp, Nothing
<1>2. Evidence(c)'
  BY IdleType DEF Evidence, At
<1>3. Mirroring(c)'
  BY IdleType DEF Mirroring, At
<1>. QED
  BY <1>1, <1>2, <1>3 DEF ClientOK

\* History only grows, so what a client holds stays honest and its evidence stays.
LEMMA StaysOK ==
  ASSUME TypeOK, NEW d \in Clients, Holds(d), Evidence(d),
         client'[d].pc = client[d].pc, client'[d].job = client[d].job,
         client'[d].resp = client[d].resp, client'[d].answer = client[d].answer,
         \A s \in Scopes : ever[s] \subseteq ever'[s],
         \A s \in Scopes : fetched[s] => fetched'[s]
  PROVE  Holds(d)' /\ Evidence(d)'
<1>0. Scope(d) \in Scopes /\ Job(d).other \in Scopes
  BY JobType
<1>1. Holds(d)'
  BY <1>0 DEF Holds, Honest, Resp, Scope, Job
<1>2. Complete(d)' = Complete(d)
  BY DEF Complete, HasItems, Resp, Job
<1>3. Evidence(d)'
  BY <1>0, <1>2 DEF Evidence, Scope, Job, Op, At
<1>. QED
  BY <1>1, <1>3

\* A step of c that stores nothing leaves everybody else in order.
LEMMA OthersOK ==
  ASSUME IInv, NEW c \in Clients,
         \A d \in Clients : d # c => client'[d] = client[d],
         rows' = rows,
         \A s \in Scopes : ever[s] \subseteq ever'[s],
         \A s \in Scopes : fetched[s] => fetched'[s]
  PROVE  \A d \in Clients : d # c => ClientOK(d)'
<1> SUFFICES ASSUME NEW d \in Clients, d # c
             PROVE  ClientOK(d)'
  OBVIOUS
<1>1. client'[d] = client[d]
  OBVIOUS
<1>2. Holds(d)' /\ Evidence(d)'
  BY <1>1, StaysOK DEF IInv, ClientOK
<1>3. Mirroring(d)'
  BY <1>1 DEF IInv, ClientOK, Mirroring, Op, Job, Scope, Resp, At
<1>. QED
  BY <1>2, <1>3 DEF ClientOK

\* A step of c that writes its own scope disturbs the --full runs on that scope,
\* and leaves everybody else in order.
LEMMA OthersDisturbed ==
  ASSUME IInv, NEW c \in Clients, NEW stage \in Stages,
         GotoAfterWrite(c, stage),
         \A s \in Scopes : s # Scope(c) => rows'[s] = rows[s],
         ever' = ever,
         \A s \in Scopes : fetched[s] => fetched'[s]
  PROVE  /\ client' \in [Clients -> Client]
         /\ client'[c] = [client[c] EXCEPT !.pc = stage]
         /\ \A d \in Clients : d # c => ClientOK(d)'
<1>1. client \in [Clients -> Client] /\ TypeOK
  BY DEF IInv, TypeOK
<1>2. \A d \in Clients : [client[d] EXCEPT !.pc = stage] \in Client
                       /\ [client[d] EXCEPT !.clean = FALSE] \in Client
  BY <1>1 DEF Client
<1>3. client' \in [Clients -> Client] /\ client'[c] = [client[c] EXCEPT !.pc = stage]
  BY <1>1, <1>2 DEF GotoAfterWrite
<1>4. ASSUME NEW d \in Clients, d # c
      PROVE  ClientOK(d)'
  <2>0. client[d] \in Client /\ Scope(d) \in Scopes
    BY <1>1, JobType
  <2>1. \/ client'[d] = client[d] /\ ~(Op(d) = "full" /\ Scope(d) = Scope(c) /\ ~At(d, "idle"))
        \/ client'[d] = [client[d] EXCEPT !.clean = FALSE]
    BY <1>4 DEF GotoAfterWrite
  <2>2. /\ client'[d].pc = client[d].pc /\ client'[d].job = client[d].job
        /\ client'[d].resp = client[d].resp /\ client'[d].answer = client[d].answer
    BY <2>0, <2>1 DEF Client
  <2>3. Holds(d)' /\ Evidence(d)'
    BY <1>1, <2>2, StaysOK DEF IInv, ClientOK
  <2>4. Mirroring(d)'
    <3>1. CASE client'[d] = [client[d] EXCEPT !.clean = FALSE]
      BY <2>0, <3>1 DEF Mirroring, Client
    <3>2. CASE client'[d] = client[d] /\ Op(d) # "full"
      BY <3>2 DEF Mirroring, Op, Job
    <3>3. CASE client'[d] = client[d] /\ At(d, "idle")
      BY <3>3 DEF Mirroring, At
    <3>4. CASE client'[d] = client[d] /\ Scope(d) # Scope(c)
      <4>1. rows'[Scope(d)] = rows[Scope(d)]
        BY <2>0, <3>4
      <4>. QED
        BY <3>4, <4>1 DEF IInv, ClientOK, Mirroring, Op, Job, Scope, Resp, At
    <3>. QED
      BY <2>1, <3>1, <3>2, <3>3, <3>4
  <2>. QED
    BY <2>3, <2>4 DEF ClientOK
<1>. QED
  BY <1>3, <1>4
-----------------------------------------------------------------------------
(* Steps.                                                                   *)

\* A step that only moves c, to where it is in order, keeps the invariant.
LEMMA QuietStep ==
  ASSUME IInv, NEW c \in Clients, NEW stage \in Stages, NEW r \in Response,
         GotoWith(c, stage, r), UNCHANGED <<store, world, cache, counts, fetched>>,
         ClientOK(c)'
  PROVE  IInv'
<1>0. TypeOK /\ FilesOK
  BY DEF IInv
<1>1. /\ client' \in [Clients -> Client]
      /\ \A d \in Clients : d # c => client'[d] = client[d]
  BY <1>0, GotoClient
<1>2. TypeOK'
  BY <1>0, <1>1 DEF TypeOK, store, world
<1>3. FilesOK'
  BY <1>0 DEF FilesOK, IndexesFollowRows, RowsWerePublished, Honest, store, world
<1>4. \A d \in Clients : d # c => ClientOK(d)'
  BY <1>1, OthersOK DEF store, world
<1>. QED
  BY <1>2, <1>3, <1>4 DEF IInv

\* Going home is always in order.
LEMMA ReturnStep ==
  ASSUME IInv, NEW c \in Clients, Return(c),
         UNCHANGED <<store, world, cache, counts, fetched>>
  PROVE  IInv'
<1>1. TypeOK /\ Resp(c) \in Response /\ "idle" \in Stages
  BY JobType DEF IInv, Stages
<1>2. GotoWith(c, "idle", Resp(c))
  BY DEF Return, Goto
<1>3. client'[c] = Idle
  BY <1>1, <1>2, GotoClient
<1>. QED
  BY <1>1, <1>2, <1>3, IdleOK, QuietStep

\* The step of a client whose state and response are known, field by field.
LEMMA MovedClient ==
  ASSUME TypeOK, NEW c \in Clients, NEW stage \in Stages, stage # "idle",
         NEW r \in Response, GotoWith(c, stage, r)
  PROVE  /\ client'[c].pc = stage /\ client'[c].resp = r
         /\ client'[c].job = client[c].job /\ client'[c].answer = client[c].answer
         /\ client'[c].clean = client[c].clean
<1>1. client'[c] = [client[c] EXCEPT !.pc = stage, !.resp = r]
  BY GotoClient, ZenonT(60)
<1>. QED
  BY <1>1, JobType DEF Client

\* What the server may answer is honest.
LEMMA RepliesHonest ==
  ASSUME TypeOK, FilesOK, NEW s \in Scopes, NEW f \in Filters, NEW r \in Replies(s, f)
  PROVE  r \in Response /\ Honest(r, s, f)
<1>1. PICK k \in Kinds : r = [kind |-> k, ids |-> IF k = "list" THEN upstream[s] \cap f ELSE {},
                              whole |-> upstream[s]]
  BY DEF Replies
<1>2. upstream[s] \subseteq Ids /\ upstream[s] \subseteq ever[s] /\ f \subseteq Ids
  BY FiltersAssumption DEF TypeOK, FilesOK
<1>. QED
  BY <1>1, <1>2 DEF Response, Honest

LEMMA InitIInv == Init => IInv
<1> SUFFICES ASSUME Init
             PROVE  IInv
  OBVIOUS
<1>1. TypeOK
  <2>1. client \in [Clients -> Client]
    BY IdleType DEF Init
  <2>2. ever \in [Scopes -> SUBSET Ids]
    BY DEF Init
  <2>3. counts \in [runs : 0..MaxRuns, changes : 0..MaxChanges, lost : 0..MaxLost]
    BY BoundsAssumption DEF Init
  <2>. QED
    BY <2>1, <2>2, <2>3 DEF Init, TypeOK
<1>2. FilesOK
  BY DEF Init, FilesOK, IndexesFollowRows, RowsWerePublished
<1>3. ASSUME NEW c \in Clients
      PROVE  ClientOK(c)
  <2>1. client[c] = Idle
    BY DEF Init
  <2>2. Holds(c)
    BY <2>1, IdleType DEF Holds, Honest, Resp, Scope, Job, NoResp, Nothing
  <2>. QED
    BY <2>1, <2>2, IdleType DEF ClientOK, Evidence, Mirroring, At
<1>. QED
  BY <1>1, <1>2, <1>3 DEF IInv
-----------------------------------------------------------------------------
(* The environment and the start of a run.                                  *)

LEMMA PublishedCatalogChangesStep ==
  ASSUME IInv, NEW s \in Scopes, PublishedCatalogChanges(s)
  PROVE  IInv'
<1>0. TypeOK /\ FilesOK
  BY DEF IInv
<1>1. PICK ids \in SUBSET Ids : /\ upstream' = [upstream EXCEPT ![s] = ids]
                                /\ ever' = [ever EXCEPT ![s] = @ \cup ids]
  BY DEF PublishedCatalogChanges
<1>2. UNCHANGED <<rows, typed, fts, stray, snap, cache, client, fetched>>
  BY DEF PublishedCatalogChanges, store
<1>3. \A z \in Scopes : ever[z] \subseteq ever'[z] /\ upstream'[z] \subseteq ever'[z]
  BY <1>0, <1>1 DEF TypeOK, FilesOK
<1>4. TypeOK'
  <2>1. counts' \in [runs : 0..MaxRuns, changes : 0..MaxChanges, lost : 0..MaxLost]
    BY <1>0, BoundsAssumption DEF TypeOK, PublishedCatalogChanges
  <2>2. upstream' \in [Scopes -> SUBSET Ids] /\ ever' \in [Scopes -> SUBSET Ids]
    BY <1>0, <1>1 DEF TypeOK
  <2>. QED
    BY <1>0, <1>2, <2>1, <2>2 DEF TypeOK
<1>5. FilesOK'
  <2>1. IndexesFollowRows'
    BY <1>0, <1>2 DEF FilesOK, IndexesFollowRows
  <2>2. RowsWerePublished'
    BY <1>0, <1>2, <1>3 DEF FilesOK, RowsWerePublished
  <2>3. \A z \in Scopes, f \in Filters :
          cache'[z][f] # NoEntry => Honest(cache[z][f], z, f)'
    BY <1>0, <1>2, <1>3 DEF FilesOK, Honest
  <2>. QED
    BY <1>0, <1>2, <1>3, <2>1, <2>2, <2>3 DEF FilesOK
<1>6. ASSUME NEW c \in Clients
      PROVE  ClientOK(c)'
  <2>1. Holds(c)' /\ Evidence(c)'
    BY <1>0, <1>2, <1>3, StaysOK DEF IInv, ClientOK
  <2>2. Mirroring(c)'
    BY <1>2 DEF IInv, ClientOK, Mirroring, Op, Job, Scope, Resp, At
  <2>. QED
    BY <2>1, <2>2 DEF ClientOK
<1>. QED
  BY <1>4, <1>5, <1>6 DEF IInv

LEMMA CacheExpiresStep ==
  ASSUME IInv, NEW s \in Scopes, NEW f \in Filters, CacheExpires(s, f)
  PROVE  IInv'
<1>0. TypeOK /\ FilesOK
  BY DEF IInv
<1>1. cache' = [cache EXCEPT ![s][f] = NoEntry]
      /\ UNCHANGED <<rows, typed, fts, stray, snap, upstream, ever, client, counts, fetched>>
  BY DEF CacheExpires, store, world
<1>2. /\ cache' \in [Scopes -> [Filters -> Response \cup {NoEntry}]]
      /\ \A z \in Scopes, g \in Filters : cache'[z][g] # NoEntry => cache'[z][g] = cache[z][g]
  BY <1>0, <1>1 DEF TypeOK
<1>3. TypeOK'
  BY <1>0, <1>1, <1>2 DEF TypeOK
<1>4. FilesOK'
  BY <1>0, <1>1, <1>2 DEF FilesOK, IndexesFollowRows, RowsWerePublished, Honest
<1>5. \A c \in Clients : ClientOK(c)'
  BY <1>1 DEF IInv, ClientOK, Holds, Honest, Evidence, Mirroring, Complete, HasItems,
              Op, Job, Scope, Resp, At
<1>. QED
  BY <1>3, <1>4, <1>5 DEF IInv

LEMMA StartStep ==
  ASSUME IInv, NEW c \in Clients, NEW j \in Jobs, Start(c, j)
  PROVE  IInv'
<1>0. TypeOK /\ FilesOK
  BY DEF IInv
<1>1. PICK stage \in {"fetch", "get", "check"} :
        client' = [client EXCEPT ![c] = [Idle EXCEPT !.job = j, !.pc = stage]]
  BY DEF Start
<1>2. UNCHANGED <<rows, typed, fts, stray, snap, upstream, ever, cache, fetched>>
  BY DEF Start, store, world
<1>3. [Idle EXCEPT !.job = j, !.pc = stage] \in Client
  BY IdleType DEF Client, Stages
<1>4. /\ client' \in [Clients -> Client]
      /\ \A d \in Clients : d # c => client'[d] = client[d]
      /\ client'[c] = [Idle EXCEPT !.job = j, !.pc = stage]
  BY <1>0, <1>1, <1>3 DEF TypeOK
<1>5. client'[c].pc = stage /\ client'[c].resp = NoResp /\ client'[c].answer = Nothing
  BY <1>4, IdleType DEF Client
<1>6. TypeOK'
  <2>1. counts' \in [runs : 0..MaxRuns, changes : 0..MaxChanges, lost : 0..MaxLost]
    BY <1>0, BoundsAssumption DEF TypeOK, Start
  <2>. QED
    BY <1>0, <1>2, <1>4, <2>1 DEF TypeOK
<1>7. FilesOK'
  BY <1>0, <1>2 DEF FilesOK, IndexesFollowRows, RowsWerePublished, Honest
<1>8. ClientOK(c)'
  <2>1. Holds(c)'
    BY <1>5 DEF Holds, Honest, Resp, NoResp, Nothing
  <2>2. Evidence(c)' /\ Mirroring(c)'
    BY <1>5 DEF Evidence, Mirroring, At
  <2>. QED
    BY <2>1, <2>2 DEF ClientOK
<1>9. \A d \in Clients : d # c => ClientOK(d)'
  BY <1>2, <1>4, OthersOK
<1>. QED
  BY <1>6, <1>7, <1>8, <1>9 DEF IInv
-----------------------------------------------------------------------------
(* Steps of c that store nothing.                                           *)

LEMMA FetchStep ==
  ASSUME IInv, NEW c \in Clients, Fetch(c)
  PROVE  IInv'
<1>0. TypeOK /\ FilesOK /\ ClientOK(c)
  BY DEF IInv
<1>1. PICK r \in Replies(Scope(c), Job(c).filter) : GotoWith(c, "store", r)
  BY DEF Fetch
<1>2. r \in Response /\ Honest(r, Scope(c), Job(c).filter)
  BY <1>0, JobType, RepliesHonest
<1>3. UNCHANGED <<store, world, cache, counts, fetched>>
  BY DEF Fetch
<1>4. "store" \in Stages /\ "store" # "idle"
  BY DEF Stages
<1>5. /\ client'[c].pc = "store" /\ client'[c].resp = r
      /\ client'[c].job = client[c].job /\ client'[c].answer = client[c].answer
  BY <1>0, <1>1, <1>2, <1>4, MovedClient
<1>6. ClientOK(c)'
  <2>1. Holds(c)'
    BY <1>0, <1>2, <1>3, <1>5 DEF ClientOK, Holds, Honest, Resp, Scope, Job, world
  <2>2. Evidence(c)' /\ Mirroring(c)'
    BY <1>5 DEF Evidence, Mirroring, At
  <2>. QED
    BY <2>1, <2>2 DEF ClientOK
<1>. QED
  BY <1>1, <1>2, <1>3, <1>4, <1>6, QuietStep

\* A response taken from the network or the cache is honest; where it leads, only
\* the write-through relies on it.
LEMMA AfterGetOK ==
  ASSUME TypeOK, NEW c \in Clients, ClientOK(c), NEW r \in Response,
         Honest(r, Scope(c), Job(c).filter), GotoWith(c, AfterGet(c, r), r),
         UNCHANGED <<world, fetched>>
  PROVE  AfterGet(c, r) \in Stages /\ ClientOK(c)'
<1>1. AfterGet(c, r) \in {"through", "idle"}
  BY DEF AfterGet
<1>2. AfterGet(c, r) \in Stages
  BY <1>1 DEF Stages
<1>3. CASE AfterGet(c, r) = "idle"
  BY <1>2, <1>3, GotoClient, IdleOK
<1>4. CASE AfterGet(c, r) = "through"
  <2>1. /\ client'[c].pc = "through" /\ client'[c].resp = r
        /\ client'[c].job = client[c].job /\ client'[c].answer = client[c].answer
    BY <1>2, <1>4, MovedClient
  <2>2. Holds(c)'
    BY <2>1 DEF ClientOK, Holds, Honest, Resp, Scope, Job, world
  <2>3. Evidence(c)' /\ Mirroring(c)'
    BY <2>1 DEF Evidence, Mirroring, At
  <2>. QED
    BY <1>2, <2>2, <2>3 DEF ClientOK
<1>. QED
  BY <1>1, <1>2, <1>3, <1>4

LEMMA GetCachedStep ==
  ASSUME IInv, NEW c \in Clients, GetCached(c)
  PROVE  IInv'
<1>0. TypeOK /\ FilesOK /\ ClientOK(c)
  BY DEF IInv
<1>1. /\ Cached(c) # NoEntry /\ GotoWith(c, AfterGet(c, Cached(c)), Cached(c))
      /\ UNCHANGED <<store, world, cache, counts, fetched>>
  BY DEF GetCached
<1>2. Cached(c) \in Response /\ Honest(Cached(c), Scope(c), Job(c).filter)
  BY <1>0, <1>1, JobType DEF Cached, TypeOK, FilesOK
<1>3. AfterGet(c, Cached(c)) \in Stages /\ ClientOK(c)'
  BY <1>0, <1>1, <1>2, AfterGetOK
<1>. QED
  BY <1>1, <1>2, <1>3, QuietStep

LEMMA GetPublishedStep ==
  ASSUME IInv, NEW c \in Clients, GetPublished(c)
  PROVE  IInv'
<1>0. TypeOK /\ FilesOK /\ ClientOK(c) /\ Scope(c) \in Scopes /\ Job(c).filter \in Filters
  BY JobType DEF IInv
<1>1. PICK r \in Replies(Scope(c), Job(c).filter) :
        /\ cache' \in {cache, [cache EXCEPT ![Scope(c)][Job(c).filter] = r]}
        /\ GotoWith(c, AfterGet(c, r), r)
  BY DEF GetPublished
<1>2. r \in Response /\ Honest(r, Scope(c), Job(c).filter)
  BY <1>0, RepliesHonest
<1>3. UNCHANGED <<rows, typed, fts, stray, snap, upstream, ever, counts, fetched>>
  BY DEF GetPublished, store, world
<1>4. AfterGet(c, r) \in Stages /\ ClientOK(c)'
  BY <1>0, <1>1, <1>2, <1>3, AfterGetOK DEF world
<1>5. /\ client' \in [Clients -> Client]
      /\ \A d \in Clients : d # c => client'[d] = client[d]
  BY <1>0, <1>1, <1>2, <1>4, GotoClient
<1>6. /\ cache' \in [Scopes -> [Filters -> Response \cup {NoEntry}]]
      /\ \A s \in Scopes, f \in Filters :
           \/ cache'[s][f] = cache[s][f]
           \/ s = Scope(c) /\ f = Job(c).filter /\ cache'[s][f] = r
  <2>1. CASE cache' = cache
    BY <1>0, <2>1 DEF TypeOK
  <2>2. CASE cache' = [cache EXCEPT ![Scope(c)] = [cache[Scope(c)] EXCEPT ![Job(c).filter] = r]]
    <3> DEFINE line == [cache[Scope(c)] EXCEPT ![Job(c).filter] = r]
    <3>1. /\ line \in [Filters -> Response \cup {NoEntry}]
          /\ \A f \in Filters : line[f] = IF f = Job(c).filter THEN r ELSE cache[Scope(c)][f]
      BY <1>0, <1>2 DEF TypeOK
    <3>2. \A s \in Scopes : cache'[s] = IF s = Scope(c) THEN line ELSE cache[s]
      BY <1>0, <2>2 DEF TypeOK
    <3>3. cache' \in [Scopes -> [Filters -> Response \cup {NoEntry}]]
      BY <1>0, <2>2, <3>1 DEF TypeOK
    <3>. QED
      BY <3>1, <3>2, <3>3
  <2>. QED
    BY <1>1, <2>1, <2>2
<1>7. TypeOK'
  BY <1>0, <1>3, <1>5, <1>6 DEF TypeOK
<1>8. FilesOK'
  <2>1. \A s \in Scopes, f \in Filters :
          cache'[s][f] # NoEntry => Honest(cache[s][f], s, f)'
    BY <1>0, <1>2, <1>3, <1>6 DEF FilesOK, Honest
  <2>. QED
    BY <1>0, <1>3, <2>1 DEF FilesOK, IndexesFollowRows, RowsWerePublished
<1>9. \A d \in Clients : d # c => ClientOK(d)'
  BY <1>3, <1>5, OthersOK
<1>. QED
  BY <1>4, <1>7, <1>8, <1>9 DEF IInv

\* Moving on without a new response: enough that the new stage has its evidence.
LEMMA GotoStep ==
  ASSUME IInv, NEW c \in Clients, NEW stage \in Stages \ {"idle", "reconcile", "snapshot"},
         Goto(c, stage), UNCHANGED <<store, world, cache, counts, fetched>>,
         stage \in {"record", "checkOther", "load"} => fetched[Scope(c)],
         stage = "load" /\ Op(c) = "diff" => fetched[Job(c).other],
         stage \notin {"loadOther", "answered"}
  PROVE  IInv'
<1>0. TypeOK /\ ClientOK(c) /\ Resp(c) \in Response
  BY JobType DEF IInv
<1>1. GotoWith(c, stage, Resp(c)) /\ fetched' = fetched /\ ever' = ever
  BY DEF Goto, world
<1>2. /\ client'[c].pc = stage /\ client'[c].resp = Resp(c)
      /\ client'[c].job = client[c].job /\ client'[c].answer = client[c].answer
  BY <1>0, <1>1, MovedClient
<1>3. Holds(c)'
  BY <1>0, <1>1, <1>2 DEF ClientOK, Holds, Honest, Resp, Scope, Job
<1>4. Evidence(c)'
  BY <1>1, <1>2 DEF Evidence, Scope, Op, Job, At
<1>5. Mirroring(c)'
  BY <1>2 DEF Mirroring, At
<1>. QED
  BY <1>0, <1>1, <1>3, <1>4, <1>5, QuietStep DEF ClientOK

LEMMA GetFailsStep ==
  ASSUME IInv, NEW c \in Clients, GetFails(c)
  PROVE  IInv'
<1>1. UNCHANGED <<store, world, cache, counts, fetched>>
  BY DEF GetFails
<1>2. CASE Goto(c, "idle")
  BY <1>1, <1>2, ReturnStep DEF Return
<1>3. CASE Goto(c, "check")
  BY <1>1, <1>3, GotoStep DEF Stages
<1>. QED
  BY <1>2, <1>3 DEF GetFails

\* A snapshot is evidence that the scope was fetched.
LEMMA CheckStep ==
  ASSUME IInv, NEW c \in Clients, Check(c)
  PROVE  IInv'
<1>0. Scope(c) \in Scopes /\ (snap[Scope(c)] => fetched[Scope(c)])
  BY JobType DEF IInv, FilesOK
<1>1. UNCHANGED <<store, world, cache, counts, fetched>>
  BY DEF Check
<1>2. CASE ~snap[Scope(c)]
  BY <1>1, <1>2, ReturnStep DEF Check, Return
<1>3. CASE snap[Scope(c)] /\ Op(c) = "diff"
  <2>1. Goto(c, "checkOther")
    BY <1>3 DEF Check
  <2>. QED
    BY <1>0, <1>1, <1>3, <2>1, GotoStep DEF Stages
<1>4. CASE snap[Scope(c)] /\ Op(c) # "diff"
  <2>1. Goto(c, "load")
    BY <1>4 DEF Check
  <2>. QED
    BY <1>0, <1>1, <1>4, <2>1, GotoStep DEF Stages
<1>. QED
  BY <1>2, <1>3, <1>4

LEMMA CheckOtherStep ==
  ASSUME IInv, NEW c \in Clients, CheckOther(c)
  PROVE  IInv'
<1>0. /\ Job(c).other \in Scopes /\ (snap[Job(c).other] => fetched[Job(c).other])
      /\ fetched[Scope(c)]
  BY JobType DEF IInv, FilesOK, ClientOK, Evidence, CheckOther, At
<1>1. UNCHANGED <<store, world, cache, counts, fetched>>
  BY DEF CheckOther
<1>2. CASE ~snap[Job(c).other]
  BY <1>1, <1>2, ReturnStep DEF CheckOther, Return
<1>3. CASE snap[Job(c).other]
  <2>1. Goto(c, "load")
    BY <1>3 DEF CheckOther
  <2>. QED
    BY <1>0, <1>1, <1>3, <2>1, GotoStep DEF Stages
<1>. QED
  BY <1>2, <1>3

\* What is loaded are rows of the store, and those were published.
LEMMA LoadScopeStep ==
  ASSUME IInv, NEW c \in Clients, NEW s \in Scopes, NEW stage \in {"loadOther", "answered"},
         LoadScope(c, s, stage), fetched[Scope(c)], Op(c) = "diff" => fetched[Job(c).other]
  PROVE  IInv'
<1>0. TypeOK /\ FilesOK /\ ClientOK(c) /\ client[c] \in Client
  BY JobType DEF IInv
<1>1. UNCHANGED <<rows, typed, fts, stray, snap, upstream, ever, cache, counts, fetched>>
  BY DEF LoadScope, store, world
<1>2. client' = [client EXCEPT ![c].answer[s] = rows[s], ![c].pc = stage]
  BY DEF LoadScope
<1>3. client'[c] = [client[c] EXCEPT !.answer = [client[c].answer EXCEPT ![s] = rows[s]],
                                     !.pc = stage]
  BY <1>0, <1>2 DEF TypeOK, Client
<1>4. [client[c].answer EXCEPT ![s] = rows[s]] \in [Scopes -> SUBSET Ids]
  BY <1>0 DEF TypeOK, Client
<1>5. client'[c] \in Client
  BY <1>0, <1>3, <1>4, ZenonT(60) DEF Client, Stages
<1>6. client' \in [Clients -> Client] /\ \A d \in Clients : d # c => client'[d] = client[d]
  BY <1>0, <1>2, <1>5 DEF TypeOK
<1>7. /\ client'[c].pc = stage /\ client'[c].resp = client[c].resp
      /\ client'[c].job = client[c].job
      /\ client'[c].answer = [client[c].answer EXCEPT ![s] = rows[s]]
  BY <1>0, <1>3 DEF Client
<1>8. ClientOK(c)'
  <2>1. \A z \in Scopes : client'[c].answer[z] \subseteq ever[z]
    BY <1>0, <1>7 DEF Client, FilesOK, RowsWerePublished, ClientOK, Holds
  <2>2. Holds(c)'
    BY <1>0, <1>1, <1>7, <2>1 DEF ClientOK, Holds, Honest, Resp, Scope, Job
  <2>3. Evidence(c)'
    BY <1>1, <1>7 DEF Evidence, At, Scope, Op, Job
  <2>4. Mirroring(c)'
    BY <1>7 DEF Mirroring, At
  <2>. QED
    BY <2>2, <2>3, <2>4 DEF ClientOK
<1>9. TypeOK'
  BY <1>0, <1>1, <1>6 DEF TypeOK
<1>10. FilesOK'
  BY <1>0, <1>1 DEF FilesOK, IndexesFollowRows, RowsWerePublished, Honest
<1>11. \A d \in Clients : d # c => ClientOK(d)'
  BY <1>1, <1>6, OthersOK
<1>. QED
  BY <1>8, <1>9, <1>10, <1>11 DEF IInv

LEMMA LoadStep ==
  ASSUME IInv, NEW c \in Clients, Load(c) \/ LoadOther(c)
  PROVE  IInv'
<1>1. /\ Scope(c) \in Scopes /\ Job(c).other \in Scopes
      /\ fetched[Scope(c)] /\ (Op(c) = "diff" => fetched[Job(c).other])
  BY JobType DEF IInv, ClientOK, Evidence, Load, LoadOther, At
<1>. QED
  BY <1>1, LoadScopeStep DEF Load, LoadOther

LEMMA ReconcileFailsStep ==
  ASSUME IInv, NEW c \in Clients, ReconcileFails(c)
  PROVE  IInv'
<1>0. TypeOK /\ FilesOK /\ ClientOK(c) /\ client[c] \in Client
  BY JobType DEF IInv
<1>1. UNCHANGED <<rows, typed, fts, stray, snap, upstream, ever, cache, counts, fetched>>
  BY DEF ReconcileFails, store, world
<1>2. client' = [client EXCEPT ![c] = [client[c] EXCEPT !.pc = "snapshot", !.clean = FALSE]]
  BY <1>0 DEF ReconcileFails, TypeOK, Client
<1>3. [client[c] EXCEPT !.pc = "snapshot", !.clean = FALSE] \in Client
  BY <1>0 DEF Client, Stages
<1>4. /\ client' \in [Clients -> Client]
      /\ \A d \in Clients : d # c => client'[d] = client[d]
      /\ client'[c] = [client[c] EXCEPT !.pc = "snapshot", !.clean = FALSE]
  BY <1>0, <1>2, <1>3 DEF TypeOK
<1>5. /\ client'[c].pc = "snapshot" /\ client'[c].resp = client[c].resp /\ ~client'[c].clean
      /\ client'[c].job = client[c].job /\ client'[c].answer = client[c].answer
  BY <1>0, <1>4 DEF Client
<1>6. ClientOK(c)'
  <2>1. Holds(c)'
    BY <1>0, <1>1, <1>5 DEF ClientOK, Holds, Honest, Resp, Scope, Job
  <2>2. Evidence(c)'
    BY <1>0, <1>1, <1>5 DEF ClientOK, Evidence, At, Scope, Op, Job, ReconcileFails
  <2>3. Mirroring(c)'
    BY <1>5 DEF Mirroring
  <2>. QED
    BY <2>1, <2>2, <2>3 DEF ClientOK
<1>7. TypeOK'
  BY <1>0, <1>1, <1>4 DEF TypeOK
<1>8. FilesOK'
  BY <1>0, <1>1 DEF FilesOK, IndexesFollowRows, RowsWerePublished, Honest
<1>9. \A d \in Clients : d # c => ClientOK(d)'
  BY <1>1, <1>4, OthersOK
<1>. QED
  BY <1>6, <1>7, <1>8, <1>9 DEF IInv
-----------------------------------------------------------------------------
(* Steps of c that write the store.                                         *)

\* What a batch does to the files: published rows are added to one scope, their
\* typed rows and index entries with them or after them, never before.
LEMMA UpsertBatchOK ==
  ASSUME TypeOK, FilesOK, NEW c \in Clients, UpsertBatch(c),
         Honest(Resp(c), Scope(c), Job(c).filter)
  PROVE  /\ {rows', typed', fts'} \subseteq [Scopes -> SUBSET Ids]
         /\ counts' \in [runs : 0..MaxRuns, changes : 0..MaxChanges, lost : 0..MaxLost]
         /\ \A s \in Scopes : typed'[s] \subseteq rows'[s] /\ fts'[s] \subseteq rows'[s]
         /\ \A s \in Scopes : rows'[s] \subseteq ever[s]
         /\ \A s \in Scopes : s # Scope(c) => rows'[s] = rows[s]
         /\ Resp(c).ids \subseteq rows'[Scope(c)]
<1> DEFINE ids == Resp(c).ids
<1>0. Scope(c) \in Scopes /\ ids \subseteq Ids /\ ids \subseteq ever[Scope(c)]
  BY JobType DEF Response, Honest
<1>1. rows' = [rows EXCEPT ![Scope(c)] = @ \cup ids]
  BY DEF UpsertBatch
<1>2. PICK noType \in SUBSET ids, noIndex \in SUBSET ids :
        /\ typed' = [typed EXCEPT ![Scope(c)] = @ \cup (ids \ noType)]
        /\ fts' = [fts EXCEPT ![Scope(c)] = (@ \cup ids) \ noIndex]
        /\ counts.lost + (IF noType \cup noIndex = {} THEN 0 ELSE 1) <= MaxLost
        /\ counts' = [counts EXCEPT !.lost = @ + (IF noType \cup noIndex = {} THEN 0 ELSE 1)]
  BY DEF UpsertBatch
<1>3. /\ rows' \in [Scopes -> SUBSET Ids]
      /\ \A s \in Scopes : rows'[s] = IF s = Scope(c) THEN rows[s] \cup ids ELSE rows[s]
  BY <1>0, <1>1 DEF TypeOK
<1>4. /\ typed' \in [Scopes -> SUBSET Ids]
      /\ \A s \in Scopes : typed'[s] \subseteq (IF s = Scope(c) THEN typed[s] \cup ids ELSE typed[s])
  BY <1>0, <1>2 DEF TypeOK
<1>5. /\ fts' \in [Scopes -> SUBSET Ids]
      /\ \A s \in Scopes : fts'[s] \subseteq (IF s = Scope(c) THEN fts[s] \cup ids ELSE fts[s])
  BY <1>0, <1>2 DEF TypeOK
<1>6. counts' \in [runs : 0..MaxRuns, changes : 0..MaxChanges, lost : 0..MaxLost]
  <2> DEFINE n == IF noType \cup noIndex = {} THEN 0 ELSE 1
  <2>1. n \in Nat /\ counts.lost + n <= MaxLost /\ counts' = [counts EXCEPT !.lost = @ + n]
    BY <1>2
  <2> HIDE DEF n
  <2>. QED
    BY <2>1, BoundsAssumption DEF TypeOK
<1>7. \A s \in Scopes : typed[s] \subseteq rows[s] /\ fts[s] \subseteq rows[s] /\ rows[s] \subseteq ever[s]
  BY DEF FilesOK, IndexesFollowRows, RowsWerePublished
<1>. QED
  BY <1>0, <1>3, <1>4, <1>5, <1>6, <1>7

\* A client that has moved on after a write, field by field.
LEMMA WrittenClient ==
  ASSUME TypeOK, NEW c \in Clients, NEW stage \in Stages, GotoAfterWrite(c, stage)
  PROVE  /\ client'[c].pc = stage /\ client'[c].resp = client[c].resp
         /\ client'[c].job = client[c].job /\ client'[c].answer = client[c].answer
         /\ client'[c].clean = client[c].clean
<1>1. client'[c] = [client[c] EXCEPT !.pc = stage]
  BY DEF GotoAfterWrite
<1>. QED
  BY <1>1, JobType DEF Client

\* The invariant of the files when rows, typed rows and entries agree again.
LEMMA FilesStep ==
  ASSUME TypeOK, FilesOK,
         \A s \in Scopes : typed'[s] \subseteq rows'[s] /\ fts'[s] \subseteq rows'[s],
         \A s \in Scopes : rows'[s] \subseteq ever[s],
         \A s \in Scopes : snap'[s] => fetched'[s],
         UNCHANGED <<world, cache>>
  PROVE  FilesOK'
<1>1. \A s \in Scopes, f \in Filters : cache'[s][f] # NoEntry => Honest(cache[s][f], s, f)'
  BY DEF FilesOK, Honest, world
<1>. QED
  BY <1>1 DEF FilesOK, IndexesFollowRows, RowsWerePublished, world

LEMMA ReconcileStep ==
  ASSUME IInv, NEW c \in Clients, Reconcile(c)
  PROVE  IInv'
<1>0. /\ TypeOK /\ FilesOK /\ ClientOK(c) /\ Scope(c) \in Scopes /\ "snapshot" \in Stages
      /\ At(c, "reconcile")
  BY JobType DEF IInv, Stages, Reconcile
<1>1. UNCHANGED <<stray, snap, upstream, ever, cache, counts, fetched>>
  BY DEF Reconcile, world
<1>2. GotoAfterWrite(c, "snapshot") /\ ReconcilePartition(c, Victims(c))
  BY DEF Reconcile
<1>3. /\ {rows', typed', fts'} \subseteq [Scopes -> SUBSET Ids]
      /\ \A s \in Scopes : rows'[s] = IF s = Scope(c) THEN rows[s] \ Victims(c) ELSE rows[s]
      /\ \A s \in Scopes : typed'[s] = IF s = Scope(c) THEN typed[s] \ Victims(c) ELSE typed[s]
      /\ \A s \in Scopes : fts'[s] = IF s = Scope(c) THEN fts[s] \ Victims(c) ELSE fts[s]
  <2>1. /\ rows' \in [Scopes -> SUBSET Ids]
        /\ \A s \in Scopes : rows'[s] = IF s = Scope(c) THEN rows[s] \ Victims(c) ELSE rows[s]
    BY <1>0, <1>2 DEF ReconcilePartition, TypeOK
  <2>2. /\ typed' \in [Scopes -> SUBSET Ids]
        /\ \A s \in Scopes : typed'[s] = IF s = Scope(c) THEN typed[s] \ Victims(c) ELSE typed[s]
    BY <1>0, <1>2 DEF ReconcilePartition, TypeOK
  <2>3. /\ fts' \in [Scopes -> SUBSET Ids]
        /\ \A s \in Scopes : fts'[s] = IF s = Scope(c) THEN fts[s] \ Victims(c) ELSE fts[s]
    BY <1>0, <1>2 DEF ReconcilePartition, TypeOK
  <2>. QED
    BY <2>1, <2>2, <2>3
<1>4. FilesOK'
  <2>1. /\ \A s \in Scopes : typed'[s] \subseteq rows'[s] /\ fts'[s] \subseteq rows'[s]
        /\ \A s \in Scopes : rows'[s] \subseteq ever[s]
    BY <1>0, <1>3 DEF FilesOK, IndexesFollowRows, RowsWerePublished
  <2>2. \A s \in Scopes : snap'[s] => fetched'[s]
    BY <1>0, <1>1 DEF FilesOK
  <2>. QED
    BY <1>0, <1>1, <2>1, <2>2, FilesStep DEF world
<1>5. client' \in [Clients -> Client] /\ \A d \in Clients : d # c => ClientOK(d)'
  BY <1>0, <1>1, <1>2, <1>3, OthersDisturbed
<1>6. /\ client'[c].pc = "snapshot" /\ client'[c].resp = client[c].resp
      /\ client'[c].job = client[c].job /\ client'[c].answer = client[c].answer
      /\ client'[c].clean = client[c].clean
  BY <1>0, <1>2, WrittenClient
<1>7. TypeOK'
  BY <1>0, <1>1, <1>3, <1>5 DEF TypeOK
<1>8. ClientOK(c)'
  <2>1. Holds(c)'
    BY <1>0, <1>1, <1>6 DEF ClientOK, Holds, Honest, Resp, Scope, Job
  <2>2. Evidence(c)'
    BY <1>0, <1>1, <1>6 DEF ClientOK, Evidence, At, Scope, Op, Job
  <2>3. Mirroring(c)'
    <3>1. Op(c) = "full" /\ client[c].clean => Resp(c).ids \subseteq rows[Scope(c)]
      BY <1>0 DEF ClientOK, Mirroring
    <3>2. Op(c) = "full" /\ client[c].clean => rows'[Scope(c)] = Resp(c).ids
      BY <1>0, <1>3, <3>1 DEF Victims
    <3>. QED
      BY <1>6, <3>2 DEF Mirroring, At, Op, Scope, Resp, Job
  <2>. QED
    BY <2>1, <2>2, <2>3 DEF ClientOK
<1>. QED
  BY <1>4, <1>5, <1>7, <1>8 DEF IInv

LEMMA StoreStep ==
  ASSUME IInv, NEW c \in Clients, Store(c)
  PROVE  IInv'
<1>0. TypeOK /\ FilesOK /\ ClientOK(c) /\ Scope(c) \in Scopes /\ Op(c) \in Ops
  BY JobType DEF IInv
<1>1. UNCHANGED <<snap, upstream, ever, cache>> /\ stray' \in BOOLEAN
  BY DEF Store, world
<1>2. /\ fetched' \in [Scopes -> BOOLEAN] /\ (Complete(c) => fetched'[Scope(c)])
      /\ \A s \in Scopes : fetched[s] => fetched'[s]
  <2>1. fetched' = [fetched EXCEPT ![Scope(c)] = @ \/ Complete(c)]
    BY DEF Store
  <2>2. Complete(c) \in BOOLEAN
    BY DEF Complete
  <2>. QED
    BY <1>0, <2>1, <2>2 DEF TypeOK
<1>3. /\ AfterStore(c) \in {"idle", "reconcile", "snapshot"} /\ AfterStore(c) \in Stages
      /\ AfterStore(c) # "idle" => Complete(c)
      /\ AfterStore(c) = "reconcile" <=> Complete(c) /\ Op(c) = "full"
  BY DEF AfterStore, Stages
<1>4. \A s \in Scopes : snap'[s] => fetched'[s]
  BY <1>0, <1>1, <1>2 DEF FilesOK
<1>5. Resp(c) \in Response /\ Honest(Resp(c), Scope(c), Job(c).filter)
  BY <1>0, JobType DEF ClientOK, Holds
\* Wherever the page leads, the client is in order.
<1>6. ASSUME /\ client'[c].pc = AfterStore(c) /\ client'[c].resp = client[c].resp
             /\ client'[c].job = client[c].job /\ client'[c].answer = client[c].answer,
             Resp(c).ids \subseteq rows'[Scope(c)]
      PROVE  ClientOK(c)'
  <2>1. Holds(c)'
    BY <1>0, <1>1, <1>6 DEF ClientOK, Holds, Honest, Resp, Scope, Job
  <2>2. Complete(c)' = Complete(c)
    BY <1>6 DEF Complete, HasItems, Resp, Job
  <2>3. Evidence(c)'
    BY <1>2, <1>3, <1>6, <2>2 DEF Evidence, At, Scope, Op, Job
  <2>4. Mirroring(c)'
    BY <1>3, <1>6 DEF Mirroring, At, Op, Scope, Resp, Job
  <2>. QED
    BY <2>1, <2>3, <2>4 DEF ClientOK
<1>7. CASE UpsertBatch(c) /\ GotoAfterWrite(c, AfterStore(c))
  <2>1. /\ {rows', typed', fts'} \subseteq [Scopes -> SUBSET Ids]
        /\ counts' \in [runs : 0..MaxRuns, changes : 0..MaxChanges, lost : 0..MaxLost]
        /\ \A s \in Scopes : typed'[s] \subseteq rows'[s] /\ fts'[s] \subseteq rows'[s]
        /\ \A s \in Scopes : rows'[s] \subseteq ever[s]
        /\ \A s \in Scopes : s # Scope(c) => rows'[s] = rows[s]
        /\ Resp(c).ids \subseteq rows'[Scope(c)]
    BY <1>0, <1>5, <1>7, UpsertBatchOK
  <2>2. client' \in [Clients -> Client] /\ \A d \in Clients : d # c => ClientOK(d)'
    BY <1>0, <1>1, <1>2, <1>3, <1>7, <2>1, OthersDisturbed
  <2>3. ClientOK(c)'
    BY <1>0, <1>3, <1>6, <1>7, <2>1, WrittenClient
  <2>4. TypeOK'
    BY <1>0, <1>1, <1>2, <2>1, <2>2 DEF TypeOK
  <2>5. FilesOK'
    BY <1>0, <1>1, <1>4, <2>1, FilesStep DEF world
  <2>. QED
    BY <2>2, <2>3, <2>4, <2>5 DEF IInv
<1>8. CASE ~HasItems(c) /\ Goto(c, AfterStore(c)) /\ UNCHANGED <<rows, typed, fts, counts>>
  <2>1. GotoWith(c, AfterStore(c), Resp(c))
    BY <1>8 DEF Goto
  <2>2. client' \in [Clients -> Client] /\ \A d \in Clients : d # c => client'[d] = client[d]
    BY <1>0, <1>3, <1>5, <2>1, GotoClient
  <2>3. \A d \in Clients : d # c => ClientOK(d)'
    BY <1>1, <1>2, <1>8, <2>2, OthersOK
  <2>4. ClientOK(c)'
    <3>1. CASE AfterStore(c) = "idle"
      BY <1>0, <1>3, <1>5, <2>1, <3>1, GotoClient, IdleOK
    <3>2. CASE AfterStore(c) # "idle"
      <4>1. Resp(c).ids \subseteq rows'[Scope(c)]
        BY <1>5, <1>8 DEF HasItems, Honest
      <4>2. /\ client'[c].pc = AfterStore(c) /\ client'[c].resp = Resp(c)
            /\ client'[c].job = client[c].job /\ client'[c].answer = client[c].answer
        BY <1>0, <1>3, <1>5, <2>1, <3>2, MovedClient
      <4>. QED
        BY <1>6, <4>1, <4>2 DEF Resp
    <3>. QED
      BY <3>1, <3>2
  <2>5. TypeOK'
    BY <1>0, <1>1, <1>2, <1>8, <2>2 DEF TypeOK
  <2>6. FilesOK'
    BY <1>0, <1>1, <1>4, <1>8, FilesStep DEF world, FilesOK, IndexesFollowRows, RowsWerePublished
  <2>. QED
    BY <2>3, <2>4, <2>5, <2>6 DEF IInv
<1>. QED
  BY <1>7, <1>8 DEF Store

LEMMA WriteThroughStep ==
  ASSUME IInv, NEW c \in Clients, WriteThrough(c)
  PROVE  IInv'
<1>0. TypeOK /\ FilesOK /\ ClientOK(c) /\ Scope(c) \in Scopes /\ "record" \in Stages
  BY JobType DEF IInv, Stages
<1>1. /\ UNCHANGED <<stray, snap, upstream, ever, cache>>
      /\ UpsertBatch(c) /\ GotoAfterWrite(c, "record")
  BY DEF WriteThrough, world
<1>2. /\ fetched' \in [Scopes -> BOOLEAN] /\ fetched'[Scope(c)]
      /\ \A s \in Scopes : fetched[s] => fetched'[s]
  BY <1>0 DEF WriteThrough, TypeOK
<1>3. Resp(c) \in Response /\ Honest(Resp(c), Scope(c), Job(c).filter)
  BY <1>0, JobType DEF ClientOK, Holds
<1>4. /\ {rows', typed', fts'} \subseteq [Scopes -> SUBSET Ids]
      /\ counts' \in [runs : 0..MaxRuns, changes : 0..MaxChanges, lost : 0..MaxLost]
      /\ \A s \in Scopes : typed'[s] \subseteq rows'[s] /\ fts'[s] \subseteq rows'[s]
      /\ \A s \in Scopes : rows'[s] \subseteq ever[s]
      /\ \A s \in Scopes : s # Scope(c) => rows'[s] = rows[s]
  BY <1>0, <1>1, <1>3, UpsertBatchOK
<1>5. client' \in [Clients -> Client] /\ \A d \in Clients : d # c => ClientOK(d)'
  BY <1>0, <1>1, <1>2, <1>4, OthersDisturbed
<1>6. /\ client'[c].pc = "record" /\ client'[c].resp = client[c].resp
      /\ client'[c].job = client[c].job /\ client'[c].answer = client[c].answer
  BY <1>0, <1>1, WrittenClient
<1>7. ClientOK(c)'
  <2>1. Holds(c)'
    BY <1>0, <1>1, <1>6 DEF ClientOK, Holds, Honest, Resp, Scope, Job
  <2>2. Evidence(c)' /\ Mirroring(c)'
    BY <1>2, <1>6 DEF Evidence, Mirroring, At, Scope, Job
  <2>. QED
    BY <2>1, <2>2 DEF ClientOK
<1>8. TypeOK'
  BY <1>0, <1>1, <1>2, <1>4, <1>5 DEF TypeOK
<1>9. FilesOK'
  <2>1. \A s \in Scopes : snap'[s] => fetched'[s]
    BY <1>0, <1>1, <1>2 DEF FilesOK
  <2>. QED
    BY <1>0, <1>1, <1>4, <2>1, FilesStep DEF world
<1>. QED
  BY <1>5, <1>7, <1>8, <1>9 DEF IInv

LEMMA WriteThroughFailsStep ==
  ASSUME IInv, NEW c \in Clients, WriteThroughFails(c)
  PROVE  IInv'
<1>0. TypeOK /\ FilesOK /\ ClientOK(c) /\ Scope(c) \in Scopes /\ Resp(c) \in Response
  BY JobType DEF IInv
<1>1. UNCHANGED <<rows, typed, fts, stray, snap, upstream, ever, cache, counts>>
  BY DEF WriteThroughFails, store, world
<1>2. PICK stage \in {"record", "idle"} :
        /\ GotoWith(c, stage, Resp(c))
        /\ fetched' = [fetched EXCEPT ![Scope(c)] = @ \/ stage = "record"]
  BY DEF WriteThroughFails, Goto
<1>3. /\ fetched' \in [Scopes -> BOOLEAN] /\ (stage = "record" => fetched'[Scope(c)])
      /\ \A s \in Scopes : fetched[s] => fetched'[s]
  BY <1>0, <1>2 DEF TypeOK
<1>4. stage \in Stages
  BY DEF Stages
<1>5. client' \in [Clients -> Client] /\ \A d \in Clients : d # c => client'[d] = client[d]
  BY <1>0, <1>2, <1>4, GotoClient
<1>6. \A d \in Clients : d # c => ClientOK(d)'
  BY <1>1, <1>3, <1>5, OthersOK
<1>7. ClientOK(c)'
  <2>1. CASE stage = "idle"
    BY <1>0, <1>2, <1>4, <2>1, GotoClient, IdleOK
  <2>2. CASE stage = "record"
    <3>1. /\ client'[c].pc = "record" /\ client'[c].resp = client[c].resp
          /\ client'[c].job = client[c].job /\ client'[c].answer = client[c].answer
      BY <1>0, <1>2, <1>4, <2>2, MovedClient DEF Resp
    <3>2. Holds(c)'
      BY <1>0, <1>1, <3>1 DEF ClientOK, Holds, Honest, Resp, Scope, Job
    <3>3. Evidence(c)' /\ Mirroring(c)'
      BY <1>3, <2>2, <3>1 DEF Evidence, Mirroring, At, Scope, Job
    <3>. QED
      BY <3>2, <3>3 DEF ClientOK
  <2>. QED
    BY <2>1, <2>2
<1>8. TypeOK'
  BY <1>0, <1>1, <1>3, <1>5 DEF TypeOK
<1>9. FilesOK'
  <2>1. \A s \in Scopes : snap'[s] => fetched'[s]
    BY <1>0, <1>1, <1>3 DEF FilesOK
  <2>. QED
    BY <1>0, <1>1, <2>1, FilesStep DEF world, FilesOK, IndexesFollowRows, RowsWerePublished
<1>. QED
  BY <1>6, <1>7, <1>8, <1>9 DEF IInv

\* A snapshot is recorded for a scope that was fetched.
LEMMA RecordStep ==
  ASSUME IInv, NEW c \in Clients, SaveSnapshot(c) \/ RecordSnapshot(c)
  PROVE  IInv'
<1>0. TypeOK /\ FilesOK /\ Scope(c) \in Scopes /\ Resp(c) \in Response /\ "idle" \in Stages
  BY JobType DEF IInv, Stages
<1>1. /\ UNCHANGED <<rows, typed, fts, stray, upstream, ever, cache, counts, fetched>>
      /\ GotoWith(c, "idle", Resp(c)) /\ fetched[Scope(c)]
  BY DEF SaveSnapshot, RecordSnapshot, Return, Goto, world, IInv, ClientOK, Evidence, At
<1>2. snap' \in [Scopes -> BOOLEAN] /\ \A s \in Scopes : snap'[s] => snap[s] \/ s = Scope(c)
  BY <1>0 DEF SaveSnapshot, RecordSnapshot, SaveAssistCatalogSnapshot, TypeOK
<1>3. /\ client' \in [Clients -> Client] /\ client'[c] = Idle
      /\ \A d \in Clients : d # c => client'[d] = client[d]
  BY <1>0, <1>1, GotoClient
<1>4. ClientOK(c)'
  BY <1>3, IdleOK
<1>5. \A d \in Clients : d # c => ClientOK(d)'
  BY <1>1, <1>3, OthersOK
<1>6. TypeOK'
  BY <1>0, <1>1, <1>2, <1>3 DEF TypeOK
<1>7. FilesOK'
  <2>1. \A s \in Scopes : snap'[s] => fetched'[s]
    BY <1>0, <1>1, <1>2 DEF FilesOK
  <2>. QED
    BY <1>0, <1>1, <2>1, FilesStep DEF world, FilesOK, IndexesFollowRows, RowsWerePublished
<1>. QED
  BY <1>4, <1>5, <1>6, <1>7 DEF IInv
-----------------------------------------------------------------------------
(* Theorems.                                                                *)

LEMMA StutterStep ==
  ASSUME IInv, UNCHANGED vars
  PROVE  IInv'
BY DEF vars, store, world, IInv, TypeOK, FilesOK, IndexesFollowRows, RowsWerePublished,
       ClientOK, Holds, Honest, Evidence, Mirroring, Complete, HasItems,
       Op, Job, Scope, Resp, At

\* Every step of every client, of the server and of the cache keeps the invariant.
LEMMA NextStep ==
  ASSUME IInv, [Next]_vars
  PROVE  IInv'
<1>1. ASSUME NEW c \in Clients, Sync(c)
      PROVE  IInv'
  <2>1. CASE FetchFails(c) \/ StoreFails(c) \/ SaveSnapshotFails(c)
    BY <2>1, ReturnStep DEF FetchFails, StoreFails, SaveSnapshotFails
  <2>2. CASE Fetch(c)
    BY <2>2, FetchStep
  <2>3. CASE Store(c)
    BY <2>3, StoreStep
  <2>4. CASE Reconcile(c)
    BY <2>4, ReconcileStep
  <2>5. CASE ReconcileFails(c)
    BY <2>5, ReconcileFailsStep
  <2>6. CASE SaveSnapshot(c)
    BY <2>6, RecordStep
  <2>. QED
    BY <1>1, <2>1, <2>2, <2>3, <2>4, <2>5, <2>6 DEF Sync
<1>2. ASSUME NEW c \in Clients, Read(c)
      PROVE  IInv'
  <2>1. CASE GetCached(c)
    BY <2>1, GetCachedStep
  <2>2. CASE GetPublished(c)
    BY <2>2, GetPublishedStep
  <2>3. CASE GetFails(c)
    BY <2>3, GetFailsStep
  <2>4. CASE WriteThrough(c)
    BY <2>4, WriteThroughStep
  <2>5. CASE WriteThroughFails(c)
    BY <2>5, WriteThroughFailsStep
  <2>6. CASE RecordSnapshot(c)
    BY <2>6, RecordStep
  <2>7. CASE Check(c)
    BY <2>7, CheckStep
  <2>8. CASE CheckOther(c)
    BY <2>8, CheckOtherStep
  <2>9. CASE Load(c) \/ LoadOther(c)
    BY <2>9, LoadStep
  <2>. QED
    BY <1>2, <2>1, <2>2, <2>3, <2>4, <2>5, <2>6, <2>7, <2>8, <2>9 DEF Read
<1>3. ASSUME NEW c \in Clients, Crash(c)
      PROVE  IInv'
  BY <1>3, ReturnStep DEF Crash
<1>4. ASSUME NEW c \in Clients, NEW j \in Jobs, Start(c, j)
      PROVE  IInv'
  BY <1>4, StartStep
<1>5. ASSUME NEW s \in Scopes, PublishedCatalogChanges(s)
      PROVE  IInv'
  BY <1>5, PublishedCatalogChangesStep
<1>6. ASSUME NEW s \in Scopes, NEW f \in Filters, CacheExpires(s, f)
      PROVE  IInv'
  BY <1>6, CacheExpiresStep
<1>7. CASE UNCHANGED vars
  BY <1>7, StutterStep
<1>. QED
  BY <1>1, <1>2, <1>3, <1>4, <1>5, <1>6, <1>7 DEF Next

\* The invariant holds of any number of concurrent syncs, reads and crashes.
THEOREM Invariance == Spec => []IInv
<1>1. IInv /\ [Next]_vars => IInv'
  BY NextStep
<1>. QED
  BY InitIInv, <1>1, PTL DEF Spec

\* Type correctness of the mirror, its readers and its writers.
THEOREM TypeCorrect == Spec => []TypeOK
<1>1. IInv => TypeOK
  BY DEF IInv
<1>. QED
  BY <1>1, Invariance, PTL

\* The indexes never outlive the rows, whatever batches lost and whoever crashed.
THEOREM IndexesFollow == Spec => []IndexesFollowRows
<1>1. IInv => IndexesFollowRows
  BY DEF IInv, FilesOK
<1>. QED
  BY <1>1, Invariance, PTL

\* No catalog record is ever stored under an institution and year it was not
\* published for.
THEOREM NoLeaks == Spec => []RowsWerePublished
<1>1. IInv => RowsWerePublished
  BY DEF IInv, FilesOK
<1>. QED
  BY <1>1, Invariance, PTL

\* A --full run left alone on its scope leaves exactly what it fetched.
THEOREM FullSyncIsMirror == Spec => []FullSyncMirrors
<1>1. IInv => FullSyncMirrors
  BY DEF IInv, ClientOK, Mirroring, FullSyncMirrors
<1>. QED
  BY <1>1, Invariance, PTL

\* A local read or a catalog diff answers only for fetched scopes, from records
\* that were published for them.
THEOREM OfflineEvidence == Spec => []AnswersHaveEvidence
<1>1. IInv => AnswersHaveEvidence
  <2> SUFFICES ASSUME IInv, NEW c \in Clients, At(c, "answered"),
                      NEW s \in {Scope(c)} \cup (IF Op(c) = "diff" THEN {Job(c).other} ELSE {})
               PROVE  fetched[s] /\ client[c].answer[s] \subseteq ever[s]
    BY DEF AnswersHaveEvidence
  <2>1. ClientOK(c) /\ Scope(c) \in Scopes /\ Job(c).other \in Scopes
    BY JobType DEF IInv
  <2>. QED
    BY <2>1 DEF ClientOK, Holds, Evidence, At
<1>. QED
  BY <1>1, Invariance, PTL

\* Only a reconcile takes rows away, only from its own scope, and only those the
\* response did not list.
LEMMA OnlyReconcilePrunes ==
  ASSUME IInv, [Next]_vars, NEW s \in Scopes, NEW i \in rows[s] \ rows'[s]
  PROVE  \E c \in Clients : Reconcile(c) /\ s = Scope(c) /\ i \notin Resp(c).ids
<1>0. TypeOK
  BY DEF IInv
<1>1. rows' # rows
  BY SMTT(60)
<1>2. PICK c \in Clients : Store(c) \/ WriteThrough(c) \/ Reconcile(c)
  BY <1>1 DEF Next, vars, store, Sync, Read, PublishedCatalogChanges, CacheExpires, Crash, Start,
     Fetch, FetchFails, StoreFails, ReconcileFails, SaveSnapshot, SaveSnapshotFails,
     GetCached, GetPublished, GetFails, WriteThroughFails, RecordSnapshot,
     Check, CheckOther, Load, LoadOther, LoadScope
<1>3. CASE Store(c) \/ WriteThrough(c)
  <2>1. UpsertBatch(c)
    BY <1>1, <1>3 DEF Store, WriteThrough
  <2>2. rows' = [rows EXCEPT ![Scope(c)] = @ \cup Resp(c).ids]
    BY <2>1 DEF UpsertBatch
  <2>. QED
    BY <1>0, <2>2 DEF TypeOK
<1>4. CASE Reconcile(c)
  <2>1. rows' = [rows EXCEPT ![Scope(c)] = @ \ Victims(c)]
    BY <1>4 DEF Reconcile, ReconcilePartition
  <2>2. s = Scope(c) /\ i \in Victims(c)
    BY <1>0, <2>1 DEF TypeOK
  <2>. QED
    BY <1>4, <2>2 DEF Victims
<1>. QED
  BY <1>2, <1>3, <1>4

\* A pruned row was missing from a complete JSON page of its own scope, and not
\* published then if that page was the unfiltered list.
THEOREM PruningHasEvidence == Spec => PruneEvidence
<1>1. IInv /\ [Next]_vars =>
        [\A s \in Scopes : \A i \in rows[s] \ rows'[s] :
           \E c \in Clients :
             /\ At(c, "reconcile") /\ Op(c) = "full" /\ Scope(c) = s
             /\ Resp(c).kind # "nonjson" /\ i \notin Resp(c).ids
             /\ Job(c).capped => Resp(c).ids = {}
             /\ Resp(c).kind = "list" /\ Job(c).filter = Ids => i \notin Resp(c).whole]_vars
  <2> SUFFICES ASSUME IInv, [Next]_vars, NEW s \in Scopes, NEW i \in rows[s] \ rows'[s]
               PROVE  \E c \in Clients :
                        /\ At(c, "reconcile") /\ Op(c) = "full" /\ Scope(c) = s
                        /\ Resp(c).kind # "nonjson" /\ i \notin Resp(c).ids
                        /\ Job(c).capped => Resp(c).ids = {}
                        /\ Resp(c).kind = "list" /\ Job(c).filter = Ids => i \notin Resp(c).whole
    OBVIOUS
  <2>1. PICK c \in Clients : Reconcile(c) /\ s = Scope(c) /\ i \notin Resp(c).ids
    BY OnlyReconcilePrunes
  <2>2. At(c, "reconcile") /\ ClientOK(c)
    BY <2>1 DEF Reconcile, IInv
  <2>3. Op(c) = "full" /\ Complete(c) /\ Honest(Resp(c), Scope(c), Job(c).filter)
    BY <2>2 DEF ClientOK, Evidence, Holds
  <2>4. Job(c).capped => Resp(c).ids = {}
    BY <2>3 DEF Complete, HasItems, Honest
  <2>5. Resp(c).kind = "list" /\ Job(c).filter = Ids => i \notin Resp(c).whole
    BY <2>1, <2>3 DEF Honest
  <2>. QED
    BY <2>1, <2>2, <2>3, <2>4, <2>5 DEF Complete
<1>. QED
  BY <1>1, Invariance, PTL DEF Spec, PruneEvidence
=============================================================================
