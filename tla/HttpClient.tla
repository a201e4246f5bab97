----------------------------- MODULE HttpClient ------------------------------
(***************************************************************************)
(* The HTTP client, internal/client/client.go: concurrent calls of the       *)
(* workers of one process through one Client, with the anonymous session     *)
(* they share, the retries of doInternal, the limiter and the response cache *)
(* on disk.  One resource, whose version counts the mutations applied to it.  *)
(*                                                                         *)
(* The server and the network are nondeterministic: a request is answered,   *)
(* refused, throttled, fails, is lost on either way, or its body cannot be   *)
(* read.                                                                    *)
(***************************************************************************)
EXTENDS RateLimits, FiniteSets, FiniteSetsExt

CONSTANTS
  Workers,     \* goroutines that share the Client
  Envs,        \* environments: "live", "verify" (PRINTING_PRESS_VERIFY), "dogfood"
  MaxRetries,  \* clientMaxRetries outside the verifier, 3 in the code
  MaxCalls,    \* bound: calls made
  MaxVersion   \* bound: mutations applied

ASSUME HttpClientAssumption ==
  /\ Envs \subseteq {"live", "verify", "dogfood"} /\ Envs # {}
  /\ MaxRetries \in Nat /\ MaxCalls \in Nat /\ MaxVersion \in Nat

\* Get, GetNoCache, a GET of a client with NoCache, Post and the other verbs
\* that mutate, PostQuery.
Kinds == {"get", "poll", "plain", "post", "query"}
Answers == {"ok", "refused", "throttled", "broken", "lost", "unread"}
None == -1
Torn == -2
Bodies == {Torn, None} \cup 0..MaxVersion
Stages == {"idle", "session", "boot", "wait", "send", "observe", "settle", "backoff",
           "store", "storing"}

VARIABLES
  env,      \* the environment of the process
  lim,      \* the limiter
  session,  \* holder: of publicSessionMu; ready: publicSessionReady; token: in the cookie jar
  call,     \* the call of each worker
  cache,    \* the cache file; fresh: younger than five minutes; straddled: see Invalidate
  version,  \* of the resource at the server
  mark,     \* version a completed mutation of ours left, at the last invalidation
  calls     \* counter for the bound

vars == <<env, lim, session, call, cache, version, mark, calls>>

Limiter == INSTANCE RateLimiter

\* last: outcome of the last attempt; lastErr: the variable of that name holds
\* an error; body: of the answer; open: the cache file is being written;
\* straddled: an invalidation ran while the call was in flight; result: of the
\* call that ended last, "empty" when it returned neither body nor error.
Call == [pc : Stages, kind : Kinds, attempt : Nat, cancelled : BOOLEAN,
         last : Answers \cup {"none"}, lastErr : BOOLEAN, body : Bodies,
         open : BOOLEAN, straddled : BOOLEAN,
         result : {"none", "body", "empty", "error"}]
NoCall == [pc |-> "idle", kind |-> "plain", attempt |-> 0, cancelled |-> FALSE, last |-> "none",
           lastErr |-> FALSE, body |-> None, open |-> FALSE, straddled |-> FALSE, result |-> "none"]
NoFile == [body |-> None, fresh |-> FALSE, straddled |-> FALSE]

TypeOK ==
  /\ env \in Envs /\ Limiter!LimiterOK
  /\ session \in [holder : SUBSET Workers, ready : BOOLEAN, token : BOOLEAN]
  /\ Cardinality(session.holder) <= 1 /\ (session.ready => session.token)
  /\ call \in [Workers -> Call]
  /\ \A w \in Workers : (call[w].pc = "boot") <=> (w \in session.holder)
  /\ cache \in [body : Bodies, fresh : BOOLEAN, straddled : BOOLEAN]
  /\ {version, mark} \subseteq 0..MaxVersion /\ calls \in 0..MaxCalls

Init ==
  /\ env \in Envs /\ Limiter!Init
  /\ session = [holder |-> {}, ready |-> FALSE, token |-> FALSE]
  /\ call = [w \in Workers |-> NoCall]
  /\ cache = NoFile
  /\ version = 0 /\ mark = 0 /\ calls = 0

-----------------------------------------------------------------------------
At(w, stage) == call[w].pc = stage
IsGet(w) == call[w].kind \in {"get", "poll", "plain"}
Retries == IF env = "live" THEN MaxRetries ELSE 0
Goto(w, stage) == call' = [call EXCEPT ![w].pc = stage]
\* The call returns.
Return(w, result) == call' = [call EXCEPT ![w] = [NoCall EXCEPT !.result = result]]

\* GetWithHeaders returns a cached body; doInternal returns a synthetic one for
\* a mutating verb under the verifier.
Start(w, kind) ==
  /\ At(w, "idle") /\ calls < MaxCalls /\ calls' = calls + 1
  /\ LET new == [NoCall EXCEPT !.kind = kind] IN
     call' = [call EXCEPT ![w] =
       CASE kind = "get" /\ cache.fresh /\ cache.body # None ->
              [NoCall EXCEPT !.result = "body"]
         [] kind = "post" /\ env = "verify" -> [NoCall EXCEPT !.result = "body"]
         [] OTHER -> [new EXCEPT !.pc = "session"]]
  /\ UNCHANGED <<env, lim, session, cache, version, mark>>

\* The context is cancelled; where the call would not notice before it comes to
\* one of these stages, that is where.
Cancel(w) ==
  /\ call[w].pc \in {"session", "send", "backoff"} /\ ~call[w].cancelled
  /\ call' = [call EXCEPT ![w].cancelled = TRUE]
  /\ UNCHANGED <<env, lim, session, cache, version, mark, calls>>

\* ensurePublicSession: behind the mutex, one bootstrap serves all.
Acquire(w) ==
  /\ At(w, "session") /\ session.holder = {}
  /\ IF session.ready THEN Goto(w, "wait") /\ UNCHANGED session
     ELSE Goto(w, "boot") /\ session' = [session EXCEPT !.holder = {w}]
  /\ UNCHANGED <<env, lim, cache, version, mark, calls>>

\* The landing page, and whether it issued the cookie.
Bootstrap(w, issued) ==
  /\ At(w, "boot")
  /\ LET good == issued /\ ~call[w].cancelled IN
     /\ session' = [holder |-> {}, ready |-> good, token |-> session.token \/ good]
     /\ IF good THEN Goto(w, "wait")
        ELSE Return(w, "error")
  /\ UNCHANGED <<env, lim, cache, version, mark, calls>>

-----------------------------------------------------------------------------
\* limiter.Wait, a sleep that no cancellation interrupts.
Wait(w) ==
  /\ At(w, "wait") /\ Goto(w, "send")
  /\ UNCHANGED <<env, lim, session, cache, version, mark, calls>>

\* Whether the server changed the resource: surely when it says so, perhaps when
\* it failed or its answer was lost.
Applies(w, answer) ==
  IF call[w].kind # "post" THEN {FALSE}
  ELSE CASE answer \in {"ok", "unread"} -> {TRUE}
         [] answer \in {"broken", "lost"} -> BOOLEAN
         [] OTHER -> {FALSE}

\* lastErr is set after an attempt that is to be retried.
Backoff(w, answer) ==
  [call EXCEPT ![w] = [@ EXCEPT !.pc = "backoff", !.last = answer, !.body = None, !.lastErr = TRUE]]

\* HTTPClient.Do and the read of the body.  A lost answer is retried after a
\* backoff, or falls through to the end of the loop; an unreadable one is not.
Send(w, answer, applied) ==
  /\ At(w, "send") /\ applied \in Applies(w, answer) /\ version + (IF applied THEN 1 ELSE 0) <= MaxVersion
  /\ version' = version + (IF applied THEN 1 ELSE 0)
  /\ CASE call[w].cancelled \/ answer = "unread" -> Return(w, "error")
       [] ~call[w].cancelled /\ answer = "lost" -> call' = Backoff(w, answer)
       [] OTHER -> call' = [call EXCEPT ![w] = [@ EXCEPT !.pc = "observe", !.last = answer, !.body = version',
                                                          !.straddled = FALSE]]
  /\ UNCHANGED <<env, lim, session, cache, mark, calls>>

\* Rate-limit headers, when the answer carries them.
Observe(w) ==
  /\ At(w, "observe") /\ Goto(w, "settle")
  /\ UNCHANGED lim \/ \E b \in Budgets : Limiter!ObserveHeaders(b)
  /\ UNCHANGED <<env, session, cache, version, mark, calls>>

Again(w) == call[w].attempt < Retries

\* The status is looked at.  A success of a verb other than GET goes on to
\* remove the cache, one of a cacheable GET to fill it.
Settle(w) ==
  /\ At(w, "settle")
  /\ CASE call[w].last = "ok" ->
            /\ Limiter!OnSuccess
            /\ IF call[w].kind = "plain" THEN Return(w, "body") ELSE Goto(w, "store")
       [] call[w].last = "throttled" /\ Again(w) ->
            Limiter!OnRateLimit /\ call' = Backoff(w, "throttled")
       [] call[w].last = "broken" /\ Again(w) ->
            UNCHANGED lim /\ call' = Backoff(w, "broken")
       [] OTHER -> UNCHANGED lim /\ Return(w, "error")
  /\ UNCHANGED <<env, session, cache, version, mark, calls>>

\* Mutant: a throttled attempt is not counted.
RetryUncounted(w) ==
  /\ At(w, "backoff")
  /\ CASE Again(w) /\ call[w].cancelled -> Return(w, "error")
       [] Again(w) /\ ~call[w].cancelled ->
            call' = [call EXCEPT ![w].pc = "wait", ![w].attempt = @ + IF call[w].last = "throttled" THEN 0 ELSE 1]
       [] OTHER -> Return(w, IF call[w].lastErr THEN "error" ELSE "empty")
  /\ UNCHANGED <<env, lim, session, cache, version, mark, calls>>

\* sleepContext, then the next turn of the loop; after the last attempt there is
\* no sleep, and the call returns lastErr, which is no error when it was not set.
Retry(w) ==
  /\ At(w, "backoff")
  /\ CASE Again(w) /\ call[w].cancelled -> Return(w, "error")
       [] Again(w) /\ ~call[w].cancelled ->
            call' = [call EXCEPT ![w].pc = "wait", ![w].attempt = @ + 1, ![w].last = "none"]
       [] OTHER -> Return(w, IF call[w].lastErr THEN "error" ELSE "empty")
  /\ UNCHANGED <<env, lim, session, cache, version, mark, calls>>

-----------------------------------------------------------------------------
\* writeCache truncates the file and then writes it.
Truncate(w) ==
  /\ At(w, "store") /\ IsGet(w)
  /\ cache' = [body |-> Torn, fresh |-> TRUE, straddled |-> call[w].straddled]
  /\ call' = [call EXCEPT ![w].pc = "storing", ![w].open = TRUE]
  /\ UNCHANGED <<env, lim, session, version, mark, calls>>

\* A file removed in between takes the write with it.
WriteCache(w) ==
  /\ At(w, "storing")
  /\ cache' = IF call[w].open THEN [body |-> call[w].body, fresh |-> TRUE, straddled |-> call[w].straddled]
              ELSE cache
  /\ Return(w, "body")
  /\ UNCHANGED <<env, lim, session, version, mark, calls>>

InFlight(w) == call[w].pc \in {"observe", "settle", "store", "storing"}

\* Mutant: only the verbs that read invalidate.
InvalidateReads(w) ==
  /\ At(w, "store") /\ ~IsGet(w)
  /\ cache' = IF call[w].kind = "query" THEN NoFile ELSE cache
  /\ mark' = IF call[w].kind = "post" THEN Max({mark, call[w].body}) ELSE mark
  /\ call' = [u \in Workers |->
       IF u = w THEN [NoCall EXCEPT !.result = "body"]
       ELSE [call[u] EXCEPT !.open = FALSE, !.straddled = @ \/ InFlight(u)]]
  /\ UNCHANGED <<env, lim, session, version, calls>>

\* invalidateCache removes the whole directory, for every verb but GET.
Invalidate(w) ==
  /\ At(w, "store") /\ ~IsGet(w)
  /\ cache' = NoFile
  /\ mark' = IF call[w].kind = "post" THEN Max({mark, call[w].body}) ELSE mark
  /\ call' = [u \in Workers |->
       IF u = w THEN [NoCall EXCEPT !.result = "body"]
       ELSE [call[u] EXCEPT !.open = FALSE, !.straddled = @ \/ InFlight(u)]]
  /\ UNCHANGED <<env, lim, session, version, calls>>

-----------------------------------------------------------------------------
\* Five minutes pass.
Age ==
  /\ cache.fresh /\ cache' = [cache EXCEPT !.fresh = FALSE]
  /\ UNCHANGED <<env, lim, session, call, version, mark, calls>>

\* A step that the code takes by itself.
Step(w) ==
  \/ Acquire(w) \/ (\E issued \in BOOLEAN : Bootstrap(w, issued)) \/ Wait(w)
  \/ \E answer \in Answers, applied \in BOOLEAN : Send(w, answer, applied)
  \/ Observe(w) \/ Settle(w) \/ Retry(w) \/ Truncate(w) \/ WriteCache(w) \/ Invalidate(w)

Next ==
  \/ Age
  \/ \E w \in Workers : (\E kind \in Kinds : Start(w, kind)) \/ Cancel(w) \/ Step(w)

\* Requests end, by the answer or by the timeout of the http.Client, and so do
\* sleeps; Go hands the mutex to a waiter eventually.
Spec == Init /\ [][Next]_vars /\ \A w \in Workers : WF_vars(Step(w))

-----------------------------------------------------------------------------
\* No way out of the retry loop, through any mix of lost, throttled and broken
\* attempts, returns neither a body nor an error: a caller that sees no error has
\* an answer of the server, of the cache or of the verifier.
SuccessAnswered == \A w \in Workers : call[w].result # "empty"

\* Once a mutation has succeeded and removed the cache, no body older than it is
\* found there, unless a read that was in flight at the removal wrote it.
CacheFollowsMutations == cache.body \in 0..mark - 1 => cache.straddled

\* Every call ends: retries, throttling, a refused session and cancellation
\* included, whatever the others do with the mutex.
CallsEnd == \A w \in Workers : ~At(w, "idle") ~> At(w, "idle")

\* Whatever answers the workers get and in whatever order they report them to the
\* limiter they share, it paces within its bounds and within what the server has
\* shown: see RateLimiter.
PaceJustified == Limiter!PaceJustified
=============================================================================
