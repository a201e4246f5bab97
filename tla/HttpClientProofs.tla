-------------------------- MODULE HttpClientProofs ---------------------------
(***************************************************************************)
(* For any number of workers, retries and calls: the pace of the limiter they *)
(* share stays within its bounds and within what the server has shown; and    *)
(* the cache never falls behind a completed mutation but by a read that       *)
(* straddled the invalidation.  At the end, the commands that compose several *)
(* reads.                                                                   *)
(***************************************************************************)
EXTENDS HttpClient, AssistAnswers, FiniteSetTheorems, WellFoundedInduction, TLAPS

-----------------------------------------------------------------------------
(***************************************************************************)
(* The limiter by itself, for every start rate, ceiling, ramp and budget.   *)
(***************************************************************************)
LEMMA ConstantsNat ==
  /\ Unit \in Nat /\ StartRate \in Nat /\ MaxRate \in Nat /\ Limiter!Floor \in Nat
  /\ Limiter!Floor <= StartRate /\ (MaxRate > 0 => MaxRate = StartRate)
BY RateLimiterAssumption DEF Limiter!Floor, Limiter!Lesser

\* What Limiter!Clamp returns, for any rate a handler computes.
LEMMA ClampBounds ==
  ASSUME NEW rate \in Int
  PROVE  /\ Limiter!Clamp(rate) \in Nat /\ Limiter!Floor <= Limiter!Clamp(rate)
         /\ MaxRate > 0 => Limiter!Clamp(rate) <= MaxRate
         /\ \A most \in Int : rate <= most => Limiter!Clamp(rate) <= Limiter!Greater(most, Limiter!Floor)
BY ConstantsNat DEF Limiter!Clamp, Limiter!Greater, Limiter!Lesser

LimiterInv == Limiter!LimiterOK /\ Limiter!PaceJustified

LEMMA LimiterInit == Limiter!Init => LimiterInv
BY ConstantsNat DEF Limiter!Init, LimiterInv, Limiter!LimiterOK, Limiter!PaceJustified, Limiter!RateBounded

LEMMA ObserveKeeps ==
  ASSUME LimiterInv, NEW b \in Budgets, Limiter!ObserveHeaders(b)
  PROVE  LimiterInv'
<1>1. b.remaining \in Nat /\ b.secs \in Nat \ {0}
  BY RateLimiterAssumption DEF Limiter!ObserveHeaders
<1>2. b.remaining * Unit \in Nat
  BY <1>1, ConstantsNat
<1>3. (b.remaining * Unit) \div b.secs \in Int
  BY <1>1, <1>2
<1>4. (b.remaining * Unit) \div b.secs \in Nat
  BY <1>1, <1>2, <1>3
<1>5. Limiter!Refill(b) \in Nat
  BY <1>4 DEF Limiter!Refill, Limiter!Greater, LimiterInv, Limiter!LimiterOK
<1>6. Limiter!Braked(b) \in Int /\ Limiter!Braked(b) <= Limiter!Refill(b)
  BY <1>2, <1>5 DEF Limiter!Braked
<1>7. /\ Limiter!Clamp(Limiter!Braked(b)) \in Nat /\ Limiter!Floor <= Limiter!Clamp(Limiter!Braked(b))
      /\ MaxRate > 0 => Limiter!Clamp(Limiter!Braked(b)) <= MaxRate
      /\ Limiter!Clamp(Limiter!Braked(b)) <= Limiter!Greater(Limiter!Refill(b), Limiter!Floor)
  BY <1>5, <1>6, ClampBounds
<1> QED
  BY <1>5, <1>7 DEF Limiter!ObserveHeaders, LimiterInv, Limiter!LimiterOK, Limiter!PaceJustified, Limiter!RateBounded

LEMMA SuccessKeeps ==
  ASSUME LimiterInv, Limiter!OnSuccess
  PROVE  LimiterInv'
<1>1. Limiter!Ramp \in Int
  BY DEF Limiter!Ramp, Limiter!Lesser, LimiterInv, Limiter!LimiterOK
<1>2. /\ Limiter!Clamp(Limiter!Ramp) \in Nat /\ Limiter!Floor <= Limiter!Clamp(Limiter!Ramp)
      /\ MaxRate > 0 => Limiter!Clamp(Limiter!Ramp) <= MaxRate
      /\ lim.ceiling > 0 => Limiter!Clamp(Limiter!Ramp) <= Limiter!Greater((lim.ceiling * 9) \div 10, Limiter!Floor)
  <2>1. lim.ceiling \in Nat /\ (lim.ceiling * 9) \div 10 \in Int
    BY DEF LimiterInv, Limiter!LimiterOK
  <2>2. lim.ceiling > 0 => Limiter!Ramp <= (lim.ceiling * 9) \div 10
    BY <1>1, <2>1 DEF Limiter!Ramp, Limiter!Lesser, LimiterInv, Limiter!LimiterOK
  <2> QED  BY <1>1, <2>1, <2>2, ClampBounds
<1>3. lim.successes + 1 \in Nat /\ Limiter!LimiterOK /\ Limiter!PaceJustified /\ RampAfter \in Nat
  BY RateLimiterAssumption DEF LimiterInv, Limiter!LimiterOK
<1>4. CASE lim.headerDriven
  BY <1>3, <1>4 DEF Limiter!OnSuccess, LimiterInv, Limiter!LimiterOK, Limiter!PaceJustified, Limiter!RateBounded
<1>5. CASE ~lim.headerDriven /\ lim.successes + 1 < RampAfter
  BY <1>3, <1>5 DEF Limiter!OnSuccess, LimiterInv, Limiter!LimiterOK, Limiter!PaceJustified, Limiter!RateBounded
<1>6. CASE ~lim.headerDriven /\ ~(lim.successes + 1 < RampAfter)
  <2>1. lim' = [lim EXCEPT !.rate = Limiter!Clamp(Limiter!Ramp), !.successes = 0]
    BY <1>6 DEF Limiter!OnSuccess
  <2> QED
    BY <1>6, <2>1, <1>2, <1>3, ConstantsNat DEF LimiterInv, Limiter!LimiterOK, Limiter!PaceJustified, Limiter!RateBounded
<1> QED
  BY <1>4, <1>5, <1>6

LEMMA RefusalKeeps ==
  ASSUME LimiterInv, Limiter!OnRateLimit
  PROVE  LimiterInv'
<1> DEFINE low == Limiter!Greater(lim.rate \div 2, Limiter!Floor)
           half == IF lim.headerDriven THEN lim.budgetRate ELSE lim.budgetRate \div 2
<1>1. lim.rate \in Nat /\ lim.rate \div 2 \in Nat /\ lim.rate \div 2 <= lim.rate /\ lim.budgetRate \div 2 \in Nat
      /\ lim.rate \div 2 <= (lim.rate * 9) \div 10 /\ (lim.rate * 9) \div 10 \in Nat
  BY DEF LimiterInv, Limiter!LimiterOK
<1>2. /\ low \in Nat /\ Limiter!Floor <= low /\ low <= lim.rate
      /\ low <= Limiter!Greater((lim.rate * 9) \div 10, Limiter!Floor)
  BY <1>1, ConstantsNat DEF Limiter!Greater, LimiterInv, Limiter!LimiterOK, Limiter!PaceJustified, Limiter!RateBounded
<1>3. half \in Nat /\ (lim.headerDriven => half = lim.budgetRate)
  BY <1>1 DEF LimiterInv, Limiter!LimiterOK
<1>4. lim' = [lim EXCEPT !.ceiling = lim.rate, !.rate = low, !.budgetRate = half, !.successes = 0]
  BY DEF Limiter!OnRateLimit, LimiterInv, Limiter!LimiterOK
<1> HIDE DEF low, half
<1>5. /\ Limiter!LimiterOK' /\ lim'.rate = low /\ lim'.budgetRate = half /\ lim'.ceiling = lim.rate
      /\ lim'.headerDriven = lim.headerDriven
  BY <1>1, <1>2, <1>3, <1>4 DEF LimiterInv, Limiter!LimiterOK
<1>6. Limiter!RateBounded'
  BY <1>1, <1>2, <1>5, ConstantsNat DEF LimiterInv, Limiter!PaceJustified, Limiter!RateBounded
<1>7. lim.headerDriven => low <= Limiter!Greater(half, Limiter!Floor)
  <2> SUFFICES ASSUME lim.headerDriven PROVE low <= Limiter!Greater(half, Limiter!Floor)
    OBVIOUS
  <2>1. lim.rate <= Limiter!Greater(lim.budgetRate, Limiter!Floor) /\ half = lim.budgetRate /\ lim.budgetRate \in Nat
    BY <1>3 DEF LimiterInv, Limiter!LimiterOK, Limiter!PaceJustified
  <2> QED  BY <1>1, <1>2, <2>1, ConstantsNat DEF Limiter!Greater
<1> QED
  BY <1>2, <1>5, <1>6, <1>7 DEF LimiterInv, Limiter!PaceJustified

LEMMA LimiterKept == LimiterInv /\ [Limiter!Next]_lim => LimiterInv'
BY ObserveKeeps, SuccessKeeps, RefusalKeeps DEF Limiter!Next, LimiterInv, Limiter!LimiterOK, Limiter!PaceJustified, Limiter!RateBounded

\* The state of AdaptiveLimiter keeps its ranges: what the bounds above rest on.
THEOREM LimiterTypeCorrect == Limiter!Spec => []Limiter!LimiterOK
<1>1. LimiterInv => Limiter!LimiterOK
  BY DEF LimiterInv
<1> QED
  BY LimiterInit, LimiterKept, <1>1, PTL DEF Limiter!Spec

-----------------------------------------------------------------------------
(***************************************************************************)
(* The client.                                                             *)
(***************************************************************************)
USE DEF At

\* Every step that touches the limiter is one call of one of its methods.
LEMMA LimiterStep == [Next]_vars => [Limiter!Next]_lim
<1> SUFFICES ASSUME [Next]_vars
             PROVE  [Limiter!Next]_lim
  OBVIOUS
<1>1. CASE UNCHANGED vars
  BY <1>1 DEF vars
<1>2. CASE Age
  BY <1>2 DEF Age
<1>3. ASSUME NEW w \in Workers, (\E kind \in Kinds : Start(w, kind)) \/ Cancel(w)
      PROVE  [Limiter!Next]_lim
  BY <1>3 DEF Start, Cancel
<1>4. ASSUME NEW w \in Workers, Observe(w)
      PROVE  [Limiter!Next]_lim
  BY <1>4 DEF Observe, Limiter!Next
<1>5. ASSUME NEW w \in Workers, Settle(w)
      PROVE  [Limiter!Next]_lim
  <2>1. Limiter!OnSuccess \/ Limiter!OnRateLimit \/ UNCHANGED lim
    BY <1>5 DEF Settle
  <2> QED
    BY <2>1 DEF Limiter!Next
<1>6. ASSUME NEW w \in Workers, Acquire(w) \/ Wait(w) \/ Retry(w) \/ Truncate(w) \/ WriteCache(w) \/ Invalidate(w)
      PROVE  UNCHANGED lim
  BY <1>6 DEF Acquire, Wait, Retry, Truncate, WriteCache, Invalidate
<1>7. ASSUME NEW w \in Workers, \E issued \in BOOLEAN : Bootstrap(w, issued)
      PROVE  UNCHANGED lim
  BY <1>7 DEF Bootstrap
<1>8. ASSUME NEW w \in Workers, \E answer \in Answers, applied \in BOOLEAN : Send(w, answer, applied)
      PROVE  UNCHANGED lim
  BY <1>8 DEF Send
<1>9. ASSUME NEW w \in Workers, Step(w)
      PROVE  [Limiter!Next]_lim
  BY <1>4, <1>5, <1>6, <1>7, <1>8, <1>9, Zenon DEF Step
<1> QED
  BY <1>1, <1>2, <1>3, <1>9, Zenon DEF Next

LEMMA ClientUsesLimiter == Spec => Limiter!Spec
<1>1. Init => Limiter!Init
  BY DEF Init
<1> QED
  BY <1>1, LimiterStep, PTL DEF Spec, Limiter!Spec

-----------------------------------------------------------------------------
\* PaceJustified: whatever the workers' answers are and in whatever order they
\* report them, the client never paces below the floor, above --rate-limit, above
\* the best refill rate seen in headers, or, without headers, above nine tenths of
\* the rate last refused (ratelimit.go, ObserveHeaders, OnSuccess, OnRateLimit).
THEOREM ClientPaceJustified == Spec => []PaceJustified
<1>1. LimiterInv => PaceJustified
  BY DEF LimiterInv, PaceJustified
<1>2. Limiter!Spec => []LimiterInv
  BY LimiterInit, LimiterKept, PTL DEF Limiter!Spec
<1> QED
  BY ClientUsesLimiter, <1>1, <1>2, PTL

-----------------------------------------------------------------------------
\* The invariant behind TypeOK, CacheFollowsMutations and SuccessAnswered.
\* What a call in flight brings back is no older than the last mutation that
\* invalidated the cache, unless that invalidation ran after it was answered.
SessionOK ==
  /\ session \in [holder : SUBSET Workers, ready : BOOLEAN, token : BOOLEAN]
  /\ session.ready => session.token
  /\ session.holder = {} \/ \E u \in Workers : session.holder = {u}
  /\ \A w \in Workers : (call[w].pc = "boot") <=> (w \in session.holder)

CacheOK == cache \in [body : Bodies, fresh : BOOLEAN, straddled : BOOLEAN]

CountersOK == env \in Envs /\ {version, mark} \subseteq 0..MaxVersion /\ calls \in 0..MaxCalls

VersionsOK == mark <= version /\ \A w \in Workers : call[w].body <= version

FlightOK == \A w \in Workers : InFlight(w) /\ ~call[w].straddled => mark <= call[w].body

ErrorsOK == \A w \in Workers : call[w].pc = "backoff" => call[w].lastErr

Inv ==
  /\ call \in [Workers -> Call] /\ SessionOK /\ CacheOK /\ CountersOK
  /\ VersionsOK /\ FlightOK /\ CacheFollowsMutations /\ ErrorsOK /\ SuccessAnswered

LEMMA BoundsNat == MaxVersion \in Nat /\ MaxCalls \in Nat
BY HttpClientAssumption

LEMMA NoCallOK == \A r \in {"none", "body", "empty", "error"} : [NoCall EXCEPT !.result = r] \in Call
BY DEF NoCall, Call, Stages, Kinds, Answers, Bodies, None

\* Max of two versions, as Invalidate uses it.
LEMMA MaxOfTwo ==
  ASSUME NEW a \in Int, NEW b \in Int
  PROVE  Max({a, b}) \in {a, b} /\ Max({a, b}) >= a /\ Max({a, b}) >= b
<1>1. \E x \in {a, b} : \A y \in {a, b} : x >= y
  OBVIOUS
<1> QED
  BY <1>1 DEF Max

LEMMA InvInit == Init => Inv
BY BoundsNat, NoCallOK, HttpClientAssumption
DEF Init, Inv, SessionOK, CacheOK, CountersOK, VersionsOK, FlightOK, ErrorsOK, SuccessAnswered,
    CacheFollowsMutations, NoFile, NoCall, Call, Stages, Kinds, Answers, Bodies, None, InFlight

-----------------------------------------------------------------------------
\* A worker's step gives its call the value c and leaves the other calls alone;
\* what is left to show of each action is about c and the shared state.
Fits(w, c) ==
  /\ c \in Call /\ call' = [call EXCEPT ![w] = c]
  /\ c.body <= version'
  /\ c.pc \in {"observe", "settle", "store", "storing"} /\ ~c.straddled => mark <= c.body
  /\ c.pc = "backoff" => c.lastErr
  /\ c.result # "empty"

LEMMA CallUpdate ==
  ASSUME Inv, NEW w \in Workers, NEW c, Fits(w, c),
         SessionOK', CacheOK', CacheFollowsMutations', CountersOK', mark' = mark, version <= version'
  PROVE  Inv'
<1>1. call' \in [Workers -> Call] /\ call'[w] = c /\ \A u \in Workers \ {w} : call'[u] = call[u]
  BY DEF Inv, Fits
<1>2. version \in Nat /\ version' \in Nat /\ mark \in Nat /\ \A u \in Workers : call[u].body \in Int
  BY BoundsNat DEF Inv, CountersOK, Call, Bodies, None, Torn
<1>3. VersionsOK'
  <2>1. c.body \in Int /\ c.body <= version'
    BY BoundsNat DEF Fits, Call, Bodies, None, Torn
  <2> QED
    BY <1>1, <1>2, <2>1 DEF Inv, VersionsOK
<1>4. FlightOK'
  BY <1>1 DEF Inv, FlightOK, InFlight, Fits
<1>5. ErrorsOK' /\ SuccessAnswered'
  BY <1>1 DEF Inv, ErrorsOK, SuccessAnswered, Fits
<1> QED
  BY <1>1, <1>3, <1>4, <1>5 DEF Inv

\* A step that neither takes nor leaves the mutex of the session.
LEMMA SessionKept ==
  ASSUME Inv, NEW w \in Workers, NEW c, Fits(w, c), UNCHANGED session,
         call[w].pc # "boot", c.pc # "boot"
  PROVE  SessionOK'
BY DEF Inv, SessionOK, Fits

LEMMA CacheKept ==
  ASSUME Inv, UNCHANGED <<cache, mark>>
  PROVE  CacheOK' /\ CacheFollowsMutations'
BY DEF Inv, CacheOK, CacheFollowsMutations

\* Steps of one call that touch neither the session nor the cache.
LEMMA PlainStep ==
  ASSUME Inv, NEW w \in Workers, NEW c, Fits(w, c), UNCHANGED <<env, session, cache, version, mark>>,
         calls' \in 0..MaxCalls, call[w].pc # "boot", c.pc # "boot"
  PROVE  Inv'
<1>1. CountersOK' /\ version <= version'
  BY BoundsNat DEF Inv, CountersOK
<1> QED
  BY <1>1, SessionKept, CacheKept, CallUpdate

LEMMA ReturnFits ==
  ASSUME Inv, NEW w \in Workers, NEW r \in {"body", "error"}, Return(w, r), version' \in Nat
  PROVE  Fits(w, [NoCall EXCEPT !.result = r]) /\ [NoCall EXCEPT !.result = r].pc = "idle"
BY NoCallOK DEF Return, Fits, NoCall, None

-----------------------------------------------------------------------------
LEMMA StartKeeps ==
  ASSUME Inv, NEW w \in Workers, NEW kind \in Kinds, Start(w, kind)
  PROVE  Inv'
<1>1. UNCHANGED <<env, session, cache, version, mark>> /\ calls' \in 0..MaxCalls /\ call[w].pc # "boot"
  BY BoundsNat DEF Start, Inv, CountersOK
<1>2. PICK c : Fits(w, c) /\ c.pc # "boot"
  <2>1. CASE Return(w, "body")
    <3>1. version' \in Nat
      BY <1>1, BoundsNat DEF Inv, CountersOK
    <3> QED
      BY <2>1, <3>1, ReturnFits
  <2> DEFINE new == [NoCall EXCEPT !.kind = kind, !.pc = "session"]
  <2>2. CASE call' = [call EXCEPT ![w] = new]
    <3>1. new \in Call /\ new.body = -1 /\ new.pc = "session" /\ new.result = "none"
      BY DEF NoCall, Call, Stages, Answers, Bodies, None
    <3>2. new.body <= version'
      BY <1>1, <3>1, BoundsNat DEF Inv, CountersOK
    <3> QED
      BY <2>2, <3>1, <3>2 DEF Fits
  <2> QED
    BY <2>1, <2>2 DEF Start, Return, NoCall
<1> QED
  BY <1>1, <1>2, PlainStep

LEMMA CancelKeeps ==
  ASSUME Inv, NEW w \in Workers, Cancel(w)
  PROVE  Inv'
<1>1. UNCHANGED <<env, session, cache, version, mark, calls>> /\ calls' \in 0..MaxCalls
      /\ call[w].pc # "boot"
  BY DEF Cancel, Inv, CountersOK
<1>2. Fits(w, [call[w] EXCEPT !.cancelled = TRUE]) /\ [call[w] EXCEPT !.cancelled = TRUE].pc # "boot"
  BY <1>1 DEF Cancel, Fits, Inv, Call, VersionsOK, ErrorsOK, SuccessAnswered
<1> QED
  BY <1>1, <1>2, PlainStep

\* What moving on to a stage leaves true of the call.
LEMMA MoveFits ==
  ASSUME Inv, NEW w \in Workers, NEW stage \in Stages, Goto(w, stage), UNCHANGED version,
         stage # "backoff",
         stage \in {"observe", "settle", "store", "storing"} => InFlight(w)
  PROVE  Fits(w, [call[w] EXCEPT !.pc = stage]) /\ [call[w] EXCEPT !.pc = stage].pc = stage
BY DEF Goto, Fits, Inv, Call, VersionsOK, FlightOK, InFlight, SuccessAnswered

LEMMA AcquireKeeps ==
  ASSUME Inv, NEW w \in Workers, Acquire(w)
  PROVE  Inv'
<1>1. call[w].pc = "session" /\ UNCHANGED <<env, cache, version, mark, calls>> /\ calls' \in 0..MaxCalls
  BY DEF Acquire, Inv, CountersOK
<1>2. CASE session.ready
  BY <1>1, <1>2, MoveFits, PlainStep DEF Acquire, Stages
<1>3. CASE ~session.ready
  <2>1. Fits(w, [call[w] EXCEPT !.pc = "boot"])
    BY <1>1, <1>3, MoveFits DEF Acquire, Stages
  <2>2. SessionOK'
    BY <1>1, <1>3 DEF Acquire, Goto, Inv, SessionOK, Call
  <2>3. CountersOK' /\ version <= version'
    BY <1>1, BoundsNat DEF Inv, CountersOK
  <2> QED
    BY <1>1, <2>1, <2>2, <2>3, CacheKept, CallUpdate
<1> QED
  BY <1>2, <1>3

LEMMA BootstrapKeeps ==
  ASSUME Inv, NEW w \in Workers, NEW issued \in BOOLEAN, Bootstrap(w, issued)
  PROVE  Inv'
<1>1. call[w].pc = "boot" /\ UNCHANGED <<env, cache, version, mark, calls>>
  BY DEF Bootstrap
<1>2. PICK c : Fits(w, c) /\ c.pc \in {"wait", "idle"}
  <2>1. version' \in Nat
    BY <1>1, BoundsNat DEF Inv, CountersOK
  <2> QED
    BY <1>1, <2>1, MoveFits, ReturnFits, ZenonT(60) DEF Bootstrap, Stages
<1>3. SessionOK'
  BY <1>1, <1>2 DEF Bootstrap, Fits, Inv, SessionOK
<1>4. CountersOK' /\ version <= version'
  BY <1>1, BoundsNat DEF Inv, CountersOK
<1> QED
  BY <1>1, <1>2, <1>3, <1>4, CacheKept, CallUpdate

LEMMA WaitKeeps ==
  ASSUME Inv, NEW w \in Workers, Wait(w) \/ Observe(w)
  PROVE  Inv'
<1>1. UNCHANGED <<env, session, cache, version, mark, calls>> /\ calls' \in 0..MaxCalls
      /\ call[w].pc # "boot"
  BY DEF Wait, Observe, Inv, CountersOK
<1>2. PICK c : Fits(w, c) /\ c.pc \in {"send", "settle"}
  BY <1>1, MoveFits, ZenonT(60) DEF Wait, Observe, Stages, InFlight
<1> QED
  BY <1>1, <1>2, PlainStep

LEMMA SendKeeps ==
  ASSUME Inv, NEW w \in Workers, NEW answer \in Answers, NEW applied \in BOOLEAN,
         Send(w, answer, applied)
  PROVE  Inv'
<1>1. call[w].pc = "send" /\ UNCHANGED <<env, session, cache, mark, calls>>
  BY DEF Send
<1>2. version' \in 0..MaxVersion /\ version <= version' /\ mark <= version'
  BY BoundsNat DEF Send, Inv, CountersOK, VersionsOK
<1>3. PICK c : Fits(w, c) /\ c.pc # "boot"
  <2>1. CASE Return(w, "error")
    <3>1. version' \in Nat
      BY <1>2, BoundsNat
    <3> QED
      BY <2>1, <3>1, ReturnFits
  <2>2. CASE call' = Backoff(w, answer)
    <3> DEFINE c == [call[w] EXCEPT !.pc = "backoff", !.last = answer, !.body = None, !.lastErr = TRUE]
    <3>1. c \in Call /\ c.body = -1 /\ c.lastErr /\ c.pc = "backoff" /\ c.result = call[w].result
      <4>1. call[w] \in Call
        BY DEF Inv
      <4>2. c = [call[w] EXCEPT !.pc = "backoff", !.last = answer, !.body = -1, !.lastErr = TRUE]
        BY Zenon DEF None
      <4>3. c.lastErr /\ c.body = -1 /\ c.pc = "backoff" /\ c.result = call[w].result
        BY <4>1, <4>2, Zenon DEF Call
      <4>4. c \in Call
        BY <4>1, <4>2 DEF Call, Stages, Bodies, None
      <4> QED
        BY <4>3, <4>4
    <3>2. call' = [call EXCEPT ![w] = c]
      BY <2>2 DEF Backoff
    <3>3. c.body <= version' /\ c.result # "empty"
      BY <1>2, <3>1, BoundsNat DEF Inv, SuccessAnswered
    <3> HIDE DEF c
    <3> QED
      BY <3>1, <3>2, <3>3 DEF Fits
  <2>3. CASE call' = [call EXCEPT ![w] = [@ EXCEPT !.pc = "observe", !.last = answer, !.body = version', !.straddled = FALSE]]
    <3> DEFINE c == [call[w] EXCEPT !.pc = "observe", !.last = answer, !.body = version', !.straddled = FALSE]
    <3>1. c \in Call /\ c.body = version' /\ c.pc = "observe" /\ c.result = call[w].result
      BY <1>2, ZenonT(60) DEF Inv, Call, Stages, Bodies
    <3>2. call' = [call EXCEPT ![w] = c]
      BY <2>3
    <3>3. c.body <= version' /\ mark <= c.body /\ c.result # "empty"
      BY <1>2, <3>1, BoundsNat DEF Inv, SuccessAnswered
    <3> HIDE DEF c
    <3> QED
      BY <3>1, <3>2, <3>3 DEF Fits
  <2> QED
    BY <2>1, <2>2, <2>3 DEF Send
<1>4. SessionOK'
  BY <1>1, <1>3, SessionKept
<1>5. CountersOK'
  BY <1>1, <1>2 DEF Inv, CountersOK
<1> QED
  BY <1>1, <1>2, <1>3, <1>4, <1>5, CacheKept, CallUpdate

LEMMA SettleKeeps ==
  ASSUME Inv, NEW w \in Workers, Settle(w)
  PROVE  Inv'
<1>1. call[w].pc = "settle" /\ UNCHANGED <<env, session, cache, version, mark, calls>>
      /\ calls' \in 0..MaxCalls /\ version' \in Nat /\ version \in Nat
  BY BoundsNat DEF Settle, Inv, CountersOK
<1>2. PICK c : Fits(w, c) /\ c.pc # "boot"
  <2>1. CASE \E r \in {"body", "error"} : Return(w, r)
    BY <1>1, <2>1, ReturnFits
  <2>2. CASE Goto(w, "store")
    BY <1>1, <2>2, MoveFits DEF Stages, InFlight
  <2>3. CASE \E answer \in Answers : call' = Backoff(w, answer)
    <3>1. PICK answer \in Answers : call' = Backoff(w, answer)
      BY <2>3
    <3> DEFINE c == [call[w] EXCEPT !.pc = "backoff", !.last = answer, !.body = None, !.lastErr = TRUE]
    <3>2. c \in Call /\ c.body = -1 /\ c.lastErr /\ c.pc = "backoff" /\ c.result = call[w].result
      <4>1. call[w] \in Call
        BY DEF Inv
      <4>2. c = [call[w] EXCEPT !.pc = "backoff", !.last = answer, !.body = -1, !.lastErr = TRUE]
        BY Zenon DEF None
      <4>3. c.lastErr /\ c.body = -1 /\ c.pc = "backoff" /\ c.result = call[w].result
        BY <4>1, <4>2, Zenon DEF Call
      <4>4. c \in Call
        BY <4>1, <4>2 DEF Call, Stages, Bodies, None
      <4> QED
        BY <4>3, <4>4
    <3>3. call' = [call EXCEPT ![w] = c]
      BY <3>1 DEF Backoff
    <3>4. c.body <= version' /\ c.result # "empty"
      BY <1>1, <3>2 DEF Inv, SuccessAnswered
    <3> HIDE DEF c
    <3> QED
      BY <3>2, <3>3, <3>4 DEF Fits
  <2> QED
    BY <2>1, <2>2, <2>3 DEF Settle, Answers
<1> QED
  BY <1>1, <1>2, PlainStep

LEMMA RetryKeeps ==
  ASSUME Inv, NEW w \in Workers, Retry(w)
  PROVE  Inv'
<1>1. call[w].pc = "backoff" /\ UNCHANGED <<env, session, cache, version, mark, calls>>
      /\ calls' \in 0..MaxCalls /\ version' \in Nat
  BY BoundsNat DEF Retry, Inv, CountersOK
<1>2. PICK c : Fits(w, c) /\ c.pc # "boot"
  <2>1. CASE \E r \in {"body", "error"} : Return(w, r)
    BY <1>1, <2>1, ReturnFits
  <2>2. CASE call' = [call EXCEPT ![w].pc = "wait", ![w].attempt = @ + 1, ![w].last = "none"]
    <3> DEFINE c == [call[w] EXCEPT !.pc = "wait", !.attempt = @ + 1, !.last = "none"]
    <3>1. call[w] \in Call /\ call[w].attempt + 1 \in Nat
      BY DEF Inv, Call
    <3>2. c \in Call /\ c.body = call[w].body /\ c.pc = "wait" /\ c.result = call[w].result
      BY <3>1 DEF Call, Stages, Answers
    <3>3. call' = [call EXCEPT ![w] = c]
      BY <2>2, <3>1 DEF Inv
    <3>4. c.body <= version' /\ c.result # "empty"
      BY <1>1, <3>2 DEF Inv, SuccessAnswered, VersionsOK
    <3> HIDE DEF c
    <3> QED
      BY <3>2, <3>3, <3>4 DEF Fits
  <2>3. call[w].lastErr
    BY <1>1 DEF Inv, ErrorsOK
  <2> QED
    BY <2>1, <2>2, <2>3 DEF Retry
<1> QED
  BY <1>1, <1>2, PlainStep

LEMMA TruncateKeeps ==
  ASSUME Inv, NEW w \in Workers, Truncate(w)
  PROVE  Inv'
<1> DEFINE c == [call[w] EXCEPT !.pc = "storing", !.open = TRUE]
<1>1. call[w].pc = "store" /\ UNCHANGED <<env, session, version, mark, calls>> /\ version \in Nat
  BY BoundsNat DEF Truncate, Inv, CountersOK
<1>2. c \in Call /\ c.pc = "storing" /\ c.body = call[w].body /\ c.straddled = call[w].straddled
      /\ c.result = call[w].result
  BY ZenonT(60) DEF Inv, Call, Stages
<1>3. call' = [call EXCEPT ![w] = c]
  BY DEF Truncate, Inv, Call
<1>4. c.body <= version' /\ c.result # "empty" /\ (~c.straddled => mark <= c.body)
  BY <1>1, <1>2 DEF Inv, SuccessAnswered, VersionsOK, FlightOK, InFlight
<1> HIDE DEF c
<1>5. Fits(w, c)
  BY <1>2, <1>3, <1>4 DEF Fits
<1>6. CacheOK' /\ CacheFollowsMutations'
  BY DEF Truncate, Inv, Call, CacheOK, CacheFollowsMutations, Bodies, Torn
<1>7. CountersOK' /\ version <= version'
  BY <1>1 DEF Inv, CountersOK
<1> QED
  BY <1>1, <1>2, <1>5, <1>6, <1>7, SessionKept, CallUpdate

LEMMA WriteCacheKeeps ==
  ASSUME Inv, NEW w \in Workers, WriteCache(w)
  PROVE  Inv'
<1>1. call[w].pc = "storing" /\ Return(w, "body") /\ UNCHANGED <<env, session, version, mark, calls>>
      /\ version \in Nat /\ version' \in Nat
  BY BoundsNat DEF WriteCache, Inv, CountersOK
<1>2. PICK c : Fits(w, c) /\ c.pc = "idle"
  BY <1>1, ReturnFits
<1>3. call[w].body \in Bodies /\ call[w].straddled \in BOOLEAN /\ (~call[w].straddled => mark <= call[w].body)
  BY <1>1 DEF Inv, Call, FlightOK, InFlight
<1>4. CacheOK'
  BY <1>3 DEF WriteCache, Inv, CacheOK
<1>5. CacheFollowsMutations'
  <2>1. mark \in Nat
    BY BoundsNat DEF Inv, CountersOK
  <2> QED
    BY <1>1, <1>3, <2>1 DEF WriteCache, Inv, CacheFollowsMutations, Bodies, None, Torn
<1>6. CountersOK' /\ version <= version'
  BY <1>1 DEF Inv, CountersOK
<1> QED
  BY <1>1, <1>2, <1>4, <1>5, <1>6, SessionKept, CallUpdate

\* The only step that raises mark: every call in flight becomes straddled.
LEMMA InvalidateKeeps ==
  ASSUME Inv, NEW w \in Workers, Invalidate(w)
  PROVE  Inv'
<1> DEFINE done == [NoCall EXCEPT !.result = "body"]
           other(u) == [call[u] EXCEPT !.open = FALSE, !.straddled = @ \/ InFlight(u)]
<1>1. call[w].pc = "store" /\ UNCHANGED <<env, session, version, calls>>
  BY DEF Invalidate
<1>2. version \in 0..MaxVersion /\ mark \in 0..MaxVersion /\ mark <= version /\ call[w].body \in Int
      /\ call[w].body <= version
  BY BoundsNat DEF Inv, CountersOK, VersionsOK, Call, Bodies, None, Torn
<1>3. mark' \in 0..MaxVersion /\ mark' <= version'
  <2> DEFINE top == Max({mark, call[w].body})
  <2>1. mark \in Int /\ call[w].body \in Int
    BY <1>2, BoundsNat
  <2>2. top \in {mark, call[w].body} /\ top >= mark
    BY <2>1, MaxOfTwo
  <2>3. mark' = top \/ mark' = mark
    BY DEF Invalidate
  <2> HIDE DEF top
  <2> QED
    BY <1>1, <1>2, <2>2, <2>3, BoundsNat
<1>4. done \in Call /\ done.pc = "idle" /\ done.body = -1 /\ done.result = "body"
  BY NoCallOK DEF NoCall, None
<1>5. \A u \in Workers : /\ other(u) \in Call /\ other(u).pc = call[u].pc /\ other(u).body = call[u].body
                         /\ other(u).straddled = (call[u].straddled \/ InFlight(u))
                         /\ other(u).lastErr = call[u].lastErr /\ other(u).result = call[u].result
  BY ZenonT(60) DEF Inv, Call, InFlight
<1>6. call' = [u \in Workers |-> IF u = w THEN done ELSE other(u)]
  BY DEF Invalidate
<1> HIDE DEF done, other
<1>7. call' \in [Workers -> Call]
  BY <1>4, <1>5, <1>6
<1>8. SessionOK'
  BY <1>1, <1>4, <1>5, <1>6 DEF Inv, SessionOK
<1>9. CacheOK' /\ CacheFollowsMutations'
  <2>1. cache' = NoFile /\ NoFile.body = -1 /\ NoFile \in [body : Bodies, fresh : BOOLEAN, straddled : BOOLEAN]
    BY DEF Invalidate, NoFile, Bodies, None
  <2> QED
    BY <1>3, <2>1, BoundsNat DEF CacheOK, CacheFollowsMutations
<1>10. CountersOK'
  BY <1>1, <1>3 DEF Inv, CountersOK
<1>11. VersionsOK'
  BY <1>1, <1>2, <1>3, <1>4, <1>5, <1>6 DEF Inv, VersionsOK
<1>12. FlightOK'
  BY <1>4, <1>5, <1>6 DEF FlightOK, InFlight
<1>13. ErrorsOK' /\ SuccessAnswered'
  BY <1>4, <1>5, <1>6 DEF Inv, ErrorsOK, SuccessAnswered
<1> QED
  BY <1>7, <1>8, <1>9, <1>10, <1>11, <1>12, <1>13 DEF Inv

LEMMA AgeKeeps == Inv /\ (Age \/ UNCHANGED vars) => Inv'
<1> SUFFICES ASSUME Inv, Age \/ UNCHANGED vars
             PROVE  Inv'
  OBVIOUS
<1>1. UNCHANGED <<env, session, call, version, mark, calls>>
  BY DEF Age, vars
<1>2. CacheOK' /\ CacheFollowsMutations'
  BY DEF Age, vars, Inv, CacheOK, CacheFollowsMutations
<1> QED
  BY <1>1, <1>2 DEF Inv, SessionOK, CountersOK, VersionsOK, FlightOK, InFlight, ErrorsOK, SuccessAnswered

LEMMA InvStep == Inv /\ [Next]_vars => Inv'
<1> SUFFICES ASSUME Inv, [Next]_vars
             PROVE  Inv'
  OBVIOUS
<1>1. CASE Age \/ UNCHANGED vars
  BY <1>1, AgeKeeps
<1>2. ASSUME NEW w \in Workers, Step(w)
      PROVE  Inv'
  BY <1>2, AcquireKeeps, BootstrapKeeps, WaitKeeps, SendKeeps, SettleKeeps, RetryKeeps, TruncateKeeps,
     WriteCacheKeeps, InvalidateKeeps, Zenon DEF Step
<1> QED
  BY <1>1, <1>2, StartKeeps, CancelKeeps, Zenon DEF Next

-----------------------------------------------------------------------------
LEMMA AlwaysInv == Spec => []Inv
BY InvInit, InvStep, PTL DEF Spec

\* However many workers read, mutate and retry, the cache falls behind a
\* completed mutation only by a read that straddled its invalidation.
THEOREM CacheIsFresh == Spec => []CacheFollowsMutations
<1>1. Inv => CacheFollowsMutations
  BY DEF Inv
<1> QED
  BY AlwaysInv, <1>1, PTL

\* For any number of retries, the loop of doInternal has no exit without a body
\* and without an error.
THEOREM NeverEmpty == Spec => []SuccessAnswered
<1>1. Inv => SuccessAnswered
  BY DEF Inv
<1> QED
  BY AlwaysInv, <1>1, PTL

\* The limiter's state has its type wherever the client leaves it.
LEMMA LimiterTyped == Spec => []Limiter!LimiterOK
BY ClientUsesLimiter, LimiterTypeCorrect, PTL

\* At most one worker bootstraps at a time, none without holding the mutex, and a
\* ready session has its token; the other variables have their types.
THEOREM TypeCorrect == Spec => []TypeOK
<1>1. Inv /\ Limiter!LimiterOK => TypeOK
  <2> SUFFICES ASSUME Inv, Limiter!LimiterOK
               PROVE  TypeOK
    OBVIOUS
  <2>1. Cardinality(session.holder) <= 1
    <3>1. CASE session.holder = {}
      BY <3>1, FS_EmptySet
    <3>2. CASE \E u \in Workers : session.holder = {u}
      <4>1. PICK u : session.holder = {u}
        BY <3>2
      <4>2. Cardinality({u}) = 1
        BY FS_Singleton
      <4> QED
        BY <4>1, <4>2
    <3> QED
      BY <3>1, <3>2 DEF Inv, SessionOK
  <2> QED
    BY <2>1 DEF Inv, SessionOK, CacheOK, CountersOK, TypeOK
<1> QED
  BY AlwaysInv, LimiterTyped, <1>1, PTL

-----------------------------------------------------------------------------
(***************************************************************************)
(* The commands that compose an answer from several reads of the client    *)
(* (AssistAnswers), whatever the walks through a response make of it.      *)
(***************************************************************************)
\* The same matches at other positions.
Moved(n, m, p) ==
    /\ p \in [DOMAIN n -> DOMAIN m]
    /\ \A i \in DOMAIN m : \E j \in DOMAIN n : p[j] = i
    /\ \A j, k \in DOMAIN n : p[j] = p[k] => j = k
    /\ \A j \in DOMAIN n : n[j] = m[p[j]]
LEMMA BestsMove ==
    ASSUME NEW m, NEW n, NEW p, Moved(n, m, p)
    PROVE  /\ Best(n) \subseteq DOMAIN n /\ Best(m) \subseteq DOMAIN m
           /\ \A j \in DOMAIN n : j \in Best(n) <=> p[j] \in Best(m)
           /\ \A i \in Best(m) : \E j \in Best(n) : p[j] = i
<1> USE DEF Moved
<1>1. \A j \in DOMAIN n : j \in Matching(n) <=> p[j] \in Matching(m)
  BY DEF Matching
<1>2. \A j \in DOMAIN n : j \in Best(n) <=> p[j] \in Best(m)
  <2> SUFFICES ASSUME NEW j \in DOMAIN n PROVE j \in Best(n) <=> p[j] \in Best(m)
    OBVIOUS
  <2>1. ASSUME j \in Best(n) PROVE p[j] \in Best(m)
    <3>1. j \in Matching(n) /\ \A k \in Matching(n) : n[k].priority <= n[j].priority
      BY <2>1 DEF Best
    <3>2. ASSUME NEW i \in Matching(m) PROVE m[i].priority <= m[p[j]].priority
      <4>1. PICK k \in DOMAIN n : p[k] = i
        BY DEF Matching
      <4> QED  BY <1>1, <3>1, <4>1
    <3> QED  BY <1>1, <3>1, <3>2 DEF Best
  <2>2. ASSUME p[j] \in Best(m) PROVE j \in Best(n)
    <3>1. p[j] \in Matching(m) /\ \A i \in Matching(m) : m[i].priority <= m[p[j]].priority
      BY <2>2 DEF Best
    <3>2. ASSUME NEW k \in Matching(n) PROVE n[k].priority <= n[j].priority
      <4>1. k \in DOMAIN n
        BY DEF Matching
      <4> QED  BY <1>1, <3>1, <4>1
    <3> QED  BY <1>1, <3>1, <3>2 DEF Best
  <2> QED  BY <2>1, <2>2
<1>3. Best(n) \subseteq DOMAIN n /\ Best(m) \subseteq DOMAIN m
  BY DEF Best, Matching
<1> QED  BY <1>2, <1>3

\* The same best one, or none, or several.
LEMMA BestMoves ==
    ASSUME NEW m, NEW n, NEW p, Moved(n, m, p)
    PROVE  UniqueAssistMatch(n) = UniqueAssistMatch(m)
<1> USE DEF Moved
<1>2. \A j \in DOMAIN n : j \in Best(n) <=> p[j] \in Best(m)
  BY BestsMove
<1>3. Best(n) \subseteq DOMAIN n /\ Best(m) \subseteq DOMAIN m
  BY BestsMove
<1>4. Best(n) = {} <=> Best(m) = {}
  BY <1>2, <1>3
<1>5. (\E i, j \in Best(n) : i # j) <=> (\E i, j \in Best(m) : i # j)
  BY <1>2, <1>3
<1>6. ASSUME Best(n) # {}, ~ \E i, j \in Best(m) : i # j
      PROVE  n[CHOOSE i \in Best(n) : TRUE] = m[CHOOSE i \in Best(m) : TRUE]
  <2>1. (CHOOSE i \in Best(n) : TRUE) \in Best(n)
    BY <1>6
  <2>2. (CHOOSE i \in Best(m) : TRUE) \in Best(m)
    BY <1>4, <1>6
  <2>3. p[CHOOSE i \in Best(n) : TRUE] \in Best(m)
    BY <1>2, <1>3, <2>1
  <2>4. p[CHOOSE i \in Best(n) : TRUE] = CHOOSE i \in Best(m) : TRUE
    BY <1>6, <2>2, <2>3
  <2> QED  BY <1>3, <2>1, <2>4
<1> QED  BY <1>4, <1>5, <1>6 DEF UniqueAssistMatch

\* The records themselves are the same, and so is what they are refused for.
LEMMA AmongInAnyOrder ==
    ASSUME NEW s, NEW t \in Orders(s), NEW query, NEW outcome
    PROVE  Range(t) = Range(s) /\ Among(t, query, outcome) = Among(s, query, outcome)
<1>1. PICK p \in Bijection(DOMAIN s, DOMAIN s) : t = [i \in DOMAIN s |-> s[p[i]]]
  BY DEF Orders
<1>2. /\ p \in [DOMAIN s -> DOMAIN s]
      /\ \A i \in DOMAIN s : \E j \in DOMAIN s : p[j] = i
  BY <1>1 DEF Bijection, Injection, Surjection
<1>3. Range(t) = Range(s)
  BY <1>1, <1>2 DEF Range
<1> QED  BY <1>3 DEF Among

\* The records of another order are matched at other positions, each as before.
LEMMA InstitutionsInAnyOrder ==
    ASSUME NEW s, NEW t \in Orders(s), NEW query
    PROVE  ResolveAssistInstitution(t, query) = ResolveAssistInstitution(s, query)
<1>1. PICK p \in Bijection(DOMAIN s, DOMAIN s) : t = [i \in DOMAIN s |-> s[p[i]]]
  BY DEF Orders
<1>2. /\ p \in [DOMAIN s -> DOMAIN s]
      /\ \A i \in DOMAIN s : \E j \in DOMAIN s : p[j] = i
      /\ \A j, k \in DOMAIN s : p[j] = p[k] => j = k
  BY <1>1 DEF Bijection, Injection, Surjection, IsInjective
<1> DEFINE key == NormalizeAssistLabel(query)
           m == [i \in WithId(s, InstitutionKeys) |-> InstitutionMatch(s[i], key)]
           n == [i \in WithId(t, InstitutionKeys) |-> InstitutionMatch(t[i], key)]
           q == [i \in WithId(t, InstitutionKeys) |-> p[i]]
<1>3. DOMAIN t = DOMAIN s /\ \A i \in DOMAIN s : t[i] = s[p[i]]
  BY <1>1
<1>4. \A i \in DOMAIN s : i \in WithId(t, InstitutionKeys) <=>
        p[i] \in WithId(s, InstitutionKeys)
  BY <1>2, <1>3 DEF WithId
<1>5. /\ WithId(t, InstitutionKeys) \subseteq DOMAIN s
      /\ WithId(s, InstitutionKeys) \subseteq DOMAIN s
  BY <1>3 DEF WithId
<1>6. /\ q \in [DOMAIN n -> DOMAIN m]
      /\ \A i \in DOMAIN m : \E j \in DOMAIN n : q[j] = i
      /\ \A j, k \in DOMAIN n : q[j] = q[k] => j = k
  BY <1>2, <1>4, <1>5
<1>7. \A j \in DOMAIN n : n[j] = m[q[j]]
  BY <1>2, <1>3, <1>4, <1>5
<1>8. /\ ResolveAssistInstitution(s, query) = Among(s, query, UniqueAssistMatch(m))
      /\ ResolveAssistInstitution(t, query) = Among(t, query, UniqueAssistMatch(n))
  BY DEF ResolveAssistInstitution
<1> HIDE DEF m, n, q
<1>9. UniqueAssistMatch(n) = UniqueAssistMatch(m)
  BY <1>6, <1>7, BestMoves DEF Moved
<1> QED  BY <1>8, <1>9, AmongInAnyOrder

LEMMA YearsInAnyOrder ==
    ASSUME NEW s, NEW t \in Orders(s), NEW query
    PROVE  ResolveAssistAcademicYear(t, query) = ResolveAssistAcademicYear(s, query)
<1>1. PICK p \in Bijection(DOMAIN s, DOMAIN s) : t = [i \in DOMAIN s |-> s[p[i]]]
  BY DEF Orders
<1>2. /\ p \in [DOMAIN s -> DOMAIN s]
      /\ \A i \in DOMAIN s : \E j \in DOMAIN s : p[j] = i
      /\ \A j, k \in DOMAIN s : p[j] = p[k] => j = k
  BY <1>1 DEF Bijection, Injection, Surjection, IsInjective
<1> DEFINE key == NormalizeAssistLabel(query)
           m == [i \in WithId(s, YearKeys) |-> YearMatch(s[i], key)]
           n == [i \in WithId(t, YearKeys) |-> YearMatch(t[i], key)]
           q == [i \in WithId(t, YearKeys) |-> p[i]]
<1>3. DOMAIN t = DOMAIN s /\ \A i \in DOMAIN s : t[i] = s[p[i]]
  BY <1>1
<1>4. \A i \in DOMAIN s : i \in WithId(t, YearKeys) <=>
        p[i] \in WithId(s, YearKeys)
  BY <1>2, <1>3 DEF WithId
<1>5. /\ WithId(t, YearKeys) \subseteq DOMAIN s
      /\ WithId(s, YearKeys) \subseteq DOMAIN s
  BY <1>3 DEF WithId
<1>6. /\ q \in [DOMAIN n -> DOMAIN m]
      /\ \A i \in DOMAIN m : \E j \in DOMAIN n : q[j] = i
      /\ \A j, k \in DOMAIN n : q[j] = q[k] => j = k
  BY <1>2, <1>4, <1>5
<1>7. \A j \in DOMAIN n : n[j] = m[q[j]]
  BY <1>2, <1>3, <1>4, <1>5
<1>8. /\ ResolveAssistAcademicYear(s, query) = Among(s, query, UniqueAssistMatch(m))
      /\ ResolveAssistAcademicYear(t, query) = Among(t, query, UniqueAssistMatch(n))
  BY DEF ResolveAssistAcademicYear
<1> HIDE DEF m, n, q
<1>9. UniqueAssistMatch(n) = UniqueAssistMatch(m)
  BY <1>6, <1>7, BestMoves DEF Moved
<1> QED  BY <1>8, <1>9, AmongInAnyOrder

\* Of records that are all of one course the one that is least as text is the same one.
LEMMA LeastMoves ==
    ASSUME NEW m, NEW n, NEW p, Moved(n, m, p),
           \A i \in DOMAIN m : m[i].record \in DOMAIN Texts
    PROVE  OnlyCourse(n) = OnlyCourse(m)
<1> USE DEF Moved
<1>1. /\ Best(n) \subseteq DOMAIN n /\ Best(m) \subseteq DOMAIN m
      /\ \A j \in DOMAIN n : j \in Best(n) <=> p[j] \in Best(m)
      /\ \A i \in Best(m) : \E j \in Best(n) : p[j] = i
  BY BestsMove
<1>2. Best(n) = {} <=> Best(m) = {}
  BY <1>1
<1>3. (\E i, j \in Best(n) : n[i].id # n[j].id) <=> (\E i, j \in Best(m) : m[i].id # m[j].id)
  BY <1>1
<1>4. \A i \in DOMAIN m : Texts[m[i].record] \in Nat
  BY TextsAssumption
<1> DEFINE least(k) == k \in Best(m) /\ \A j \in Best(m) : Texts[m[k].record] <= Texts[m[j].record]
<1>5. ASSUME Best(m) # {} PROVE \E k \in Best(m) : least(k)
  <2> DEFINE numbers == {Texts[m[k].record] : k \in Best(m)}
  <2>1. numbers \in SUBSET Nat /\ numbers # {}
    BY <1>1, <1>4, <1>5
  <2> HIDE DEF numbers
  <2>2. PICK x \in numbers : \A y \in numbers : ~(<<y, x>> \in OpToRel(<, Nat))
    BY <2>1, NatLessThanWellFounded, WFMin
  <2>3. \A y \in numbers : y < x => <<y, x>> \in OpToRel(<, Nat)
    BY <2>1 DEF OpToRel
  <2>4. \A y \in numbers : x \in Nat /\ y \in Nat /\ ~(y < x)
    BY <2>1, <2>2, <2>3
  <2>5. PICK k \in Best(m) : x = Texts[m[k].record]
    BY <2>2 DEF numbers
  <2>6. \A j \in Best(m) : Texts[m[k].record] <= Texts[m[j].record]
    BY <2>4, <2>5 DEF numbers
  <2> QED  BY <2>5, <2>6
<1>6. ASSUME Best(m) # {}, ~ \E i, j \in Best(m) : m[i].id # m[j].id
      PROVE  ResolvedBy(n[Least(n)]) = ResolvedBy(m[Least(m)])
  <2>1. least(Least(m))
    BY <1>5, <1>6 DEF Least
  <2>2. PICK k \in Best(m) : least(k)
    BY <1>5, <1>6
  <2>3. PICK h \in Best(n) : p[h] = k
    BY <1>1
  <2>4. \A j \in Best(n) : Texts[n[h].record] <= Texts[n[j].record]
    BY <1>1, <2>2, <2>3
  <2>5. Least(n) \in Best(n) /\ \A j \in Best(n) : Texts[n[Least(n)].record] <= Texts[n[j].record]
    BY <2>4 DEF Least
  <2>6. least(p[Least(n)])
    <3> SUFFICES ASSUME NEW i \in Best(m)
                 PROVE  Texts[m[p[Least(n)]].record] <= Texts[m[i].record]
      BY <1>1, <2>5
    <3>1. PICK j \in Best(n) : p[j] = i
      BY <1>1
    <3> QED  BY <1>1, <2>5, <3>1
  <2>7. Texts[m[p[Least(n)]].record] = Texts[m[Least(m)].record]
    BY <1>1, <1>4, <2>1, <2>6
  <2>8. m[p[Least(n)]].record = m[Least(m)].record
    BY <1>1, <2>1, <2>6, <2>7, TextsAssumption
  <2>9. m[p[Least(n)]].id = m[Least(m)].id
    BY <1>6, <2>1, <2>6
  <2> QED  BY <1>1, <2>5, <2>8, <2>9 DEF ResolvedBy
<1> QED  BY <1>2, <1>3, <1>6 DEF OnlyCourse

LEMMA CoursesInAnyOrder ==
    ASSUME NEW s, NEW t \in Orders(s), NEW query, Range(s) \subseteq DOMAIN Texts
    PROVE  CourseAmong(t, query) = CourseAmong(s, query)
<1>1. PICK p \in Bijection(DOMAIN s, DOMAIN s) : t = [i \in DOMAIN s |-> s[p[i]]]
  BY DEF Orders
<1>2. /\ p \in [DOMAIN s -> DOMAIN s]
      /\ \A i \in DOMAIN s : \E j \in DOMAIN s : p[j] = i
      /\ \A j, k \in DOMAIN s : p[j] = p[k] => j = k
  BY <1>1 DEF Bijection, Injection, Surjection, IsInjective
<1> DEFINE in(r) == {x \in DOMAIN r : IsCourse(r[x])}
           m == [i \in in(s) |-> CourseMatch(s[i], query)]
           n == [i \in in(t) |-> CourseMatch(t[i], query)]
           q == [i \in in(t) |-> p[i]]
<1>3. DOMAIN t = DOMAIN s /\ \A i \in DOMAIN s : t[i] = s[p[i]]
  BY <1>1
<1>4. \A i \in DOMAIN s : i \in in(t) <=> p[i] \in in(s)
  BY <1>2, <1>3
<1>5. in(t) \subseteq DOMAIN s /\ in(s) \subseteq DOMAIN s
  BY <1>3
<1>6. /\ q \in [DOMAIN n -> DOMAIN m]
      /\ \A i \in DOMAIN m : \E j \in DOMAIN n : q[j] = i
      /\ \A j, k \in DOMAIN n : q[j] = q[k] => j = k
  BY <1>2, <1>4, <1>5
<1>7. \A j \in DOMAIN n : n[j] = m[q[j]]
  BY <1>2, <1>3, <1>4, <1>5
<1>8. \A i \in DOMAIN m : m[i].record \in DOMAIN Texts
  BY <1>5 DEF CourseMatch, Range
<1>9. /\ CourseAmong(s, query) = Among(s, query, OnlyCourse(m))
      /\ CourseAmong(t, query) = Among(t, query, OnlyCourse(n))
  BY DEF CourseAmong
<1> HIDE DEF m, n, q
<1>10. OnlyCourse(n) = OnlyCourse(m)
  BY <1>6, <1>7, <1>8, LeastMoves DEF Moved
<1> QED  BY <1>9, <1>10, AmongInAnyOrder

-----------------------------------------------------------------------------
(***************************************************************************)
(* What a command has read, and what it made of it, stay together: the     *)
(* reads after it add to got and replace nothing.                          *)
(***************************************************************************)
NotAsked == "sending" \notin DOMAIN got /\ "course" \notin DOMAIN got
Resolutions == {"institutions", "years", "sending", "academic_year", "receiving"}
AsResolved ==
    "sending" \in DOMAIN got =>
        /\ Resolutions \subseteq DOMAIN got
        /\ got.sending = ResolveAssistInstitution(got.institutions, ask.from)
        /\ got.receiving = ResolveAssistInstitution(got.institutions, ask.to)
        /\ got.academic_year = ResolveAssistAcademicYear(got.years, ask.year)
AsSearched ==
    "course" \in DOMAIN got =>
        /\ "search" \in DOMAIN got /\ got.search \in Searches
        /\ got.course = ResolveAdvisorCourse(got.search, ask.course)
\* Nothing was read before the first read, nothing resolved before both collections
\* were read, and no course searched for before its search.
InTurn ==
    /\ step \in {"idle", "institutions"} => got = <<>>
    /\ step = "years" => NotAsked
    /\ step = "search" => DOMAIN got = Resolutions
AnswersInv == InTurn /\ AsResolved /\ AsSearched

\* got grows, and what it held stays.
LEMMA Adding ==
    ASSUME NEW read
    PROVE  /\ DOMAIN More(read) = DOMAIN got \cup DOMAIN read
           /\ \A k \in DOMAIN got : More(read)[k] = got[k]
           /\ \A k \in DOMAIN read \ DOMAIN got : More(read)[k] = read[k]
BY DEF More

\* Once the names are resolved, and for the commands that resolve none, a step adds
\* to got at most; only the agreements read so far are replaced by more of them.
Grown == /\ DOMAIN got \subseteq DOMAIN got' /\ \A k \in DOMAIN got \ {"agreements"} : got'[k] = got[k]
         /\ \A k \in {"sending", "course"} : k \in DOMAIN got' => k \in DOMAIN got
LEMMA Later ==
    ASSUME AnswersInv, Grown, ask' = ask, step' \notin {"idle", "institutions", "years", "search"}
    PROVE  AnswersInv'
<1>1. InTurn'
  BY DEF InTurn
<1>2. AsResolved'
  <2> SUFFICES ASSUME "sending" \in DOMAIN got' PROVE AsResolved'
    BY DEF AsResolved
  <2>1. "sending" \in DOMAIN got /\ Resolutions \subseteq DOMAIN got
    BY DEF Grown, AnswersInv, AsResolved
  <2>2. \A k \in Resolutions : k \in DOMAIN got' /\ got'[k] = got[k]
    BY <2>1 DEF Grown, Resolutions
  <2> QED  BY <2>1, <2>2 DEF AnswersInv, AsResolved, Resolutions
<1>3. AsSearched'
  BY DEF AnswersInv, AsSearched, Grown
<1> QED  BY <1>1, <1>2, <1>3 DEF AnswersInv

\* A read under another name is such a step.
LEMMA Growing ==
    ASSUME NEW read, DOMAIN read \cap {"sending", "course"} = {}, got' = More(read)
    PROVE  Grown
BY Adding DEF Grown

LEMMA InitInTurn == AnswersInit => AnswersInv
<1>1. AnswersInit => DOMAIN got = {} /\ got = <<>> /\ step = "idle"
  BY DEF AnswersInit
<1> QED  BY <1>1 DEF AnswersInv, InTurn, AsResolved, AsSearched, NotAsked

LEMMA StepsInTurn == AnswersInv /\ [AnswersNext]_answersVars => AnswersInv'
<1> SUFFICES ASSUME AnswersInv, [AnswersNext]_answersVars PROVE AnswersInv'
  OBVIOUS
<1>1. ASSUME NEW a \in Asks, Asked(a) PROVE AnswersInv'
  <2>1. got = <<>> /\ got' = <<>> /\ step' \notin {"years", "search", "idle"}
    BY <1>1 DEF AnswersInv, InTurn, Asked, FirstRead
  <2>2. DOMAIN got' = {}
    BY <2>1
  <2> QED  BY <2>1, <2>2 DEF AnswersInv, InTurn, AsResolved, AsSearched
<1>2. CASE FetchInstitutions
  <2>1. got = <<>> /\ DOMAIN got = {} /\ ask' = ask
    BY <1>2 DEF FetchInstitutions, AnswersInv, InTurn, End, Go
  <2>2. CASE step' = "failed" /\ UNCHANGED got
    BY <2>1, <2>2, Later DEF Grown
  <2>3. ASSUME NEW v, got' = More([k \in {"institutions"} |-> v]), step' = "years" PROVE AnswersInv'
    <3>1. DOMAIN got' = {"institutions"}
      BY <2>1, <2>3, Adding
    <3> QED  BY <2>3, <3>1 DEF AnswersInv, InTurn, NotAsked, AsResolved, AsSearched
  <2> QED  BY <1>2, <2>2, <2>3 DEF FetchInstitutions, End, Go, Keep
<1>3. CASE FetchYears
  <2>1. NotAsked /\ ask' = ask
    BY <1>3 DEF FetchYears, AnswersInv, InTurn, End, Go, GoOn, Compose
  <2>2. CASE step' = "failed" /\ UNCHANGED got
    BY <2>1, <2>2, Later DEF Grown
  <2>3. ASSUME NEW years, got' = Resolve(years), step' \notin {"idle", "institutions", "years"}
        PROVE  AnswersInv'
    <3>1. DOMAIN got' = Resolutions
      BY <2>3 DEF Resolve, Resolutions
    <3>2. AsResolved'
      BY <2>1, <2>3, <3>1 DEF AsResolved, Resolve
    <3>3. InTurn' /\ AsSearched'
      BY <2>3, <3>1 DEF InTurn, AsSearched, Resolutions
    <3> QED  BY <3>2, <3>3 DEF AnswersInv
  <2>4. \A r : GoOn(r) => step' \in {"print", "search", "partners"}
    BY <1>3 DEF GoOn, Compose, Go
  <2> QED  BY <1>3, <2>2, <2>3, <2>4 DEF FetchYears, End, Go
<1>4. CASE SearchCourse
  <2>1. PICK response \in Searches :
          LET course == ResolveAdvisorCourse(response, ask.course)
          IN  got' = More([search |-> response, course |-> course]) /\ step' \in {"transferability", "failed"}
    BY <1>4 DEF SearchCourse, Go, End
  <2>2. DOMAIN got = Resolutions /\ ask' = ask
    BY <1>4 DEF SearchCourse, AnswersInv, InTurn, Go, End
  <2> DEFINE read == [search |-> response, course |-> ResolveAdvisorCourse(response, ask.course)]
  <2>3. DOMAIN read = {"search", "course"} /\ read.search = response
        /\ read.course = ResolveAdvisorCourse(response, ask.course)
    OBVIOUS
  <2>4. got' = More(read)
    BY <2>1
  <2> HIDE DEF read
  <2>5. /\ DOMAIN got' = Resolutions \cup {"search", "course"} /\ \A k \in Resolutions : got'[k] = got[k]
        /\ got'["search"] = response /\ got'["course"] = ResolveAdvisorCourse(response, ask.course)
    BY <2>2, <2>3, <2>4, Adding DEF Resolutions
  <2>6. AsResolved'
    BY <2>2, <2>5 DEF AnswersInv, AsResolved, Resolutions
  <2>7. AsSearched'
    BY <2>2, <2>5 DEF AsSearched
  <2> QED  BY <2>1, <2>6, <2>7 DEF AnswersInv, InTurn
<1>5. CASE FetchTransferability
  BY <1>5, Growing, Later DEF FetchTransferability, Keep, Go
<1>6. CASE FetchDepartment
  BY <1>6, Growing, Later DEF FetchDepartment, Keep, Go, End, Grown
<1>7. CASE FetchMajor
  BY <1>7, Later DEF FetchMajor, Compose, Go, End, Grown
<1>8. CASE FetchPartners
  BY <1>8, Growing, Later DEF FetchPartners, End, Go
<1>9. CASE FetchTypes
  BY <1>9, Later DEF FetchTypes, Compose, Go, Grown
<1>10. CASE FetchBefore
  BY <1>10, Growing, Later DEF FetchBefore, Keep, Go, End, Grown
<1>11. CASE FetchAfter
  BY <1>11, Growing, Later DEF FetchAfter, Keep, Go, End, Compose, Grown
<1>12. CASE LoadBefore
  BY <1>12, Growing, Later DEF LoadBefore, Keep, Go, End, Grown
<1>13. CASE LoadAfter
  BY <1>13, Growing, Later DEF LoadAfter, Keep, Go, End, Compose, Grown
<1>14. CASE Read
  BY <1>14, Later DEF Read, Compose, Grown
<1>15. CASE Show
  BY <1>15, Later DEF Show, Grown
<1>16. CASE ReadFails
  BY <1>16, Later DEF ReadFails, End, Go, Grown
<1>17. CASE Finish
  <2>1. got' = <<>> /\ DOMAIN got' = {} /\ step' = "idle"
    BY <1>17 DEF Finish
  <2> QED  BY <2>1 DEF AnswersInv, InTurn, AsResolved, AsSearched
<1>18. CASE UNCHANGED answersVars
  BY <1>18 DEF answersVars, AnswersInv, InTurn, AsResolved, AsSearched, NotAsked
<1> QED  BY <1>1, <1>2, <1>3, <1>4, <1>5, <1>6, <1>7, <1>8, <1>9, <1>10, <1>11, <1>12, <1>13, <1>14,
            <1>15, <1>16, <1>17, <1>18 DEF AnswersNext

\* ResolutionIgnoresOrder: the institution, year and course that a command resolved are
\* those of every other order of the same records (assist_resolution.go,
\* uniqueAssistMatch; advisor_course.go, resolveAdvisorCourse).
THEOREM NamesStandInAnyOrder == AnswersSpec => []ResolutionIgnoresOrder
<1>1. AnswersInv => ResolutionIgnoresOrder
  <2> SUFFICES ASSUME AnswersInv PROVE ResolutionIgnoresOrder
    OBVIOUS
  <2>1. ASSUME "course" \in DOMAIN got, CourseRecords(got.search) # Missing
        PROVE  /\ got.course = CourseAmong(CourseRecords(got.search).arr, ask.course)
               /\ Range(CourseRecords(got.search).arr) \subseteq DOMAIN Texts
    BY <2>1, TextsAssumption DEF AnswersInv, AsSearched, ResolveAdvisorCourse
  <2> QED  BY <2>1, InstitutionsInAnyOrder, YearsInAnyOrder, CoursesInAnyOrder
           DEF AnswersInv, AsResolved, ResolutionIgnoresOrder
<1> QED  BY <1>1, InitInTurn, StepsInTurn, PTL DEF AnswersSpec
=============================================================================
