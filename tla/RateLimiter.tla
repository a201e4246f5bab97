----------------------------- MODULE RateLimiter -----------------------------
(***************************************************************************)
(* The adaptive limiter, internal/cliutil/ratelimit.go: the rate it paces    *)
(* requests to, under any interleaving of the calls that workers make.  Each *)
(* method holds the limiter's mutex, so a call is one step.  Wait, which      *)
(* sleeps by the rate, changes none of the state below.                     *)
(***************************************************************************)
EXTENDS RateLimits

VARIABLE lim

Lesser(a, b) == IF a < b THEN a ELSE b
Greater(a, b) == IF a < b THEN b ELSE a

Floor == Lesser(FloorRate, StartRate)

LimiterOK == lim \in [rate : Nat, ceiling : Nat, budgetRate : Nat, successes : Nat, headerDriven : BOOLEAN]

Init == lim = [rate |-> StartRate, ceiling |-> 0, budgetRate |-> 0, successes |-> 0,
               headerDriven |-> FALSE]

\* The politeness ceiling, then the floor.
Clamp(rate) == Greater(IF MaxRate > 0 THEN Lesser(rate, MaxRate) ELSE rate, Floor)

\* ObserveHeaders: pace at the best refill rate seen, or spend what remains over
\* two seconds when it cannot cover two seconds at that rate.
Refill(b) == Greater(lim.budgetRate, (b.remaining * Unit) \div b.secs)
Braked(b) == IF b.remaining * Unit < Refill(b) * 2 THEN (b.remaining * Unit) \div 2 ELSE Refill(b)

ObserveHeaders(b) ==
  /\ b.secs > 0 /\ b.remaining >= 0
  /\ lim' = [lim EXCEPT !.budgetRate = Refill(b), !.rate = Clamp(Braked(b)),
                        !.headerDriven = TRUE, !.successes = 0]

\* The blind ramp stays below nine tenths of the rate last refused.
Ramp == LET up == (lim.rate * 5) \div 4 IN
        IF lim.ceiling > 0 THEN Lesser(up, (lim.ceiling * 9) \div 10) ELSE up

\* Mutant: the blind ramp goes on after headers were seen.
OnSuccessBlind ==
  lim' = IF lim.successes + 1 < RampAfter THEN [lim EXCEPT !.successes = @ + 1]
         ELSE [lim EXCEPT !.rate = Clamp(Ramp), !.successes = 0]

OnSuccess ==
  lim' = IF lim.headerDriven THEN [lim EXCEPT !.successes = 0]
         ELSE IF lim.successes + 1 < RampAfter THEN [lim EXCEPT !.successes = @ + 1]
         ELSE [lim EXCEPT !.rate = Clamp(Ramp), !.successes = 0]

OnRateLimit ==
  lim' = [lim EXCEPT !.ceiling = lim.rate, !.rate = Greater(lim.rate \div 2, Floor),
                     !.budgetRate = IF lim.headerDriven THEN @ ELSE @ \div 2, !.successes = 0]

Next == (\E b \in Budgets : ObserveHeaders(b)) \/ OnSuccess \/ OnRateLimit

Spec == Init /\ [][Next]_lim

-----------------------------------------------------------------------------
\* Whatever the server advertises, and however successes and refusals of
\* concurrent requests interleave, the pace stays between the floor and the
\* user's --rate-limit: no series of calls stalls the client or takes it past
\* the rate it was asked to be polite at.
RateBounded == Floor <= lim.rate /\ (MaxRate > 0 => lim.rate <= MaxRate)

\* The pace never exceeds what the limiter has learnt, however the calls of the
\* workers interleave: once an answer has carried headers, the best refill rate
\* any of them has shown, although other answers carry none, successes come in
\* and refusals halve the rate; until then, nine tenths of the rate that was last
\* refused.  Only the floor goes before it.
PaceJustified ==
  /\ RateBounded
  /\ lim.headerDriven => lim.rate <= Greater(lim.budgetRate, Floor)
  /\ ~lim.headerDriven /\ lim.ceiling > 0 => lim.rate <= Greater((lim.ceiling * 9) \div 10, Floor)
=============================================================================
