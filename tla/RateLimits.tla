----------------------------- MODULE RateLimits ------------------------------
(***************************************************************************)
(* The settings of the adaptive limiter (internal/cliutil/ratelimit.go), for *)
(* the limiter itself and for the client that is built with them.            *)
(* Rates are integers of a unit of Unit to a request per second.             *)
(***************************************************************************)
EXTENDS Integers

CONSTANTS
  Unit,       \* how many units a request per second is
  StartRate,  \* rate of a new limiter
  MaxRate,    \* the user's --rate-limit; 0 for none
  FloorRate,  \* half a request per second
  RampAfter,  \* successes in a row before a ramp
  Budgets     \* what the rate-limit headers of a response may say

ASSUME RateLimiterAssumption ==
  /\ Unit \in Nat \ {0} /\ StartRate \in Nat \ {0} /\ FloorRate \in Nat \ {0}
  /\ MaxRate \in {0, StartRate}   \* newAdaptiveLimiter(rate, 0) or (rate, rate)
  /\ RampAfter \in Nat \ {0}
  /\ Budgets \subseteq [remaining : Int, secs : Int]
=============================================================================
