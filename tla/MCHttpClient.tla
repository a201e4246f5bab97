---------------------------- MODULE MCHttpClient ----------------------------
(***************************************************************************)
(* Two workers, two calls and one retry; a limiter of one request a second,   *)
(* counted in eighths, whose server advertises no budget, an exhausted one,   *)
(* one past the cap or one between the floor and the cap.                     *)
(***************************************************************************)
EXTENDS HttpClient

CONSTANTS one, two

MCWorkers == {one, two}
MCBudgets == {[remaining |-> 0, secs |-> 2], [remaining |-> 40, secs |-> 5],
              [remaining |-> 3, secs |-> 4]}
=============================================================================
