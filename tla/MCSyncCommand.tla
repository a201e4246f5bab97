---------------------------- MODULE MCSyncCommand ----------------------------
(***************************************************************************)
(* One process runs sync --full, or a preview of it that names one resource  *)
(* twice; the other a command that reads, and refreshes.                     *)
(***************************************************************************)
EXTENDS SyncCommand, TLC

CONSTANTS one, two, left, right, years, terms

MCProcs == {one, two}
MCWorkers == {left, right}
MCResources == {years, terms}

Line == [kind |-> "sync", resources |-> <<years, terms>>, full |-> FALSE, strict |-> FALSE, dry |-> FALSE]
MCJobs ==
  one :> {[Line EXCEPT !.full = TRUE],
          [Line EXCEPT !.resources = <<years, years, terms>>, !.full = TRUE, !.strict = TRUE, !.dry = TRUE]}
  @@ two :> {[Line EXCEPT !.kind = "read", !.resources = <<years>>]}
=============================================================================
