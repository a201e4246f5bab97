--------------------------- MODULE MCLearnJournal ---------------------------
(***************************************************************************)
(* The journal of two processes of two shells over three days, with segments *)
(* kept for a day and within five tokens.                                   *)
(***************************************************************************)
EXTENDS LearnJournal, TLC

CONSTANTS one, two, shell, other

MCProcs    == {one, two}
MCSessions == {shell, other}

InShell(kinds) == [i \in DOMAIN kinds |-> <<shell, kinds[i]>>]

\* A correction after a recall, around a recall, after a second failure, with
\* another invocation of the session or of another one in between.
MCScripts ==
  {InShell(<<"recall", "fail", "fixed">>), InShell(<<"fail", "recall", "fixed">>),
   InShell(<<"fail", "plain", "fixed">>), InShell(<<"fail", "fail", "fixed">>),
   <<<<shell, "fail">>, <<other, "plain">>, <<shell, "fixed">>>>}

Symmetric == Permutations(MCProcs)
=============================================================================
