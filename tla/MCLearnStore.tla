---------------------------- MODULE MCLearnStore ----------------------------
(***************************************************************************)
(* Two processes and five commands about one family.                       *)
(***************************************************************************)
EXTENDS LearnStore, TLC

CONSTANTS one, two

MCProcs == {one, two}

Command(op) == [op |-> op, json |-> 0, notes |-> {}, steps |-> 0, sig |-> "play",
                flag |-> FALSE, version |-> 1]

\* Every command, confirm after a recall and without one, teach with a playbook, without and after episodes of either
\* length, and purge with and without the tombstones.
MCJobs ==
  {Command("amend"), Command("recall"), Command("observe"), Command("purge"),
   [Command("purge") EXCEPT !.flag = TRUE],
   [Command("teach") EXCEPT !.json = Agent], [Command("teach") EXCEPT !.steps = 1],
   [Command("teach") EXCEPT !.steps = 2], [Command("playbook") EXCEPT !.notes = {"user"}],
   [Command("confirm") EXCEPT !.sig = "alias"], [Command("seed") EXCEPT !.version = 2]}
  \cup {[Command(op) EXCEPT !.sig = s, !.flag = TRUE] : op \in {"confirm", "reject"}, s \in Sigs}

Symmetric == Permutations(MCProcs)
=============================================================================
