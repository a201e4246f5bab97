----------------------------- MODULE LearnStore -----------------------------
(***************************************************************************)
(* Candidates and playbooks of the learn loop: internal/store/candidates.go *)
(* and playbooks.go, and the commands that use them, teach, learnings       *)
(* confirm, reject and purge, playbook amend, teach-playbook, recall, the    *)
(* synthesis of a playbook from a session (internal/learn/synthesize.go),    *)
(* the promotion of a candidate by a teach, and the seeding of embedded      *)
(* playbooks on start (internal/cli/playbook_init.go).                       *)
(*                                                                         *)
(* Everything concerns one query family.  Each store call is one SQLite      *)
(* transaction (writeMu and BEGIN); a command makes several of them, so      *)
(* what it read may be stale when it writes.  A command may fail or be       *)
(* killed before any of its calls.                                          *)
(***************************************************************************)
EXTENDS Naturals, FiniteSets, FiniteSetsExt

CONSTANTS
  Procs,     \* processes
  Jobs,      \* the commands a user may run (see JobRecord)
  MaxSteps,  \* bound: steps of a synthesized playbook
  MaxJobs    \* bound: commands run

\* The two derivation signatures about the family: a flag correction, and the
\* playbook a session went through.
Sigs  == {"alias", "play"}
\* The key of the family, and the key an older version stored it under.
Keys  == {"family", "raw"}
\* Contents of playbook_json: none, synthesized with so many steps, written by
\* an agent, seeded by one of two versions of the program.
Agent   == MaxSteps + 1
Seed(v) == MaxSteps + 1 + v
Jsons   == 0..MaxSteps + 3
Versions == {1, 2}
\* Contents of notes_text: amendments ([amend ...] markers) and other text.
Amendments == {"amend", "alias"}
SeedNote(v) == IF v = 1 THEN "seed1" ELSE "seed2"
Notes == Amendments \cup {"user", "auto", "seed1", "seed2"}

NoRow  == [json |-> 0, notes |-> {}, there |-> FALSE]
Row    == [json : Jsons, notes : SUBSET Notes, there : BOOLEAN]
Statuses == {"none", "open", "confirmed", "rejected", "expired"}
\* id: of the row, 0 when there is none; steps: of the payload; fresh: seen within
\* DefaultCandidateTTL; anchored: the row names its query family.
Candidate == [id : Nat, status : Statuses, sightings : Nat, steps : 0..MaxSteps,
              fresh : BOOLEAN, anchored : BOOLEAN]
NoCandidate == [id |-> 0, status |-> "none", sightings |-> 0, steps |-> 0,
                fresh |-> FALSE, anchored |-> FALSE]

\* json, notes: what teach and teach-playbook bring; steps: the length of the
\* session's episode in the journal, 0 for none; sig: the candidate confirmed,
\* rejected or observed; anchored: an alias was observed after a recall, or its
\* confirming session has recalled; version: of the program that seeds.
JobRecord == [op : {"observe", "teach", "playbook", "amend", "confirm", "reject",
                    "purge", "seed", "recall"},
              json : {0, Agent}, notes : SUBSET {"user"}, steps : 0..MaxSteps,
              sig : Sigs, flag : BOOLEAN, version : Versions]

ASSUME LearnStoreAssumption ==
  /\ MaxSteps \in Nat \ {0} /\ MaxJobs \in Nat
  /\ Jobs \subseteq JobRecord /\ Jobs # {}
  /\ \A j \in Jobs : j.op = "playbook" => j.json # 0 \/ j.notes # {}

VARIABLES
  cand,      \* learn_candidates, by signature
  book,      \* learning_playbooks, by key
  sentinel,  \* the seed version the sentinel row records; 0 for none
  proc,      \* the commands that are running
  jobs       \* counter for the bound

vars == <<cand, book, sentinel, proc, jobs>>

Stages == {"idle", "observe", "upsert", "list", "check", "promote", "gate", "derive",
           "stored", "refresh", "get", "settle", "expire", "purge", "sentinel", "read", "seed",
           "mark", "lookup", "rekey"}

\* row: the candidate as it was read; exists: a playbook was found; notes: the
\* notes that were read.
Process == [pc : Stages, job : Jobs, row : Candidate, exists : BOOLEAN, notes : SUBSET Notes]

TypeOK ==
  /\ cand \in [Sigs -> Candidate] /\ \A s \in Sigs : cand[s].status = "none" => cand[s] = NoCandidate
  /\ book \in [Keys -> Row] /\ \A k \in Keys : ~book[k].there => book[k] = NoRow
  /\ sentinel \in {0} \cup Versions
  /\ proc \in [Procs -> Process]
  /\ jobs \in 0..MaxJobs

Idle == [pc |-> "idle", job |-> CHOOSE j \in Jobs : TRUE, row |-> NoCandidate,
         exists |-> FALSE, notes |-> {}]

\* A fresh install, an amended row under the older key, or version 1 seeded.
Init ==
  /\ cand = [s \in Sigs |-> NoCandidate]
  /\ \/ book = [k \in Keys |-> NoRow] /\ sentinel = 0
     \/ book = [family |-> NoRow, raw |-> [json |-> Agent, notes |-> {"amend"}, there |-> TRUE]]
        /\ sentinel = 0
     \/ book = [family |-> [json |-> Seed(1), notes |-> {"seed1"}, there |-> TRUE], raw |-> NoRow]
        /\ sentinel = 1
  /\ proc = [p \in Procs |-> Idle]
  /\ jobs = 0

-----------------------------------------------------------------------------
At(p, stage) == proc[p].pc = stage
Job(p) == proc[p].job
Goto(p, stage) == proc' = [proc EXCEPT ![p] = IF stage = "idle" THEN Idle ELSE [@ EXCEPT !.pc = stage]]

\* upsertPlaybookTx: empty values leave a column alone.
UpsertPlaybook(json, notes, preserve) ==
  book' = [book EXCEPT !.family =
    [json  |-> IF json = 0 THEN @.json ELSE json,
     notes |-> IF notes = {} \/ (preserve /\ @.notes # {}) THEN @.notes ELSE notes,
     there |-> TRUE]]

\* appendPlaybookNotesTx
AppendPlaybookNotes(note) ==
  book' = [book EXCEPT !.family = [json |-> @.json, notes |-> @.notes \cup {note}, there |-> TRUE]]

\* INTEGER PRIMARY KEY: the largest id in use and one, so that the id of a
\* purged row may come back.
NewId == 1 + Max({cand[s].id : s \in Sigs})

Inserted(steps, anchored) ==
  [id |-> NewId, status |-> "open", sightings |-> 1, steps |-> steps, fresh |-> TRUE,
   anchored |-> anchored]

Seen(row) == [row EXCEPT !.sightings = @ + 1, !.fresh = TRUE,
                         !.status = IF @ = "expired" THEN "open" ELSE @]

\* Mutant: an expired row stays expired when it is seen again.
DeriveCandidateNoReopen(s, steps, anchored) ==
  cand' = IF cand[s].status = "rejected" THEN cand
          ELSE [cand EXCEPT ![s] = IF @.status = "none" THEN Inserted(steps, anchored)
                                   ELSE [@ EXCEPT !.sightings = @ + 1, !.fresh = TRUE]]

\* DeriveCandidate: one upsert.  A rejected row is left as it is.
DeriveCandidate(s, steps, anchored) ==
  cand' = IF cand[s].status = "rejected" THEN cand
          ELSE [cand EXCEPT ![s] = IF @.status = "none" THEN Inserted(steps, anchored) ELSE Seen(@)]

\* The candidates that an id names now: one or none.
Named(id) == {s \in Sigs : cand[s].id = id /\ id # 0}

SetStatus(s, status) == cand' = [cand EXCEPT ![s].status = status]

-----------------------------------------------------------------------------
FirstStage(j) ==
  CASE j.op = "observe" -> "observe"
    [] j.op = "teach" -> IF j.json = 0 /\ j.notes = {} THEN "list" ELSE "upsert"
    [] j.op \in {"playbook", "amend"} -> "upsert"
    [] j.op \in {"confirm", "reject"} -> "get"
    [] j.op = "purge" -> "expire"
    [] j.op = "seed" -> "sentinel"
    [] j.op = "recall" -> "lookup"

Start(p, j) ==
  /\ At(p, "idle") /\ jobs < MaxJobs /\ jobs' = jobs + 1
  /\ proc' = [proc EXCEPT ![p] = [Idle EXCEPT !.pc = FirstStage(j), !.job = j]]
  /\ UNCHANGED <<cand, book, sentinel>>

\* A pass over the journal saw the flag corrected.
Observe(p) ==
  /\ At(p, "observe") /\ Goto(p, "idle")
  /\ DeriveCandidate("alias", 0, Job(p).flag)
  /\ UNCHANGED <<book, sentinel, jobs>>

\* teach with a playbook or notes (it goes on to the promotion), teach-playbook,
\* playbook amend.
Upsert(p) ==
  /\ At(p, "upsert")
  /\ Goto(p, IF Job(p).op = "teach" THEN "list" ELSE "idle")
  /\ IF Job(p).op = "amend" THEN AppendPlaybookNotes("amend")
     ELSE UpsertPlaybook(Job(p).json, Job(p).notes, FALSE)
  /\ UNCHANGED <<cand, sentinel, jobs>>

\* promoteCandidateOnTeach: the open playbook candidates of the family.
List(p) ==
  /\ At(p, "list")
  /\ proc' = [proc EXCEPT ![p].row = cand["play"],
                          ![p].pc = IF cand["play"].status = "open" THEN "check" ELSE "gate"]
  /\ UNCHANGED <<cand, book, sentinel, jobs>>

\* GetPlaybookByFamily, for the promotion and for the gate of the synthesis.
Check(p) ==
  /\ At(p, "check")
  /\ proc' = [proc EXCEPT ![p].exists = book.family.there, ![p].pc = "promote"]
  /\ UNCHANGED <<cand, book, sentinel, jobs>>

\* Mutant: an open candidate was read before the transaction.
ConfirmableAsRead(row, s) == s \in Named(row.id)

\* getOpenCandidateForConfirmTx, inside the transaction: the id of the row read
\* earlier as row names s, which is open.
Confirmable(row, s) == s \in Named(row.id) /\ cand[s].status = "open"

\* Whether a synthesized payload carries notes, the corrections its session
\* made: here the payloads of more than one step do.
AutoNotes(row) == IF row.steps = 1 THEN {} ELSE {"auto"}

\* confirmAndMaterializeCandidate for a playbook candidate whose payload was
\* read as row: playbook and status in one transaction.
Materialize(row) ==
  /\ UpsertPlaybook(row.steps, AutoNotes(row), FALSE)
  /\ SetStatus("play", "confirmed")

\* Promotion: materialize when no playbook was found, which looks at the class of
\* the row; else ConfirmCandidate, which confirms whatever the id names by now.
Promote(p) ==
  /\ At(p, "promote") /\ Goto(p, "gate")
  /\ \/ ~proc[p].exists /\ Confirmable(proc[p].row, "play") /\ Materialize(proc[p].row)
     \/ \E s \in Sigs : proc[p].exists /\ Confirmable(proc[p].row, s) /\ SetStatus(s, "confirmed") /\ UNCHANGED book
     \/ /\ ~\E s \in Sigs : (proc[p].exists \/ s = "play") /\ Confirmable(proc[p].row, s)
        /\ UNCHANGED <<cand, book>>
  /\ UNCHANGED <<sentinel, jobs>>

\* Where teach only logs a failing store call and goes on: the playbook beside
\* the learning, and the promotion.
LogAndGoOn(p) ==
  /\ \/ At(p, "upsert") /\ Job(p).op = "teach" /\ Goto(p, "list")
     \/ proc[p].pc \in {"list", "check", "promote"} /\ Goto(p, "gate")
  /\ UNCHANGED <<cand, book, sentinel, jobs>>

\* SynthesizePlaybookCandidate: nothing to do when the family has a playbook or
\* the session no episode.
Gate(p) ==
  /\ At(p, "gate")
  /\ Goto(p, IF book.family.there \/ Job(p).steps = 0 THEN "idle" ELSE "derive")
  /\ UNCHANGED <<cand, book, sentinel, jobs>>

\* The candidate of the episode: the upsert of DeriveCandidate, and the SELECT
\* that reads the row back.
Synthesize(p) ==
  /\ At(p, "derive") /\ Goto(p, "stored")
  /\ DeriveCandidate("play", Job(p).steps, TRUE)
  /\ UNCHANGED <<book, sentinel, jobs>>

Shorter(row, steps) == steps < row.steps

\* A tombstone, a row just inserted and a payload as short need no refresh.
ReadBack(p) ==
  /\ At(p, "stored")
  /\ LET row == cand["play"] IN
     proc' = [proc EXCEPT ![p] =
                IF row.status \in {"none", "rejected"} \/ row.sightings = 1 \/ ~Shorter(row, Job(p).steps)
                THEN Idle ELSE [@ EXCEPT !.pc = "refresh", !.row = row]]
  /\ UNCHANGED <<cand, book, sentinel, jobs>>

\* refreshShorterSynthesis: an UPDATE by id, guarded by the status.
Refresh(p) ==
  /\ At(p, "refresh") /\ Goto(p, "idle")
  /\ cand' = [s \in Sigs |-> IF s \in Named(proc[p].row.id) /\ cand[s].status = "open"
                             THEN [cand[s] EXCEPT !.steps = Job(p).steps] ELSE cand[s]]
  /\ UNCHANGED <<book, sentinel, jobs>>

-----------------------------------------------------------------------------
\* learnings confirm and reject: GetCandidate; confirm wants an open row, and
\* for a flag correction a family, its own or the session's.
Get(p) ==
  /\ At(p, "get")
  /\ LET row == cand[Job(p).sig]
         anchored == Job(p).sig = "play" \/ row.anchored \/ Job(p).flag
         found == IF Job(p).op = "confirm" THEN row.status = "open" /\ anchored
                  ELSE row.status # "none" IN
     proc' = [proc EXCEPT ![p] = IF found THEN [@ EXCEPT !.pc = "settle", !.row = row] ELSE Idle]
  /\ UNCHANGED <<cand, book, sentinel, jobs>>

\* Mutant: the note is not written.
ConfirmWithoutNote(p) ==
  /\ At(p, "settle") /\ Job(p).op = "confirm" /\ Goto(p, "idle")
  /\ IF Confirmable(proc[p].row, Job(p).sig) THEN SetStatus(Job(p).sig, "confirmed") ELSE UNCHANGED cand
  /\ UNCHANGED <<book, sentinel, jobs>>

\* Materialized from the payload that was printed.
Confirm(p) ==
  /\ At(p, "settle") /\ Job(p).op = "confirm" /\ Goto(p, "idle")
  /\ IF ~Confirmable(proc[p].row, Job(p).sig) THEN UNCHANGED <<cand, book>>
     ELSE IF Job(p).sig = "play" THEN Materialize(proc[p].row)
     ELSE AppendPlaybookNotes("alias") /\ SetStatus("alias", "confirmed")
  /\ UNCHANGED <<sentinel, jobs>>

\* RejectCandidate: not twice, and not a confirmed flag correction.
Rejectable(s) == cand[s].status # "rejected" /\ ~(s = "alias" /\ cand[s].status = "confirmed")

Reject(p) ==
  /\ At(p, "settle") /\ Job(p).op = "reject" /\ Goto(p, "idle")
  /\ cand' = [s \in Sigs |-> IF s \in Named(proc[p].row.id) /\ Rejectable(s)
                             THEN [cand[s] EXCEPT !.status = "rejected"] ELSE cand[s]]
  /\ UNCHANGED <<book, sentinel, jobs>>

\* learnings purge: ExpireCandidates, then PurgeCandidates.
Expire(p) ==
  /\ At(p, "expire") /\ Goto(p, "purge")
  /\ cand' = [s \in Sigs |-> IF cand[s].status = "open" /\ ~cand[s].fresh
                             THEN [cand[s] EXCEPT !.status = "expired"] ELSE cand[s]]
  /\ UNCHANGED <<book, sentinel, jobs>>

Purge(p) ==
  /\ At(p, "purge") /\ Goto(p, "idle")
  /\ LET settled == {"expired", "confirmed"} \cup IF Job(p).flag THEN {"rejected"} ELSE {} IN
     cand' = [s \in Sigs |-> IF cand[s].status \in settled THEN NoCandidate ELSE cand[s]]
  /\ UNCHANGED <<book, sentinel, jobs>>

\* DefaultCandidateTTL passes without a sighting.
Unseen(s) ==
  /\ cand[s].status # "none" /\ cand[s].fresh
  /\ cand' = [cand EXCEPT ![s].fresh = FALSE]
  /\ UNCHANGED <<book, sentinel, proc, jobs>>

-----------------------------------------------------------------------------
\* installPlaybooksFromEmbed: the sentinel of this version ends it at once, unless
\* it cannot be read.
SeedStart(p) ==
  /\ At(p, "sentinel")
  /\ Goto(p, "read") \/ (sentinel = Job(p).version /\ Goto(p, "idle"))
  /\ UNCHANGED <<cand, book, sentinel, jobs>>

\* The stored notes, for the amendment marker; a row that cannot be read counts as
\* one that has none.
SeedRead(p) ==
  /\ At(p, "read")
  /\ \E notes \in {book.family.notes, {}} :
       proc' = [proc EXCEPT ![p].pc = "seed", ![p].notes = notes]
  /\ UNCHANGED <<cand, book, sentinel, jobs>>

PreservedNever(notes) == FALSE   \* mutant: the marker is not looked for
Preserved(notes) == notes \cap Amendments # {}

\* Mutant: a failed upsert is not remembered.
SeedWriteFailureIgnored(p, ok) ==
  /\ At(p, "seed") /\ Goto(p, "mark")
  /\ IF ok THEN UpsertPlaybook(Seed(Job(p).version), {SeedNote(Job(p).version)}, Preserved(proc[p].notes))
     ELSE UNCHANGED book
  /\ UNCHANGED <<cand, sentinel, jobs>>

\* A failed upsert leaves the sentinel for the next start.
SeedWrite(p, ok) ==
  /\ At(p, "seed") /\ Goto(p, IF ok THEN "mark" ELSE "idle")
  /\ IF ok THEN UpsertPlaybook(Seed(Job(p).version), {SeedNote(Job(p).version)}, Preserved(proc[p].notes))
     ELSE UNCHANGED book
  /\ UNCHANGED <<cand, sentinel, jobs>>

SeedMark(p) ==
  /\ At(p, "mark") /\ Goto(p, "idle")
  /\ sentinel' = Job(p).version
  /\ UNCHANGED <<cand, book, jobs>>

\* recall, LookupPlaybookByFamily: the exact key, else a row under an older key.
Lookup(p) ==
  /\ At(p, "lookup")
  /\ Goto(p, IF ~book.family.there /\ book.raw.there THEN "rekey" ELSE "idle")
  /\ UNCHANGED <<cand, book, sentinel, jobs>>

\* The UPDATE of the key; the UNIQUE constraint fails it when the key is taken.
Rekey(p) ==
  /\ At(p, "rekey") /\ Goto(p, "idle")
  /\ book' = IF book.family.there \/ ~book.raw.there THEN book
             ELSE [family |-> book.raw, raw |-> NoRow]
  /\ UNCHANGED <<cand, sentinel, jobs>>

\* The process is killed, or the store call fails and the command gives up.
Stop(p) == ~At(p, "idle") /\ Goto(p, "idle") /\ UNCHANGED <<cand, book, sentinel, jobs>>

Next ==
  \/ \E s \in Sigs : Unseen(s)
  \/ \E p \in Procs :
       \/ \E j \in Jobs : Start(p, j)
       \/ Observe(p) \/ Upsert(p) \/ List(p) \/ Check(p) \/ Promote(p)
       \/ LogAndGoOn(p) \/ Gate(p) \/ Synthesize(p) \/ ReadBack(p) \/ Refresh(p) \/ Get(p) \/ Confirm(p) \/ Reject(p)
       \/ Expire(p) \/ Purge(p) \/ SeedStart(p) \/ SeedRead(p)
       \/ \E ok \in BOOLEAN : SeedWrite(p, ok)
       \/ SeedMark(p) \/ Lookup(p) \/ Rekey(p) \/ Stop(p)

Spec == Init /\ [][Next]_vars

-----------------------------------------------------------------------------
\* A rejected signature stays rejected, with its sightings, until a purge of the
\* tombstones: no confirm, promotion or sighting that raced with the rejection
\* revives it.
TombstonesStay ==
  [][\A s \in Sigs : cand[s].status = "rejected" =>
       \/ cand'[s].status = "rejected" /\ cand'[s].sightings = cand[s].sightings
       \/ cand'[s] = NoCandidate /\ \E p \in Procs : At(p, "purge") /\ Job(p).flag]_vars

\* A candidate becomes confirmed only together with its artifact: the playbook of
\* the family, though found some calls before, and for a flag correction its note
\* in it.  No crash, failed call or race of confirm, promotion, purge and teach
\* confirms without, but one: a promotion whose candidate was purged, and whose id
\* names a flag correction by now, confirms that one without a note.
ConfirmedHasArtifact ==
  [][\A s \in Sigs : cand[s].status # "confirmed" /\ cand'[s].status = "confirmed" =>
       /\ book'.family.there
       /\ \/ s = "play" \/ "alias" \in book'.family.notes
          \/ \E p \in Procs : /\ At(p, "promote") /\ proc[p].exists
                              /\ proc[p].row.id = cand[s].id /\ cand["play"].id # cand[s].id]_vars

\* A purge deletes no candidate nobody judged and that was seen within the TTL,
\* however it and the sighting interleave.
FreshSurvivesPurge ==
  [][\A s \in Sigs : cand[s].status # "none" /\ cand'[s].status = "none" =>
       cand[s].status \in {"confirmed", "rejected"} \/ ~cand[s].fresh]_vars

\* An amendment leaves the row of the family only for notes that a user or a
\* candidate supplies, or for a seeding that saw none, because it read before the
\* first was made or could not read: one that saw an amendment takes none away,
\* neither that nor those made since.
MarksKept ==
  [][\A m \in Amendments : m \in book.family.notes /\ m \notin book'.family.notes =>
       \/ book'.family.notes \in {{"user"}, {"auto"}}
       \/ \E p \in Procs : At(p, "seed") /\ proc[p].notes \cap Amendments = {}]_vars

\* Once a seed version is recorded the family has a playbook, whatever failed or
\* was killed on the way: the sentinel locks out no retry.
SeedComplete == sentinel # 0 => book.family.json # 0
=============================================================================
