-------------------------- MODULE LearnStoreProofs --------------------------
(***************************************************************************)
(* LearnStore for any processes, commands and lengths: its types, what a     *)
(* candidate that is confirmed and the sentinel of the seeding have behind   *)
(* them, and what no step may do to a rejection, a fresh candidate or an     *)
(* amendment.                                                              *)
(*                                                                         *)
(* A command decides on what it read some calls ago.  Four facts carry what  *)
(* it read to where it is used: a playbook that was found is still there     *)
(* (Found), a seeding about to write the sentinel has written its playbook   *)
(* (Marked), an expired candidate has not been seen since (Expired), and an  *)
(* id names one candidate at a time (IdsApart).                             *)
(***************************************************************************)
EXTENDS LearnStore, TLAPS

Found   == \A p \in Procs : proc[p].exists => book.family.there
Marked  == \A p \in Procs : At(p, "mark") => book.family.json # 0
Expired == \A s \in Sigs : cand[s].status = "expired" => ~cand[s].fresh
IdsApart == \A s, r \in Sigs : s # r => cand[s].id # cand[r].id \/ cand[s].id = 0

Inv == TypeOK /\ Found /\ Marked /\ Expired /\ IdsApart /\ SeedComplete

\* The four action properties, as actions.
ArtifactStep ==
  \A s \in Sigs : cand[s].status # "confirmed" /\ cand'[s].status = "confirmed" =>
    /\ book'.family.there
    /\ \/ s = "play" \/ "alias" \in book'.family.notes
       \/ \E p \in Procs : /\ At(p, "promote") /\ proc[p].exists
                           /\ proc[p].row.id = cand[s].id /\ cand["play"].id # cand[s].id
TombstonesStep ==
  \A s \in Sigs : cand[s].status = "rejected" =>
    \/ cand'[s].status = "rejected" /\ cand'[s].sightings = cand[s].sightings
    \/ cand'[s] = NoCandidate /\ \E p \in Procs : At(p, "purge") /\ Job(p).flag
PurgeStep ==
  \A s \in Sigs : cand[s].status # "none" /\ cand'[s].status = "none" =>
    cand[s].status \in {"confirmed", "rejected"} \/ ~cand[s].fresh
MarksStep ==
  \A m \in Amendments : m \in book.family.notes /\ m \notin book'.family.notes =>
    \/ book'.family.notes \in {{"user"}, {"auto"}}
    \/ \E p \in Procs : At(p, "seed") /\ proc[p].notes \cap Amendments = {}

\* What every action has to show.
Kept == Inv' /\ ArtifactStep /\ TombstonesStep /\ PurgeStep /\ MarksStep

-----------------------------------------------------------------------------
\* The values that the operators write.
LEMMA JsonsTyped ==
  /\ 0..MaxSteps \subseteq Jsons /\ 0 \in 0..MaxSteps /\ Agent \in Jsons /\ Agent # 0
  /\ \A v \in Versions : Seed(v) \in Jsons /\ Seed(v) # 0
BY LearnStoreAssumption DEF Jsons, Agent, Seed, Versions

LEMMA JobTyped ==
  ASSUME NEW j \in Jobs
  PROVE  /\ j.json \in {0, Agent} /\ j.notes \in {{}, {"user"}} /\ j.steps \in 0..MaxSteps
         /\ j.sig \in Sigs /\ j.flag \in BOOLEAN /\ j.version \in Versions
<1>1. j \in JobRecord
  BY LearnStoreAssumption
<1> QED  BY <1>1 DEF JobRecord

LEMMA NoCandidateTyped == NoCandidate \in Candidate
BY JsonsTyped DEF NoCandidate, Candidate, Statuses

LEMMA SeenTyped ==
  ASSUME NEW row \in Candidate
  PROVE  /\ Seen(row) \in Candidate /\ Seen(row).id = row.id
         /\ Seen(row).status = IF row.status = "expired" THEN "open" ELSE row.status
<1> DEFINE status == IF row.status = "expired" THEN "open" ELSE row.status
           sightings == row.sightings + 1
<1>1. status \in Statuses /\ sightings \in Nat
  BY DEF Candidate, Statuses
<1>2. Seen(row) = [row EXCEPT !.sightings = sightings, !.fresh = TRUE, !.status = status]
  BY DEF Seen
<1> HIDE DEF status, sightings
<1>3. Seen(row) \in Candidate /\ Seen(row).status = status /\ Seen(row).id = row.id
  BY <1>1, <1>2 DEF Candidate
<1> QED  BY <1>3 DEF status

LEMMA IdleTyped ==
  Idle \in Process /\ Idle.pc = "idle" /\ Idle.exists = FALSE /\ Idle.job \in Jobs
<1>1. (CHOOSE j \in Jobs : TRUE) \in Jobs
  BY LearnStoreAssumption
<1> QED  BY <1>1, NoCandidateTyped DEF Idle, Process, Stages, Notes

LEMMA NewIdTyped ==
  ASSUME cand \in [Sigs -> Candidate]
  PROVE  NewId \in Nat /\ \A s \in Sigs : NewId > cand[s].id
<1> DEFINE ids == {cand[s].id : s \in Sigs}
           a == cand["alias"].id
           b == cand["play"].id
<1>1. a \in Nat /\ b \in Nat /\ ids = {a, b}
  BY DEF Sigs, Candidate
<1> HIDE DEF ids, a, b
<1>2. \E x \in ids : \A y \in ids : x >= y
  <2>1. CASE a >= b
    BY <1>1, <2>1
  <2>2. CASE b >= a
    BY <1>1, <2>2
  <2> QED  BY <1>1, <2>1, <2>2
<1>3. Max(ids) \in ids /\ \A y \in ids : Max(ids) >= y
  BY <1>2 DEF Max
<1>4. Max(ids) \in Nat
  BY <1>1, <1>3
<1>5. \A s \in Sigs : cand[s].id \in ids
  BY DEF ids
<1>6. \A s \in Sigs : Max(ids) >= cand[s].id /\ cand[s].id \in Nat
  BY <1>3, <1>5 DEF Candidate
<1> QED  BY <1>4, <1>6 DEF NewId, ids

-----------------------------------------------------------------------------
\* Going on leaves every process typed; it finds no playbook and reaches no mark
\* but the one gone to.
LEMMA GotoKeeps ==
  ASSUME Inv, NEW p \in Procs, NEW stage \in Stages, Goto(p, stage)
  PROVE  /\ proc' \in [Procs -> Process]
         /\ \A q \in Procs : proc'[q].exists => proc[q].exists
         /\ \A q \in Procs : proc'[q].pc = "mark" => At(q, "mark") \/ (q = p /\ stage = "mark")
<1> DEFINE m == IF stage = "idle" THEN Idle ELSE [proc[p] EXCEPT !.pc = stage]
<1>1. proc \in [Procs -> Process] /\ proc[p] \in Process
  BY DEF Inv, TypeOK
<1>2. m \in Process /\ (m.exists => proc[p].exists) /\ m.pc = stage
  BY <1>1, IdleTyped DEF Process
<1>3. proc' = [proc EXCEPT ![p] = m]
  BY DEF Goto
<1> HIDE DEF m
<1> QED  BY <1>1, <1>2, <1>3 DEF At

\* The same of a step that also keeps what it read.
LEMMA ReadKeeps ==
  ASSUME Inv, NEW p \in Procs, NEW m \in Process, proc' = [proc EXCEPT ![p] = m],
         m.exists => proc[p].exists \/ book.family.there, m.pc # "mark",
         UNCHANGED <<cand, book, sentinel, jobs>>
  PROVE  Kept
<1>1. proc' \in [Procs -> Process] /\ \A q \in Procs : proc'[q] = IF q = p THEN m ELSE proc[q]
  BY DEF Inv, TypeOK
<1>2. Found' /\ Marked'
  BY <1>1 DEF Inv, Found, Marked, At
<1>3. TypeOK' /\ Expired' /\ IdsApart' /\ SeedComplete'
  BY <1>1 DEF Inv, TypeOK, Expired, IdsApart, SeedComplete
<1>4. ArtifactStep /\ TombstonesStep /\ PurgeStep /\ MarksStep
  BY DEF ArtifactStep, TombstonesStep, PurgeStep, MarksStep
<1> QED  BY <1>2, <1>3, <1>4 DEF Kept, Inv

\* A step that changes candidates only, and reaches no mark.
LEMMA CandidatesKeep ==
  ASSUME Inv, NEW p \in Procs, NEW stage \in Stages \ {"mark"}, Goto(p, stage),
         UNCHANGED <<book, sentinel, jobs>>, cand' \in [Sigs -> Candidate],
         \A s \in Sigs : cand'[s].status = "none" => cand'[s] = NoCandidate,
         \A s \in Sigs : cand'[s].status = "confirmed" => cand[s].status = "confirmed",
         Expired', IdsApart', TombstonesStep, PurgeStep
  PROVE  Kept
<1>1. /\ proc' \in [Procs -> Process] /\ \A q \in Procs : proc'[q].exists => proc[q].exists
      /\ \A q \in Procs : proc'[q].pc = "mark" => At(q, "mark")
  BY GotoKeeps
<1>2. TypeOK'
  BY <1>1 DEF Inv, TypeOK
<1>3. Found' /\ Marked'
  BY <1>1 DEF Inv, Found, Marked, At
<1>4. SeedComplete'
  BY DEF Inv, SeedComplete
<1>5. MarksStep /\ ArtifactStep
  BY DEF MarksStep, ArtifactStep
<1> QED  BY <1>2, <1>3, <1>4, <1>5 DEF Kept, Inv

\* A step that changes the row of the family, and may confirm open candidates.
LEMMA BookKeeps ==
  ASSUME Inv, NEW p \in Procs, NEW stage \in Stages, Goto(p, stage),
         UNCHANGED <<sentinel, jobs>>, book' \in [Keys -> Row],
         \A k \in Keys : ~book'[k].there => book'[k] = NoRow,
         book.family.there => book'.family.there,
         book.family.json # 0 \/ stage = "mark" => book'.family.json # 0,
         MarksStep,
         \/ UNCHANGED cand
         \/ \E s \in Sigs : /\ cand[s].status = "open" /\ SetStatus(s, "confirmed")
                            /\ book'.family.there
                            /\ \/ s = "play" \/ "alias" \in book'.family.notes
                               \/ /\ At(p, "promote") /\ proc[p].exists /\ proc[p].row.id = cand[s].id
                                  /\ cand["play"].id # cand[s].id
  PROVE  Kept
<1>1. /\ proc' \in [Procs -> Process] /\ \A q \in Procs : proc'[q].exists => proc[q].exists
      /\ \A q \in Procs : proc'[q].pc = "mark" => At(q, "mark") \/ stage = "mark"
  BY GotoKeeps
<1>2. /\ cand' \in [Sigs -> Candidate]
      /\ \A s \in Sigs : \/ cand'[s] = cand[s]
                         \/ /\ cand[s].status = "open" /\ cand'[s].status = "confirmed"
                            /\ cand'[s].id = cand[s].id
                            /\ book'.family.there
                            /\ \/ s = "play" \/ "alias" \in book'.family.notes
                               \/ /\ At(p, "promote") /\ proc[p].exists /\ proc[p].row.id = cand[s].id
                                  /\ cand["play"].id # cand[s].id
  <2>1. CASE UNCHANGED cand
    BY <2>1 DEF Inv, TypeOK
  <2>2. CASE ~UNCHANGED cand
    <3>1. PICK s \in Sigs : /\ cand[s].status = "open" /\ SetStatus(s, "confirmed")
                            /\ book'.family.there
                            /\ \/ s = "play" \/ "alias" \in book'.family.notes
                               \/ /\ At(p, "promote") /\ proc[p].exists /\ proc[p].row.id = cand[s].id
                                  /\ cand["play"].id # cand[s].id
      BY <2>2
    <3>2. cand \in [Sigs -> Candidate] /\ cand' = [cand EXCEPT ![s] = [cand[s] EXCEPT !.status = "confirmed"]]
      BY <3>1 DEF Inv, TypeOK, SetStatus
    <3>3. [cand[s] EXCEPT !.status = "confirmed"] \in Candidate
      BY <3>2 DEF Candidate, Statuses
    <3> QED  BY <3>1, <3>2, <3>3 DEF Candidate
  <2> QED  BY <2>1, <2>2
<1>3. TypeOK'
  BY <1>1, <1>2 DEF Inv, TypeOK
<1>4. Found' /\ Marked'
  BY <1>1 DEF Inv, Found, Marked, At
<1>5. Expired' /\ IdsApart'
  <2>1. \A s \in Sigs : cand'[s].id = cand[s].id
    BY <1>2
  <2> QED  BY <1>2, <2>1 DEF Inv, Expired, IdsApart
<1>6. SeedComplete'
  BY DEF Inv, SeedComplete
<1>7. ArtifactStep /\ TombstonesStep /\ PurgeStep
  BY <1>2 DEF ArtifactStep, TombstonesStep, PurgeStep
<1> QED  BY <1>3, <1>4, <1>5, <1>6, <1>7 DEF Kept, Inv

-----------------------------------------------------------------------------
LEMMA InitInv == Init => Inv
<1> SUFFICES ASSUME Init PROVE Inv
  OBVIOUS
<1>1. cand \in [Sigs -> Candidate] /\ \A s \in Sigs : cand[s] = NoCandidate
  BY NoCandidateTyped DEF Init
<1>2. /\ book \in [Keys -> Row] /\ \A k \in Keys : ~book[k].there => book[k] = NoRow
      /\ sentinel \in {0} \cup Versions /\ (sentinel # 0 => book.family.json # 0)
  <2>1. Seed(1) \in Jsons /\ Seed(1) # 0 /\ 0 \in Jsons /\ Agent \in Jsons
    BY JsonsTyped DEF Versions
  <2>2. NoRow \in Row /\ ~NoRow.there
    BY <2>1 DEF NoRow, Row
  <2> DEFINE old  == [json |-> Agent, notes |-> {"amend"}, there |-> TRUE]
             seed == [json |-> Seed(1), notes |-> {"seed1"}, there |-> TRUE]
  <2>3. old \in Row /\ old.there /\ seed \in Row /\ seed.there /\ seed.json # 0
    BY <2>1 DEF Row, Notes, Amendments
  <2>4. CASE book = [k \in Keys |-> NoRow] /\ sentinel = 0
    BY <2>2, <2>4
  <2>5. CASE book = [family |-> NoRow, raw |-> old] /\ sentinel = 0
    <3> HIDE DEF old
    <3> QED  BY <2>2, <2>3, <2>5 DEF Keys
  <2>6. CASE book = [family |-> seed, raw |-> NoRow] /\ sentinel = 1
    <3> HIDE DEF seed
    <3> QED  BY <2>2, <2>3, <2>6 DEF Keys, Versions
  <2> QED  BY <2>4, <2>5, <2>6 DEF Init
<1>3. \A p \in Procs : proc[p] = Idle /\ proc[p] \in Process /\ ~proc[p].exists /\ ~At(p, "mark")
  BY IdleTyped DEF Init, At
<1>4. TypeOK
  BY <1>1, <1>2, <1>3, LearnStoreAssumption DEF Init, TypeOK
<1>5. Expired /\ IdsApart
  BY <1>1 DEF Expired, IdsApart, NoCandidate
<1> QED  BY <1>2, <1>3, <1>4, <1>5 DEF Inv, Found, Marked, SeedComplete

\* Nothing but a process and the counter of commands changes.
LEMMA StartKeeps ==
  ASSUME Inv, NEW p \in Procs, NEW j \in Jobs, Start(p, j)
  PROVE  Kept
<1> DEFINE m == [Idle EXCEPT !.pc = FirstStage(j), !.job = j]
<1>1. FirstStage(j) \in Stages \ {"mark"}
  BY LearnStoreAssumption DEF JobRecord, FirstStage, Stages
<1>2. m \in Process /\ m.exists = FALSE /\ m.pc # "mark"
  BY <1>1, IdleTyped DEF Process
<1>3. proc' = [proc EXCEPT ![p] = m] /\ UNCHANGED <<cand, book, sentinel>> /\ jobs' \in 0..MaxJobs
  BY LearnStoreAssumption DEF Start, Inv, TypeOK
<1> HIDE DEF m
<1>4. proc' \in [Procs -> Process] /\ \A q \in Procs : proc'[q] = IF q = p THEN m ELSE proc[q]
  BY <1>2, <1>3 DEF Inv, TypeOK
<1>5. Found' /\ Marked'
  BY <1>2, <1>3, <1>4 DEF Inv, Found, Marked, At
<1>6. TypeOK' /\ Expired' /\ IdsApart' /\ SeedComplete'
  BY <1>3, <1>4 DEF Inv, TypeOK, Expired, IdsApart, SeedComplete
<1>7. ArtifactStep /\ TombstonesStep /\ PurgeStep /\ MarksStep
  BY <1>3 DEF ArtifactStep, TombstonesStep, PurgeStep, MarksStep
<1> QED  BY <1>5, <1>6, <1>7 DEF Kept, Inv

\* The steps that read, and those that only go on.
LEMMA GoingOnKeeps ==
  ASSUME Inv, NEW p \in Procs, NEW stage \in Stages \ {"mark"}, Goto(p, stage),
         UNCHANGED <<cand, book, sentinel, jobs>>
  PROVE  Kept
<1>1. TombstonesStep /\ PurgeStep
  BY DEF TombstonesStep, PurgeStep
<1>2. cand' \in [Sigs -> Candidate] /\ \A s \in Sigs : cand'[s].status = "none" => cand'[s] = NoCandidate
  BY DEF Inv, TypeOK
<1>3. Expired' /\ IdsApart' /\ \A s \in Sigs : cand'[s].status = "confirmed" => cand[s].status = "confirmed"
  BY DEF Inv, Expired, IdsApart
<1> QED  BY <1>1, <1>2, <1>3, CandidatesKeep

LEMMA ReadsKeep ==
  ASSUME Inv, NEW p \in Procs,
         List(p) \/ Check(p) \/ ReadBack(p) \/ Get(p) \/ SeedRead(p)
  PROVE  Kept
<1>1. proc[p] \in Process /\ \A s \in Sigs : cand[s] \in Candidate
  BY DEF Inv, TypeOK
<1>2. CASE List(p)
  <2> DEFINE m == [proc[p] EXCEPT !.row = cand["play"],
                                  !.pc = IF cand["play"].status = "open" THEN "check" ELSE "gate"]
  <2>1. m \in Process /\ (m.exists => proc[p].exists) /\ m.pc # "mark"
    BY <1>1 DEF Process, Stages, Sigs
  <2>2. proc' = [proc EXCEPT ![p] = m] /\ UNCHANGED <<cand, book, sentinel, jobs>>
    BY <1>2 DEF List
  <2> QED  BY <2>1, <2>2, ReadKeeps
<1>3. CASE Check(p)
  <2> DEFINE m == [proc[p] EXCEPT !.exists = book.family.there, !.pc = "promote"]
  <2>1. book.family.there \in BOOLEAN
    BY DEF Inv, TypeOK, Keys, Row
  <2>2. m \in Process /\ (m.exists => book.family.there) /\ m.pc # "mark"
    BY <1>1, <2>1 DEF Process, Stages
  <2>3. proc' = [proc EXCEPT ![p] = m] /\ UNCHANGED <<cand, book, sentinel, jobs>>
    BY <1>3 DEF Check
  <2> QED  BY <2>2, <2>3, ReadKeeps
<1>4. CASE ReadBack(p)
  <2> DEFINE row == cand["play"]
             m == IF row.status \in {"none", "rejected"} \/ row.sightings = 1 \/ ~Shorter(row, Job(p).steps)
                  THEN Idle ELSE [proc[p] EXCEPT !.pc = "refresh", !.row = row]
  <2>1. m \in Process /\ (m.exists => proc[p].exists) /\ m.pc # "mark"
    BY <1>1, IdleTyped DEF Process, Stages, Sigs
  <2>2. proc' = [proc EXCEPT ![p] = m] /\ UNCHANGED <<cand, book, sentinel, jobs>>
    BY <1>4 DEF ReadBack
  <2> QED  BY <2>1, <2>2, ReadKeeps
<1>5. CASE Get(p)
  <2> DEFINE row == cand[Job(p).sig]
             settles == [proc[p] EXCEPT !.pc = "settle", !.row = row]
  <2>1. Job(p).sig \in Sigs
    BY <1>1, JobTyped DEF Job, Process
  <2>2. settles \in Process /\ (settles.exists => proc[p].exists) /\ settles.pc # "mark"
    BY <1>1, <2>1 DEF Process, Stages
  <2>3. \E m \in {Idle, settles} : proc' = [proc EXCEPT ![p] = m]
    BY <1>5 DEF Get
  <2>4. UNCHANGED <<cand, book, sentinel, jobs>>
    BY <1>5 DEF Get
  <2> HIDE DEF settles, row
  <2> QED  BY <2>2, <2>3, <2>4, IdleTyped, ReadKeeps
<1>6. CASE SeedRead(p)
  <2>1. book.family.notes \subseteq Notes
    BY DEF Inv, TypeOK, Keys, Row
  <2>2. PICK notes \in {book.family.notes, {}} : proc' = [proc EXCEPT ![p] = [proc[p] EXCEPT !.pc = "seed", !.notes = notes]]
    BY <1>6 DEF SeedRead
  <2> DEFINE m == [proc[p] EXCEPT !.pc = "seed", !.notes = notes]
  <2>3. m \in Process /\ (m.exists => proc[p].exists) /\ m.pc # "mark"
    BY <1>1, <2>1 DEF Process, Stages
  <2>4. UNCHANGED <<cand, book, sentinel, jobs>>
    BY <1>6 DEF SeedRead
  <2> QED  BY <2>2, <2>3, <2>4, ReadKeeps
<1> QED  BY <1>2, <1>3, <1>4, <1>5, <1>6

-----------------------------------------------------------------------------
\* The steps that write candidates.
LEMMA DeriveKeeps ==
  ASSUME Inv, NEW p \in Procs, NEW stage \in Stages \ {"mark"}, Goto(p, stage),
         UNCHANGED <<book, sentinel, jobs>>, NEW s \in Sigs, NEW steps \in 0..MaxSteps,
         NEW anchored \in BOOLEAN, DeriveCandidate(s, steps, anchored)
  PROVE  Kept
<1> DEFINE old == cand[s]
           new == IF old.status = "none" THEN Inserted(steps, anchored) ELSE Seen(old)
<1>1. cand \in [Sigs -> Candidate] /\ old \in Candidate /\ \A r \in Sigs : cand[r].status = "none" => cand[r] = NoCandidate
  BY DEF Inv, TypeOK
<1>2. CASE old.status = "rejected"
  <2>1. UNCHANGED cand
    BY <1>2 DEF DeriveCandidate
  <2> QED  BY <2>1, GoingOnKeeps
<1>3. CASE old.status # "rejected"
  <2>1. /\ Inserted(steps, anchored) \in Candidate /\ Inserted(steps, anchored).status = "open"
        /\ \A r \in Sigs : Inserted(steps, anchored).id # cand[r].id
    BY <1>1, NewIdTyped DEF Inserted, Candidate, Statuses
  <2>2. /\ Seen(old) \in Candidate /\ Seen(old).id = old.id
        /\ Seen(old).status = IF old.status = "expired" THEN "open" ELSE old.status
    BY <1>1, SeenTyped
  <2>3. cand' = [cand EXCEPT ![s] = new]
    BY <1>3 DEF DeriveCandidate
  <2>4. /\ new \in Candidate /\ new.status \notin {"none", "expired", "rejected"}
        /\ new.status = "confirmed" => old.status = "confirmed"
        /\ new.id = old.id \/ \A r \in Sigs : new.id # cand[r].id
    BY <1>3, <2>1, <2>2
  <2> HIDE DEF new
  <2>5. \A r \in Sigs : cand'[r] = IF r = s THEN new ELSE cand[r]
    BY <1>1, <2>3
  <2>6. cand' \in [Sigs -> Candidate] /\ \A r \in Sigs : cand'[r].status = "none" => cand'[r] = NoCandidate
    BY <1>1, <2>3, <2>4
  <2>7. \A r \in Sigs : cand'[r].status = "confirmed" => cand[r].status = "confirmed"
    BY <2>4, <2>5
  <2>8. Expired' /\ IdsApart'
    BY <2>4, <2>5 DEF Inv, Expired, IdsApart
  <2>9. TombstonesStep /\ PurgeStep
    BY <1>3, <2>4, <2>5 DEF TombstonesStep, PurgeStep
  <2> QED  BY <2>6, <2>7, <2>8, <2>9, CandidatesKeep
<1> QED  BY <1>2, <1>3

LEMMA CandidateWritesKeep ==
  ASSUME Inv, NEW p \in Procs,
         Observe(p) \/ Synthesize(p) \/ Refresh(p) \/ Reject(p) \/ Expire(p) \/ Purge(p)
  PROVE  Kept
<1>1. /\ cand \in [Sigs -> Candidate] /\ \A s \in Sigs : cand[s].status = "none" => cand[s] = NoCandidate
      /\ Job(p) \in Jobs /\ Expired /\ IdsApart
  BY DEF Inv, TypeOK, Job, Process
<1>2. CASE Observe(p)
  <2>1. Job(p).flag \in BOOLEAN /\ 0 \in 0..MaxSteps /\ "alias" \in Sigs /\ "idle" \in Stages \ {"mark"}
    BY <1>1, JobTyped, JsonsTyped DEF Sigs, Stages
  <2> QED  BY <1>2, <2>1, DeriveKeeps DEF Observe
<1>3. CASE Synthesize(p)
  <2>1. Job(p).steps \in 0..MaxSteps /\ "play" \in Sigs /\ "stored" \in Stages \ {"mark"}
    BY <1>1, JobTyped DEF Sigs, Stages
  <2> QED  BY <1>3, <2>1, DeriveKeeps DEF Synthesize
<1>4. CASE Refresh(p)
  <2>1. Job(p).steps \in 0..MaxSteps
    BY <1>1, JobTyped
  <2>2. \A s \in Sigs : \/ cand'[s] = cand[s]
                        \/ cand[s].status = "open" /\ cand'[s] = [cand[s] EXCEPT !.steps = Job(p).steps]
    BY <1>1, <1>4 DEF Refresh
  <2>3. \A s \in Sigs : \/ cand'[s] = cand[s]
                        \/ /\ cand[s].status = "open" /\ cand'[s] \in Candidate
                           /\ cand'[s].status = "open" /\ cand'[s].id = cand[s].id
    BY <1>1, <2>1, <2>2, ZenonT(60) DEF Candidate, Statuses
  <2>4. cand' \in [Sigs -> Candidate]
    BY <1>1, <1>4, <2>3 DEF Refresh
  <2>5. Expired' /\ IdsApart' /\ TombstonesStep /\ PurgeStep
    BY <1>1, <2>3 DEF Expired, IdsApart, TombstonesStep, PurgeStep
  <2>6. Goto(p, "idle") /\ "idle" \in Stages \ {"mark"} /\ UNCHANGED <<book, sentinel, jobs>>
    BY <1>4 DEF Refresh, Stages
  <2> QED  BY <1>1, <2>3, <2>4, <2>5, <2>6, CandidatesKeep
<1>5. CASE Reject(p)
  <2>1. \A s \in Sigs : \/ cand'[s] = cand[s]
                        \/ /\ cand[s].status # "rejected" /\ cand[s].id # 0
                           /\ cand'[s] = [cand[s] EXCEPT !.status = "rejected"]
    BY <1>5 DEF Reject, Rejectable, Named
  <2>2. \A s \in Sigs : \/ cand'[s] = cand[s]
                        \/ /\ cand[s].status # "rejected" /\ cand'[s] \in Candidate
                           /\ cand'[s].status = "rejected" /\ cand'[s].id = cand[s].id
    <3>1. \A c \in Candidate : /\ [c EXCEPT !.status = "rejected"] \in Candidate
                              /\ [c EXCEPT !.status = "rejected"].status = "rejected"
                              /\ [c EXCEPT !.status = "rejected"].id = c.id
      BY DEF Candidate, Statuses
    <3>2. \A s \in Sigs : cand[s] \in Candidate
      BY <1>1
    <3> QED  BY <2>1, <3>1, <3>2, Zenon
  <2>3. cand' \in [Sigs -> Candidate]
    BY <1>1, <1>5, <2>2 DEF Reject
  <2>4. Expired' /\ IdsApart' /\ TombstonesStep /\ PurgeStep
    BY <1>1, <2>2 DEF Expired, IdsApart, TombstonesStep, PurgeStep
  <2>5. Goto(p, "idle") /\ "idle" \in Stages \ {"mark"} /\ UNCHANGED <<book, sentinel, jobs>>
    BY <1>5 DEF Reject, Stages
  <2> QED  BY <1>1, <2>2, <2>3, <2>4, <2>5, CandidatesKeep
<1>6. CASE Expire(p)
  <2>1. \A s \in Sigs : \/ cand'[s] = cand[s]
                        \/ /\ cand[s].status = "open" /\ ~cand[s].fresh
                           /\ cand'[s] = [cand[s] EXCEPT !.status = "expired"]
    BY <1>6 DEF Expire
  <2>2. \A s \in Sigs : \/ cand'[s] = cand[s]
                        \/ /\ cand[s].status = "open" /\ ~cand'[s].fresh /\ cand'[s].id = cand[s].id
                           /\ cand'[s] \in Candidate /\ cand'[s].status = "expired"
    BY <1>1, <2>1, ZenonT(60) DEF Candidate, Statuses
  <2>3. cand' \in [Sigs -> Candidate]
    BY <1>1, <1>6, <2>2 DEF Expire
  <2>4. Expired' /\ IdsApart' /\ TombstonesStep /\ PurgeStep
    BY <1>1, <2>2 DEF Expired, IdsApart, TombstonesStep, PurgeStep
  <2>5. Goto(p, "purge") /\ "purge" \in Stages \ {"mark"} /\ UNCHANGED <<book, sentinel, jobs>>
    BY <1>6 DEF Expire, Stages
  <2> QED  BY <1>1, <2>2, <2>3, <2>4, <2>5, CandidatesKeep
<1>7. CASE Purge(p)
  <2>1. \A s \in Sigs : \/ cand'[s] = cand[s]
                        \/ /\ \/ cand[s].status \in {"expired", "confirmed"}
                              \/ cand[s].status = "rejected" /\ Job(p).flag
                           /\ cand'[s] = NoCandidate
    BY <1>7 DEF Purge
  <2>2. cand' \in [Sigs -> Candidate] /\ NoCandidate.status = "none" /\ NoCandidate.id = 0
    BY <1>1, <1>7, <2>1, NoCandidateTyped DEF Purge, NoCandidate
  <2>3. At(p, "purge")
    BY <1>7 DEF Purge
  <2>4. Expired' /\ IdsApart' /\ TombstonesStep /\ PurgeStep
    <3>1. \A s \in Sigs : cand'[s].id \in {cand[s].id, 0}
      BY <2>1, <2>2
    <3>2. IdsApart'
      BY <1>1, <3>1, ZenonT(60) DEF IdsApart
    <3> QED  BY <1>1, <2>1, <2>2, <2>3, <3>2 DEF Expired, TombstonesStep, PurgeStep
  <2>5. Goto(p, "idle") /\ "idle" \in Stages \ {"mark"} /\ UNCHANGED <<book, sentinel, jobs>>
    BY <1>7 DEF Purge, Stages
  <2>6. \A s \in Sigs : cand'[s].status = "none" => cand'[s] = NoCandidate
    BY <1>1, <2>1, <2>2
  <2>7. \A s \in Sigs : cand'[s].status = "confirmed" => cand[s].status = "confirmed"
    BY <2>1, <2>2
  <2> QED  BY <2>2, <2>4, <2>5, <2>6, <2>7, CandidatesKeep
<1> QED  BY <1>2, <1>3, <1>4, <1>5, <1>6, <1>7

LEMMA UnseenKeeps ==
  ASSUME Inv, NEW s \in Sigs, Unseen(s)
  PROVE  Kept
<1>1. /\ cand \in [Sigs -> Candidate] /\ cand[s].status # "none"
      /\ cand' = [cand EXCEPT ![s] = [cand[s] EXCEPT !.fresh = FALSE]]
      /\ UNCHANGED <<book, sentinel, proc, jobs>>
  BY DEF Unseen, Inv, TypeOK
<1>2. [cand[s] EXCEPT !.fresh = FALSE] \in Candidate
  BY <1>1 DEF Candidate
<1>3. cand' \in [Sigs -> Candidate]
  BY <1>1, <1>2
<1>4. \A r \in Sigs : cand'[r] = cand[r] \/ (/\ cand[r].status # "none" /\ ~cand'[r].fresh
                                            /\ cand'[r].status = cand[r].status /\ cand'[r].id = cand[r].id
                                            /\ cand'[r].sightings = cand[r].sightings)
  BY <1>1 DEF Candidate
<1>5. TypeOK'
  BY <1>1, <1>3, <1>4 DEF Inv, TypeOK
<1>6. Found' /\ Marked' /\ SeedComplete'
  BY <1>1 DEF Inv, Found, Marked, SeedComplete, At
<1>7. Expired' /\ IdsApart'
  BY <1>1, <1>4 DEF Inv, Expired, IdsApart
<1>8. ArtifactStep /\ TombstonesStep /\ PurgeStep /\ MarksStep
  BY <1>1, <1>4 DEF ArtifactStep, TombstonesStep, PurgeStep, MarksStep
<1> QED  BY <1>5, <1>6, <1>7, <1>8 DEF Kept, Inv

-----------------------------------------------------------------------------
\* The steps that write the playbook of the family.
\* Writing the row of the family, which exists from then on.
LEMMA FamilyKeeps ==
  ASSUME Inv, NEW p \in Procs, NEW stage \in Stages, Goto(p, stage),
         UNCHANGED <<sentinel, jobs>>, NEW json \in Jsons, NEW notes \in SUBSET Notes,
         book' = [book EXCEPT !.family = [json |-> json, notes |-> notes, there |-> TRUE]],
         book.family.json # 0 \/ stage = "mark" => json # 0,
         \/ Amendments \cap book.family.notes \subseteq notes
         \/ notes \in {{"user"}, {"auto"}}
         \/ At(p, "seed") /\ proc[p].notes \cap Amendments = {},
         \/ UNCHANGED cand
         \/ \E s \in Sigs : /\ cand[s].status = "open" /\ SetStatus(s, "confirmed")
                            /\ s = "play" \/ "alias" \in notes
  PROVE  Kept
<1> DEFINE row == [json |-> json, notes |-> notes, there |-> TRUE]
<1>1. row \in Row /\ row.there /\ row.json = json /\ row.notes = notes
  BY DEF Row
<1>2. book \in [Keys -> Row] /\ \A k \in Keys : ~book[k].there => book[k] = NoRow
  BY DEF Inv, TypeOK
<1>3. book' = [book EXCEPT !["family"] = row]
  OBVIOUS
<1> HIDE DEF row
<1>4. book' \in [Keys -> Row] /\ book'.family = row
  BY <1>1, <1>2, <1>3 DEF Keys
<1>5. \A k \in Keys : ~book'[k].there => book'[k] = NoRow
  BY <1>1, <1>2, <1>3 DEF Keys
<1>6. MarksStep
  BY <1>1, <1>4 DEF MarksStep
<1> QED  BY <1>1, <1>4, <1>5, <1>6, BookKeeps

LEMMA AppendedRow ==
  ASSUME Inv, NEW note, AppendPlaybookNotes(note)
  PROVE  book' = [book EXCEPT !.family = [json |-> book.family.json, notes |-> book.family.notes \cup {note},
                                          there |-> TRUE]]
BY DEF AppendPlaybookNotes

LEMMA UpsertsKeep ==
  ASSUME Inv, NEW p \in Procs, Upsert(p)
  PROVE  Kept
<1>1. book.family.json \in Jsons /\ book.family.notes \in SUBSET Notes /\ Job(p) \in Jobs
  BY DEF Inv, TypeOK, Keys, Row, Job, Process
<1>2. "list" \in Stages /\ "idle" \in Stages
  BY DEF Stages
<1>3. CASE Job(p).op = "amend"
  <2> DEFINE notes == book.family.notes \cup {"amend"}
  <2>1. notes \in SUBSET Notes /\ Amendments \cap book.family.notes \subseteq notes
    BY <1>1 DEF Notes, Amendments
  <2>2. book' = [book EXCEPT !.family = [json |-> book.family.json, notes |-> notes, there |-> TRUE]]
    BY <1>3, AppendedRow DEF Upsert
  <2>3. Goto(p, "idle") /\ UNCHANGED <<cand, sentinel, jobs>>
    BY <1>3 DEF Upsert
  <2> HIDE DEF notes
  <2> QED  BY <1>1, <1>2, <2>1, <2>2, <2>3, FamilyKeeps
<1>4. CASE Job(p).op # "amend"
  <2> DEFINE json  == IF Job(p).json = 0 THEN book.family.json ELSE Job(p).json
             notes == IF Job(p).notes = {} THEN book.family.notes ELSE Job(p).notes
             stage == IF Job(p).op = "teach" THEN "list" ELSE "idle"
  <2>1. /\ Job(p).json \in Jsons /\ Job(p).notes \in {{}, {"user"}}
    BY <1>1, JobTyped, JsonsTyped
  <2>2. json \in Jsons /\ (book.family.json # 0 => json # 0)
    BY <1>1, <2>1
  <2>3. /\ notes \in SUBSET Notes
        /\ Amendments \cap book.family.notes \subseteq notes \/ notes \in {{"user"}, {"auto"}}
    BY <1>1, <2>1 DEF Notes
  <2>4. book' = [book EXCEPT !.family = [json |-> json, notes |-> notes, there |-> TRUE]]
    BY <1>4 DEF Upsert, UpsertPlaybook
  <2>5. Goto(p, stage) /\ UNCHANGED <<cand, sentinel, jobs>> /\ stage # "mark"
    BY <1>4 DEF Upsert
  <2>6. stage \in Stages
    BY <1>2
  <2> HIDE DEF json, notes, stage
  <2> QED  BY <2>2, <2>3, <2>4, <2>5, <2>6, FamilyKeeps
<1> QED  BY <1>3, <1>4

\* A candidate that is materialized was open, and its row of the family exists.
LEMMA MaterializeKeeps ==
  ASSUME Inv, NEW p \in Procs, NEW stage \in Stages \ {"mark"}, Goto(p, stage),
         UNCHANGED <<sentinel, jobs>>, NEW row \in Candidate,
         cand["play"].status = "open", Materialize(row)
  PROVE  Kept
<1> DEFINE json  == IF row.steps = 0 THEN book.family.json ELSE row.steps
           notes == IF AutoNotes(row) = {} THEN book.family.notes ELSE AutoNotes(row)
<1>1. book.family.json \in Jsons /\ book.family.notes \in SUBSET Notes
  BY DEF Inv, TypeOK, Keys, Row
<1>2. row.steps \in Jsons
  BY JsonsTyped DEF Candidate
<1>3. json \in Jsons /\ (book.family.json # 0 => json # 0)
  BY <1>1, <1>2
<1>4. notes \in SUBSET Notes /\ (notes = book.family.notes \/ notes \in {{"user"}, {"auto"}})
  BY <1>1 DEF AutoNotes, Notes
<1>5. book' = [book EXCEPT !.family = [json |-> json, notes |-> notes, there |-> TRUE]]
  BY DEF Materialize, UpsertPlaybook
<1>6. SetStatus("play", "confirmed") /\ "play" \in Sigs
  BY DEF Materialize, Sigs
<1> HIDE DEF json, notes
<1> QED  BY <1>3, <1>4, <1>5, <1>6, FamilyKeeps

LEMMA PromoteKeeps ==
  ASSUME Inv, NEW p \in Procs, Promote(p)
  PROVE  Kept
<1>1. Goto(p, "gate") /\ "gate" \in Stages \ {"mark"} /\ UNCHANGED <<sentinel, jobs>> /\ At(p, "promote")
  BY DEF Promote, Stages
<1>2. CASE UNCHANGED <<cand, book>>
  BY <1>1, <1>2, GoingOnKeeps
<1>3. ASSUME NEW s \in Sigs, proc[p].exists, Confirmable(proc[p].row, s), SetStatus(s, "confirmed"), UNCHANGED book
      PROVE  Kept
  <2>1. cand[s].status = "open" /\ proc[p].row.id = cand[s].id /\ cand[s].id # 0
    BY <1>3 DEF Confirmable, Named
  <2>2. s = "play" \/ cand["play"].id # cand[s].id
    BY <2>1 DEF Inv, IdsApart, Sigs
  <2>3. book'.family.there
    BY <1>3 DEF Inv, Found
  <2>4. book' \in [Keys -> Row] /\ MarksStep /\ \A k \in Keys : ~book'[k].there => book'[k] = NoRow
    BY <1>3 DEF Inv, TypeOK, MarksStep
  <2> QED  BY <1>1, <1>3, <2>1, <2>2, <2>3, <2>4, BookKeeps
<1>4. CASE Confirmable(proc[p].row, "play") /\ Materialize(proc[p].row)
  <2>1. cand["play"].status = "open"
    BY <1>4 DEF Confirmable
  <2>2. proc[p].row \in Candidate
    BY DEF Inv, TypeOK, Process
  <2> QED  BY <1>1, <1>4, <2>1, <2>2, MaterializeKeeps
<1> QED  BY <1>2, <1>3, <1>4 DEF Promote

LEMMA ConfirmKeeps ==
  ASSUME Inv, NEW p \in Procs, Confirm(p)
  PROVE  Kept
<1>1. Goto(p, "idle") /\ "idle" \in Stages \ {"mark"} /\ UNCHANGED <<sentinel, jobs>>
  BY DEF Confirm, Stages
<1>2. CASE ~Confirmable(proc[p].row, Job(p).sig)
  BY <1>1, <1>2, GoingOnKeeps DEF Confirm
<1>3. CASE Confirmable(proc[p].row, Job(p).sig) /\ Job(p).sig = "play"
  <2>1. Materialize(proc[p].row) /\ cand["play"].status = "open"
    BY <1>3 DEF Confirm, Confirmable
  <2>2. proc[p].row \in Candidate
    BY DEF Inv, TypeOK, Process
  <2> QED  BY <1>1, <2>1, <2>2, MaterializeKeeps
<1>4. CASE Confirmable(proc[p].row, Job(p).sig) /\ Job(p).sig # "play"
  <2>1. Job(p).sig = "alias" /\ "alias" \in Sigs
    BY <1>4, JobTyped DEF Inv, TypeOK, Process, Job, Sigs
  <2>2. AppendPlaybookNotes("alias") /\ SetStatus("alias", "confirmed") /\ cand["alias"].status = "open"
    BY <1>4, <2>1 DEF Confirm, Confirmable
  <2> DEFINE notes == book.family.notes \cup {"alias"}
  <2>3. book.family.json \in Jsons /\ book.family.notes \in SUBSET Notes
    BY DEF Inv, TypeOK, Keys, Row
  <2>4. notes \in SUBSET Notes /\ Amendments \cap book.family.notes \subseteq notes /\ "alias" \in notes
    BY <2>3 DEF Notes, Amendments
  <2>5. book' = [book EXCEPT !.family = [json |-> book.family.json, notes |-> notes, there |-> TRUE]]
    BY <2>2, AppendedRow
  <2> HIDE DEF notes
  <2> QED  BY <1>1, <2>1, <2>2, <2>3, <2>4, <2>5, FamilyKeeps, ZenonT(60)
<1> QED  BY <1>2, <1>3, <1>4

LEMMA SeedWriteKeeps ==
  ASSUME Inv, NEW p \in Procs, NEW ok \in BOOLEAN, SeedWrite(p, ok)
  PROVE  Kept
<1>1. /\ book.family.json \in Jsons /\ book.family.notes \in SUBSET Notes /\ proc[p].notes \in SUBSET Notes
      /\ Job(p).version \in Versions /\ UNCHANGED <<cand, sentinel, jobs>>
  BY JobTyped DEF SeedWrite, Inv, TypeOK, Keys, Row, Process, Job
<1>2. CASE ~ok
  <2>1. Goto(p, "idle") /\ UNCHANGED book /\ "idle" \in Stages \ {"mark"}
    BY <1>2 DEF SeedWrite, Stages
  <2> QED  BY <1>1, <2>1, GoingOnKeeps
<1>3. CASE ok
  <2> DEFINE version == Job(p).version
             kept  == Preserved(proc[p].notes) /\ book.family.notes # {}
             json  == Seed(version)
             notes == IF kept THEN book.family.notes ELSE {SeedNote(version)}
  <2>1. json \in Jsons /\ json # 0
    BY <1>1, JsonsTyped
  <2>2. notes \in SUBSET Notes
    BY <1>1 DEF SeedNote, Notes
  <2>3. Goto(p, "mark") /\ At(p, "seed") /\ "mark" \in Stages
    BY <1>3 DEF SeedWrite, Stages
  <2>4. \/ Amendments \cap book.family.notes \subseteq notes
        \/ proc[p].notes \cap Amendments = {}
    BY DEF Preserved
  <2>5. book' = [book EXCEPT !.family = [json |-> json, notes |-> notes, there |-> TRUE]]
    BY <1>3, <2>1 DEF SeedWrite, UpsertPlaybook
  <2> HIDE DEF json, notes
  <2> QED  BY <1>1, <2>1, <2>2, <2>3, <2>4, <2>5, FamilyKeeps
<1> QED  BY <1>2, <1>3

\* The sentinel is written by a process that has written its playbook.
LEMMA SeedMarkKeeps ==
  ASSUME Inv, NEW p \in Procs, SeedMark(p)
  PROVE  Kept
<1>1. /\ At(p, "mark") /\ Goto(p, "idle") /\ sentinel' = Job(p).version
      /\ UNCHANGED <<cand, book, jobs>> /\ "idle" \in Stages
  BY DEF SeedMark, Stages
<1>2. /\ proc' \in [Procs -> Process] /\ \A q \in Procs : proc'[q].exists => proc[q].exists
      /\ \A q \in Procs : proc'[q].pc = "mark" => At(q, "mark")
  BY <1>1, GotoKeeps
<1>3. sentinel' \in Versions
  BY <1>1, JobTyped DEF Inv, TypeOK, Process, Job
<1>4. TypeOK'
  BY <1>1, <1>2, <1>3 DEF Inv, TypeOK
<1>5. Found' /\ Marked' /\ Expired' /\ IdsApart'
  BY <1>1, <1>2 DEF Inv, Found, Marked, Expired, IdsApart, At
<1>6. SeedComplete'
  BY <1>1 DEF Inv, Marked, SeedComplete
<1>7. ArtifactStep /\ TombstonesStep /\ PurgeStep /\ MarksStep
  BY <1>1 DEF ArtifactStep, TombstonesStep, PurgeStep, MarksStep
<1> QED  BY <1>4, <1>5, <1>6, <1>7 DEF Kept, Inv

\* A row moves to the key of the family only where there is none.
LEMMA RekeyKeeps ==
  ASSUME Inv, NEW p \in Procs, Rekey(p)
  PROVE  Kept
<1>1. Goto(p, "idle") /\ "idle" \in Stages \ {"mark"} /\ UNCHANGED <<cand, sentinel, jobs>>
  BY DEF Rekey, Stages
<1>2. CASE book.family.there \/ ~book.raw.there
  BY <1>1, <1>2, GoingOnKeeps DEF Rekey
<1>3. CASE ~book.family.there /\ book.raw.there
  <2>1. book' = [family |-> book.raw, raw |-> NoRow]
    BY <1>3 DEF Rekey
  <2>2. /\ book.raw \in Row /\ book.family = NoRow
    BY <1>3 DEF Inv, TypeOK, Keys
  <2>3. NoRow \in Row /\ ~NoRow.there /\ NoRow.json = 0 /\ NoRow.notes = {}
    BY JsonsTyped DEF NoRow, Row
  <2>4. book' \in [Keys -> Row] /\ book'.family = book.raw /\ book'.raw = NoRow
    BY <2>1, <2>2, <2>3 DEF Keys
  <2>5. \A k \in Keys : ~book'[k].there => book'[k] = NoRow
    BY <1>3, <2>4 DEF Keys
  <2>6. MarksStep
    BY <2>2, <2>3 DEF MarksStep
  <2> QED  BY <1>1, <1>3, <2>2, <2>3, <2>4, <2>5, <2>6, BookKeeps
<1> QED  BY <1>2, <1>3

-----------------------------------------------------------------------------
LEMMA StepKeeps == Inv /\ Next => Kept
<1> SUFFICES ASSUME Inv, Next PROVE Kept
  OBVIOUS
<1>1. ASSUME NEW s \in Sigs, Unseen(s) PROVE Kept
  BY <1>1, UnseenKeeps
<1>2. ASSUME NEW p \in Procs, NEW j \in Jobs, Start(p, j) PROVE Kept
  BY <1>2, StartKeeps
<1>3. ASSUME NEW p \in Procs,
             List(p) \/ Check(p) \/ ReadBack(p) \/ Get(p) \/ SeedRead(p)
      PROVE  Kept
  BY <1>3, ReadsKeep
<1>4. ASSUME NEW p \in Procs,
             Observe(p) \/ Synthesize(p) \/ Refresh(p) \/ Reject(p) \/ Expire(p) \/ Purge(p)
      PROVE  Kept
  BY <1>4, CandidateWritesKeep
<1>5. ASSUME NEW p \in Procs, Gate(p) \/ LogAndGoOn(p) \/ SeedStart(p) \/ Lookup(p) \/ Stop(p) PROVE Kept
  <2>1. \E stage \in {"idle", "list", "gate", "derive", "read", "rekey"} : Goto(p, stage)
    BY <1>5 DEF Gate, LogAndGoOn, SeedStart, Lookup, Stop
  <2>2. {"idle", "list", "gate", "derive", "read", "rekey"} \subseteq Stages \ {"mark"}
    BY DEF Stages
  <2>3. UNCHANGED <<cand, book, sentinel, jobs>>
    BY <1>5 DEF Gate, LogAndGoOn, SeedStart, Lookup, Stop
  <2> QED  BY <2>1, <2>2, <2>3, GoingOnKeeps
<1>6. ASSUME NEW p \in Procs, NEW ok \in BOOLEAN, SeedWrite(p, ok) PROVE Kept
  BY <1>6, SeedWriteKeeps
<1>7. ASSUME NEW p \in Procs, Upsert(p) \/ Promote(p) \/ Confirm(p) \/ SeedMark(p) \/ Rekey(p)
      PROVE  Kept
  BY <1>7, UpsertsKeep, PromoteKeeps, ConfirmKeeps, SeedMarkKeeps, RekeyKeeps
<1> QED  BY <1>1, <1>2, <1>3, <1>4, <1>5, <1>6, <1>7 DEF Next

LEMMA StutterKeeps == Inv /\ UNCHANGED vars => Kept
<1> SUFFICES ASSUME Inv, UNCHANGED vars PROVE Kept
  OBVIOUS
<1>1. UNCHANGED <<cand, book, sentinel, proc, jobs>>
  BY DEF vars
<1>2. Inv'
  BY <1>1 DEF Inv, TypeOK, Found, Marked, Expired, IdsApart, SeedComplete, At
<1>3. ArtifactStep /\ TombstonesStep /\ PurgeStep /\ MarksStep
  BY <1>1 DEF ArtifactStep, TombstonesStep, PurgeStep, MarksStep
<1> QED  BY <1>2, <1>3 DEF Kept

LEMMA Invariance == Spec => []Inv
<1>1. Inv /\ [Next]_vars => Inv'
  BY StepKeeps, StutterKeeps DEF Kept
<1> QED  BY InitInv, <1>1, PTL DEF Spec

\* Types: the tables, the sentinel and the commands, of any number of processes
\* (candidates.go, playbooks.go).
THEOREM TypeCorrect == Spec => []TypeOK
<1>1. Inv => TypeOK
  BY DEF Inv
<1> QED  BY Invariance, <1>1, PTL

\* confirmAndMaterializeCandidate and promoteCandidateOnTeach: a candidate becomes
\* confirmed with its playbook and its note, whoever was killed or raced on the
\* way, unless ConfirmCandidate is given an id that a purge has set free.
THEOREM ArtifactsHeld == Spec => ConfirmedHasArtifact
<1>1. Inv /\ [Next]_vars => [ArtifactStep]_vars
  BY StepKeeps DEF Kept
<1>2. [ArtifactStep]_vars <=>
      [\A s \in Sigs : cand[s].status # "confirmed" /\ cand'[s].status = "confirmed" =>
         /\ book'.family.there
         /\ \/ s = "play" \/ "alias" \in book'.family.notes
            \/ \E p \in Procs : /\ At(p, "promote") /\ proc[p].exists
                                /\ proc[p].row.id = cand[s].id /\ cand["play"].id # cand[s].id]_vars
  BY DEF ArtifactStep
<1> QED  BY Invariance, <1>1, <1>2, PTL DEF Spec, ConfirmedHasArtifact

\* installPlaybooksFromEmbed: the sentinel of a version is written only over a
\* playbook, and no command takes the playbook away again.
THEOREM SeedingCompletes == Spec => []SeedComplete
<1>1. Inv => SeedComplete
  BY DEF Inv
<1> QED  BY Invariance, <1>1, PTL

\* RejectCandidate: no sighting, confirmation, promotion or expiry revives a
\* rejected signature; only a purge of the tombstones removes it.
THEOREM TombstonesHold == Spec => TombstonesStay
<1>1. Inv /\ [Next]_vars => [TombstonesStep]_vars
  BY StepKeeps DEF Kept
<1>2. [TombstonesStep]_vars <=>
      [\A s \in Sigs : cand[s].status = "rejected" =>
         \/ cand'[s].status = "rejected" /\ cand'[s].sightings = cand[s].sightings
         \/ cand'[s] = NoCandidate /\ \E p \in Procs : At(p, "purge") /\ Job(p).flag]_vars
  BY DEF TombstonesStep
<1> QED  BY Invariance, <1>1, <1>2, PTL DEF Spec, TombstonesStay

\* PurgeCandidates after ExpireCandidates: what nobody judged and was seen within
\* the TTL survives, also when the sighting fell between the two statements.
THEOREM FreshSurvive == Spec => FreshSurvivesPurge
<1>1. Inv /\ [Next]_vars => [PurgeStep]_vars
  BY StepKeeps DEF Kept
<1>2. [PurgeStep]_vars <=>
      [\A s \in Sigs : cand[s].status # "none" /\ cand'[s].status = "none" =>
         cand[s].status \in {"confirmed", "rejected"} \/ ~cand[s].fresh]_vars
  BY DEF PurgeStep
<1> QED  BY Invariance, <1>1, <1>2, PTL DEF Spec, FreshSurvivesPurge

\* upsertPlaybookTx, appendPlaybookNotesTx and the seeding: an amendment is
\* replaced by notes given on purpose, or by a seeding that read before it or
\* could not read.
THEOREM MarksHold == Spec => MarksKept
<1>1. Inv /\ [Next]_vars => [MarksStep]_vars
  BY StepKeeps DEF Kept
<1>2. [MarksStep]_vars <=>
      [\A m \in Amendments : m \in book.family.notes /\ m \notin book'.family.notes =>
         \/ book'.family.notes \in {{"user"}, {"auto"}}
         \/ \E p \in Procs : At(p, "seed") /\ proc[p].notes \cap Amendments = {}]_vars
  BY DEF MarksStep
<1> QED  BY Invariance, <1>1, <1>2, PTL DEF Spec, MarksKept
=============================================================================
