---------------------------- MODULE AssistAnswers ----------------------------
(***************************************************************************)
(* The commands that compose an answer from several reads: resolve,        *)
(* advisor course, advisor agreements, agreements diff, catalog diff, and  *)
(* a plain endpoint read.  Each read is a step of its own, and ASSIST may  *)
(* publish, or a sync may store, between two of them: what a read returns  *)
(* does not depend on what an earlier one did.                             *)
(***************************************************************************)
EXTENDS Resolution

CONSTANTS
    Institutions,  \* responses of /api/institutions
    Years,         \* of /api/AcademicYears
    Searches,      \* of a course search
    Sections,      \* of the transferability and articulation endpoints
    Partners,      \* of /api/institutions/{id}/agreements
    Agreements,    \* of /api/articulation/Agreements
    Reads,         \* of the plain reads
    Snapshots,     \* rows of the mirror, in id order
    Asks,          \* [cmd, from, to, year, course, types] records: what is asked
    FlagSets,      \* [select, compact, agent] records: how it is to be printed
    \* The trees (AssistTrees): coded strings expanded, the entries of a diff, and what is
    \* printed for an answer, through printJSONFiltered and of an endpoint read.
    Expanded(_), Diff(_, _), AnswerOutput(_, _, _), ReadOutput(_, _, _)

\* Each text has its number, and two course records that are one text are one record.
ASSUME TextsAssumption ==
    /\ \A r, s \in DOMAIN Texts : Texts[r] \in Nat /\ (Texts[r] = Texts[s] => r = s)
    /\ \A response \in Searches :
          CourseRecords(response) # Missing => Range(CourseRecords(response).arr) \subseteq DOMAIN Texts

VARIABLES
    step,     \* the read or the print that comes next
    ask,      \* the command line
    got,      \* what the reads have brought, and what was made of it
    composed, \* the composed answer
    flags,    \* how it was printed
    out       \* what was printed

answersVars == <<step, ask, got, composed, flags, out>>

NoValue == Missing
AnswersInit ==
    /\ step = "idle" /\ ask = NoValue /\ got = <<>> /\ composed = NoValue
    /\ flags = NoValue /\ out = NoValue

FirstRead(cmd) ==
    CASE cmd = "agreements diff" -> "agreement before"
      [] cmd = "catalog diff"    -> "snapshot before"
      [] cmd = "read"            -> "body"
      [] OTHER                   -> "institutions"

Asked(a) ==
    /\ step = "idle"
    /\ ask' = a /\ step' = FirstRead(a.cmd)
    /\ UNCHANGED <<got, composed, flags, out>>

\* A read adds to got, and goes on, composes the answer, or ends in an error.
More(read)        == [k \in DOMAIN got \cup DOMAIN read |-> IF k \in DOMAIN got THEN got[k] ELSE read[k]]
Keep(name, v)     == got' = More([k \in {name} |-> v])
Go(next)          == step' = next /\ UNCHANGED <<ask, composed, flags, out>>
Compose(a)        == step' = "print" /\ composed' = a /\ UNCHANGED <<ask, flags, out>>
End               == Go("failed")
ReadFails ==
    /\ step \notin {"idle", "print", "done", "failed"}
    /\ End /\ UNCHANGED got

-----------------------------------------------------------------------------
(***************************************************************************)
(* Resolution.                                                             *)
(***************************************************************************)
Entity(o)         == Obj(Only("id", Num(o.id)) @@ Only("record", o.record))
ResolvedOf(names) == [k \in {K(n) : n \in names} |-> Entity(got[k[1]])]
Source(cmd)       == IF cmd = "catalog diff" THEN "local" ELSE "live"
From              == Only("source", Text(K(Source(ask.cmd))))
ResolveAnswer(institution, year) ==
    Obj(From @@ Only("institution_id", Num(institution.id)) @@ Only("institution", institution.record)
             @@ Only("academic_year_id", Num(year.id)) @@ Only("academic_year", year.record))

FetchInstitutions ==
    /\ step = "institutions"
    /\ \E response \in Institutions :
        LET records == RecordList(response)
        IN  IF records = Missing THEN End /\ UNCHANGED got
            ELSE Keep("institutions", records.arr) /\ Go("years")

\* Both names are resolved against the one list that was read.
Resolve(years) ==
    [institutions  |-> got.institutions, years |-> years,
     sending       |-> ResolveAssistInstitution(got.institutions, ask.from),
     academic_year |-> ResolveAssistAcademicYear(years, ask.year),
     receiving     |-> ResolveAssistInstitution(got.institutions, ask.to)]
Named(resolution) ==
    /\ Resolved(resolution.sending) /\ Resolved(resolution.academic_year)
    /\ ask.cmd = "resolve" \/ Resolved(resolution.receiving)
GoOn(resolution) ==
    CASE ask.cmd = "resolve"            -> Compose(ResolveAnswer(resolution.sending, resolution.academic_year))
      [] ask.cmd = "advisor course"     -> Go("search")
      [] OTHER                          -> Go("partners")
FetchYears ==
    /\ step = "years"
    /\ \E response \in Years :
        LET records == RecordList(response)
        IN  IF records = Missing THEN End /\ UNCHANGED got
            ELSE /\ got' = Resolve(records.arr)
                 /\ IF Named(got') THEN GoOn(got') ELSE End

-----------------------------------------------------------------------------
(***************************************************************************)
(* advisor course.                                                         *)
(***************************************************************************)
SearchCourse ==
    /\ step = "search"
    /\ \E response \in Searches :
        LET course == ResolveAdvisorCourse(response, ask.course)
        IN  /\ got' = More([search |-> response, course |-> course])
            /\ IF Resolved(course) THEN Go("transferability") ELSE End

FetchTransferability ==
    /\ step = "transferability"
    /\ \E response \in Sections : Keep("transferability", response) /\ Go("department")

\* A section is the result of an articulation response, and the response.
HasResult(response) == Is("obj", response) /\ K("result") \in DOMAIN response.obj
Section(response)   == Obj(Only("result", response.obj[K("result")]) @@ Only("response", response))
FetchDepartment ==
    /\ step = "department"
    /\ \E response \in Sections :
        IF HasResult(response) THEN Keep("department", response) /\ Go("major")
        ELSE End /\ UNCHANGED got

CourseAnswer(major) ==
    Obj(From
        @@ Only("resolved", Obj(ResolvedOf({"sending", "receiving", "academic_year", "course"})))
        @@ Only("course_search", got.search)
        @@ Only("transferability", got.transferability)
        @@ Only("department_articulation", Section(got.department))
        @@ Only("major_articulation", Section(major)))
FetchMajor ==
    /\ step = "major" /\ UNCHANGED got
    /\ \E response \in Sections :
        IF HasResult(response) THEN Compose(CourseAnswer(response)) ELSE End

-----------------------------------------------------------------------------
(***************************************************************************)
(* advisor agreements: the pair must be published as partners for the      *)
(* year; then one read per agreement type.                                 *)
(***************************************************************************)
FetchPartners ==
    /\ step = "partners"
    /\ \E response \in Partners :
        LET partner == FindAssistReceivingPartner(response, got.receiving.id, got.academic_year.id)
        IN  /\ got' = More([partner |-> partner, agreements |-> <<>>])
            /\ IF Resolved(partner) THEN Go("types") ELSE End

AgreementsAnswer(agreements) ==
    Obj(From
        @@ Only("resolved", Obj(ResolvedOf({"sending", "receiving", "academic_year"})))
        @@ Only("partner_verification", Obj(Only("record", got.partner.record)))
        @@ Only("agreements", Arr(agreements)))
FetchTypes ==
    /\ step = "types"
    /\ \E response \in Sections :
        LET type == ask.types[Len(got.agreements) + 1]
            agreements == Append(got.agreements, Obj(Only("type", Text(K(type))) @@ Only("response", response)))
        IN  /\ got' = [got EXCEPT !.agreements = agreements]
            /\ IF Len(agreements) = Len(ask.types) THEN Compose(AgreementsAnswer(agreements)) ELSE Go("types")

-----------------------------------------------------------------------------
(***************************************************************************)
(* agreements diff.                                                        *)
(***************************************************************************)
\* fetchAgreementResult: the result of the envelope, its coded strings expanded.
ResultOf(response) == Expanded(response.obj[K("result")])
FetchBefore ==
    /\ step = "agreement before"
    /\ \E response \in Agreements :
        IF HasResult(response) THEN Keep("before", ResultOf(response)) /\ Go("agreement after")
        ELSE End /\ UNCHANGED got

\* A list of a set of rows, and the three lists of a diff.
ListOf(rows)          == Arr(SetToSeq(rows))
DiffList(diff, name)  == ListOf({e.row : e \in {d \in diff : d.list = name}})
DiffLists(diff)       == Only("added",   DiffList(diff, "added"))
                      @@ Only("removed", DiffList(diff, "removed"))
                      @@ Only("changed", DiffList(diff, "changed"))

Count(v)      == Num(Len(v.arr))
Counts(lists) == Only("counts", Obj([k \in DOMAIN lists |-> Count(lists[k])]))
DiffAnswer(lists) == Obj(From @@ Counts(lists) @@ lists)
FetchAfter ==
    /\ step = "agreement after"
    /\ \E response \in Agreements :
        IF ~ HasResult(response) THEN End /\ UNCHANGED got
        ELSE /\ Keep("after", ResultOf(response))
             /\ Compose(DiffAnswer(DiffLists(Diff(got.before, ResultOf(response)))))

-----------------------------------------------------------------------------
(***************************************************************************)
(* catalog diff.  The evidence check before it is in CatalogMirror.        *)
(***************************************************************************)
ScopeColumns == {K("_assistScope"), K("_assistInstitutionId"), K("_assistAcademicYearId")}
CatalogScalarString(v) == IF Is("num", v) THEN Digits(v.num) ELSE v.text
\* The first of the keys whose value is a scalar, as text.
FirstCatalogScalar(f, keys) ==
    LET Scalar(key) == K(key) \in DOMAIN f /\ (Is("num", f[K(key)]) \/ Is("text", f[K(key)]))
        found == SelectSeq(keys, Scalar)
    IN  IF found = <<>> THEN Missing ELSE Text(CatalogScalarString(f[K(found[1])]))
CatalogRecordMatchesScope(f, scope) ==
    /\ FirstCatalogScalar(f, <<"_assistInstitutionId", "institutionId", "institutionID", "institutionParentId">>)
           = Text(Digits(scope[1]))
    /\ FirstCatalogScalar(f, <<"_assistAcademicYearId", "academicYearId", "academicYearID">>) = Text(Digits(scope[2]))
CleanCatalogRecord(f) == Restrict(f, DOMAIN f \ ScopeColumns)
StableKeys(type) == CASE type = "courses"     -> <<"courseIdentifierParentId", "id", "parentId">>
                      [] type = "departments" -> <<"parentId", "id">>
                      [] type = "prefixes"    -> <<"prefixParentId", "parentId", "id">>
StableCatalogRecordID(f, type) == FirstCatalogScalar(f, StableKeys(type))

ScopeText(scope) == Text(Digits(scope[1]) \o <<":">> \o Digits(scope[2]))
InScope(rows, scope) ==
    SelectSeq(rows, LAMBDA r : r.obj[K("_assistScope")] = ScopeText(scope) /\ CatalogRecordMatchesScope(r.obj, scope))
Cleaned(rows) == [i \in DOMAIN rows |-> CleanCatalogRecord(rows[i].obj)]
StableIds(records, type) == {StableCatalogRecordID(f, type) : f \in Range(records)}
\* The records by their stable id; Missing when one has none or two share one.
ById(records, type) ==
    IF Missing \in StableIds(records, type) \/ Cardinality(StableIds(records, type)) # Len(records) THEN Missing
    ELSE [byId |-> [id \in StableIds(records, type) |->
                       CHOOSE f \in Range(records) : StableCatalogRecordID(f, type) = id]]
LoadCatalogSnapshot(rows, type, scope) == ById(Cleaned(InScope(rows, scope)), type)

CatalogRecord(id, f) == Obj(Only("id", id) @@ Only("record", Obj(f)))
CatalogChange(id, b, a) ==
    Obj(Only("id", id) @@ Only("before", Obj(b)) @@ Only("after", Obj(a))
        @@ Only("changes", Obj(DiffLists(Diff(Obj(b), Obj(a))))))
CompareCatalogSnapshots(b, a) ==
    Only("added",   ListOf({CatalogRecord(id, a[id]) : id \in DOMAIN a \ DOMAIN b}))
    @@ Only("removed", ListOf({CatalogRecord(id, b[id]) : id \in DOMAIN b \ DOMAIN a}))
    @@ Only("changed", ListOf({CatalogChange(id, b[id], a[id]) :
                                  id \in {x \in DOMAIN a \intersect DOMAIN b : Diff(Obj(b[x]), Obj(a[x])) # {}}}))

LoadBefore ==
    /\ step = "snapshot before"
    /\ \E rows \in Snapshots :
        LET loaded == LoadCatalogSnapshot(rows, ask.types, ask.from)
        IN  IF loaded = Missing THEN End /\ UNCHANGED got
            ELSE Keep("before", loaded.byId) /\ Go("snapshot after")
LoadAfter ==
    /\ step = "snapshot after"
    /\ \E rows \in Snapshots :
        LET loaded == LoadCatalogSnapshot(rows, ask.types, ask.to)
        IN  IF loaded = Missing THEN End /\ UNCHANGED got
            ELSE /\ Keep("after", loaded.byId)
                 /\ Compose(DiffAnswer(CompareCatalogSnapshots(got.before, loaded.byId)))

-----------------------------------------------------------------------------
Read ==
    /\ step = "body" /\ UNCHANGED got
    /\ \E body \in Reads : Compose(body)

Shown(f) == IF ask.cmd = "read" THEN ReadOutput(composed, f, Source(ask.cmd))
            ELSE AnswerOutput(composed, f, Source(ask.cmd))
Show ==
    /\ step = "print"
    /\ \E f \in FlagSets : flags' = f /\ out' = Shown(f)
    /\ step' = "done" /\ UNCHANGED <<ask, got, composed>>

Finish ==
    /\ step \in {"done", "failed"}
    /\ step' = "idle" /\ ask' = NoValue /\ got' = <<>> /\ composed' = NoValue
    /\ flags' = NoValue /\ out' = NoValue

AnswersNext ==
    \/ \E a \in Asks : Asked(a)
    \/ FetchInstitutions \/ FetchYears
    \/ SearchCourse \/ FetchTransferability \/ FetchDepartment \/ FetchMajor
    \/ FetchPartners \/ FetchTypes
    \/ FetchBefore \/ FetchAfter \/ LoadBefore \/ LoadAfter
    \/ Read \/ Show \/ ReadFails \/ Finish

AnswersSpec == AnswersInit /\ [][AnswersNext]_answersVars

-----------------------------------------------------------------------------
(***************************************************************************)
(* Which institution, year and course a name stands for depends on what    *)
(* ASSIST holds and not on the order it lists it in.                       *)
(***************************************************************************)
Orders(s) == {[i \in DOMAIN s |-> s[p[i]]] : p \in Bijection(DOMAIN s, DOMAIN s)}
ResolutionIgnoresOrder ==
    /\ "sending" \in DOMAIN got =>
        /\ \A s \in Orders(got.institutions) : /\ ResolveAssistInstitution(s, ask.from) = got.sending
                                               /\ ResolveAssistInstitution(s, ask.to) = got.receiving
        /\ \A s \in Orders(got.years) : ResolveAssistAcademicYear(s, ask.year) = got.academic_year
    /\ "course" \in DOMAIN got /\ CourseRecords(got.search) # Missing =>
        \A s \in Orders(CourseRecords(got.search).arr) : CourseAmong(s, ask.course) = got.course
=============================================================================
