----------------------------- MODULE Resolution -----------------------------
(***************************************************************************)
(* How the commands turn the names a person types into ASSIST identifiers: *)
(* institutions and academic years from the two reference collections, a   *)
(* course from a course search, a partner from the published agreements.   *)
(*                                                                         *)
(* An outcome is [error] or [id, record].                                  *)
(***************************************************************************)
EXTENDS Json

CONSTANTS
    Separators, \* pieces of text that are neither letters nor digits
    Days,       \* texts of ten characters or more, to the first ten
    Texts,      \* course records, numbered in the order of their text
    \* What a response holds, however deep (AssistTrees); Missing when it is not there.
    RecordList(_), CourseRecords(_), \* the array of records, of course records
    NameTerms(_), NumericValues(_)   \* the terms of a names field, the numbers of a years field

Missing     == [missing |-> TRUE]
FailedAs(e) == [error |-> e]
Resolved(o) == "id" \in DOMAIN o

\* The value under the first of the names that is there, good or not.
AssistLookup(f, names) ==
    LET there == SelectSeq(names, LAMBDA name : K(name) \in DOMAIN f)
    IN  IF there = <<>> THEN Missing ELSE f[K(there[1])]
TextsOf(v)          == IF Is("text", v) THEN {v.text} ELSE {}
TextsAt(f, names)   == TextsOf(AssistLookup(f, names))
IsNumber(f, names)  == Is("num", AssistLookup(f, names))
NumberAt(f, names)  == AssistLookup(f, names).num

LowerText(s) == [i \in DOMAIN s |-> Head(Lower(<<s[i]>>))]
Letters(s)   == {i \in DOMAIN s : s[i] \notin Separators}
NormalizeAssistLabel(s) ==
    LET Piece(i) == IF i \notin Letters(s) THEN <<>>
                    ELSE IF i - 1 \in DOMAIN s \ Letters(s) /\ \E j \in Letters(s) : j < i
                         THEN <<" ", LowerText(s)[i]>>
                         ELSE <<LowerText(s)[i]>>
    IN  FlattenSeq([i \in DOMAIN s |-> Piece(i)])
CompactAdvisorCourseLabel(s) == SelectSeq(LowerText(s), LAMBDA c : c \notin Separators)

-----------------------------------------------------------------------------
(***************************************************************************)
(* Terms: what a record may be asked by, [value, priority].                *)
(***************************************************************************)
Term(s, priority)      == [value |-> NormalizeAssistLabel(s), priority |-> priority]
TermsAt(f, keys, priority) == UNION {{Term(s, priority) : s \in TextsAt(f, <<key>>)} : key \in keys}

NameKeys == <<"name", "currentName", "displayName", "description", "label">>
FromKeys == <<"fromYear", "startYear", "beginYear">>
IsCurrent(f)      == AssistLookup(f, <<"isCurrent", "current", "active", "isActive">>) = True
\* The newest of the years that the named items give, and zero.
LatestYear(items) == Max({0} \union {NumberAt(i.obj, FromKeys) : i \in {x \in items : IsNumber(x.obj, FromKeys)}})
ItemTerms(f, latest) ==
    {Term(s, IF IsCurrent(f) \/ AssistLookup(f, FromKeys) = Num(latest) THEN 3 ELSE 2) : s \in TextsAt(f, NameKeys)}

AssistInstitutionTerms(f) ==
    TermsAt(f, {"code"}, 4) \union TermsAt(f, Range(NameKeys), 3)
    \union (IF K("names") \in DOMAIN f THEN NameTerms(f[K("names")]) ELSE {})

Digits(n) == <<ToString(n)>>
FallTerms(v) == IF Is("num", v)
                THEN {Term(Digits(v.num), 3), Term(Digits(v.num) \o <<"-">> \o Digits(v.num + 1), 4)} ELSE {}
DateKeys   == {"beginDate", "endDate", "startDate", "fromDate", "toDate"}
DatesOf(f) == UNION {TextsAt(f, <<key>>) : key \in DateKeys}
AssistAcademicYearTerms(f, id) ==
    {Term(Digits(id), 4)}
    \union FallTerms(AssistLookup(f, <<"fallYear">>))
    \union TermsAt(f, {"code", "description", "name", "displayName", "label"}, 4)
    \union TermsAt(f, DateKeys, 2) \union {Term(Days[s], 2) : s \in DatesOf(f) \intersect DOMAIN Days}

-----------------------------------------------------------------------------
(***************************************************************************)
(* Matches, by the position of their record, and the only one of the best. *)
(***************************************************************************)
Match(r, id, terms, key) ==
    [id |-> id, record |-> r,
     priority |-> Max({0} \union {t.priority : t \in {x \in terms : x.value = key}})]
Matching(matches) == {i \in DOMAIN matches : matches[i].priority > 0}
Best(matches)     == {i \in Matching(matches) :
                        \A j \in Matching(matches) : matches[j].priority <= matches[i].priority}
ResolvedBy(m)     == [id |-> m.id, record |-> m.record]

\* mutant
UniqueAssistMatchFirst(matches) ==
    IF Best(matches) = {} THEN FailedAs("not found") ELSE ResolvedBy(matches[Min(Matching(matches))])
UniqueAssistMatch(matches) ==
    IF Best(matches) = {} THEN FailedAs("not found")
    ELSE IF \E i, j \in Best(matches) : i # j THEN FailedAs("ambiguous")
    ELSE ResolvedBy(matches[CHOOSE i \in Best(matches) : TRUE])

\* The positions of the records that have an id under one of the keys.
WithId(records, keys) == {i \in DOMAIN records : IsNumber(records[i].obj, keys)}
InstitutionKeys == <<"id", "institutionId", "institutionParentId">>
YearKeys        == <<"id", "academicYearId">>

InstitutionMatch(r, key) ==
    Match(r, NumberAt(r.obj, InstitutionKeys), AssistInstitutionTerms(r.obj), key)
YearMatch(r, key) ==
    Match(r, NumberAt(r.obj, YearKeys), AssistAcademicYearTerms(r.obj, NumberAt(r.obj, YearKeys)), key)
\* A query of separators only is refused, and so are records one of which is no object.
Among(records, query, outcome) ==
    IF NormalizeAssistLabel(query) = <<>> THEN FailedAs("usage")
    ELSE IF \E r \in Range(records) : ~ Is("obj", r) THEN FailedAs("decode")
    ELSE outcome
ResolveAssistInstitution(records, query) ==
    Among(records, query, UniqueAssistMatch([i \in WithId(records, InstitutionKeys) |->
                              InstitutionMatch(records[i], NormalizeAssistLabel(query))]))
ResolveAssistAcademicYear(records, query) ==
    Among(records, query, UniqueAssistMatch([i \in WithId(records, YearKeys) |->
                              YearMatch(records[i], NormalizeAssistLabel(query))]))

-----------------------------------------------------------------------------
(***************************************************************************)
(* The course of a course search.                                          *)
(***************************************************************************)
TextOf(f, names) == LET found == TextsAt(f, names) IN IF found = {} THEN <<>> ELSE CHOOSE s \in found : TRUE
Code(f)          == TextOf(f, <<"prefix", "coursePrefix">>) \o <<" ">> \o TextOf(f, <<"courseNumber", "number">>)
Title(f)         == TextOf(f, <<"courseTitle", "title">>)
AdvisorCourseMatchScore(query, code, title) ==
    LET words == NormalizeAssistLabel(query)
        Names(label) == label # <<>> /\ words = label
    IN  CASE Names(NormalizeAssistLabel(code \o <<" ">> \o title)) -> 3
          [] /\ ~ Names(NormalizeAssistLabel(code \o <<" ">> \o title))
             /\ NormalizeAssistLabel(code) # <<>>
             /\ CompactAdvisorCourseLabel(query) = CompactAdvisorCourseLabel(code) -> 2
          [] OTHER -> IF Names(NormalizeAssistLabel(title)) THEN 1 ELSE 0

CourseKey   == <<"courseIdentifierParentId">>
IsCourse(r) == IsNumber(r.obj, CourseKey) /\ NumberAt(r.obj, CourseKey) > 0
CourseMatch(r, query) ==
    [id |-> NumberAt(r.obj, CourseKey), record |-> r,
     priority |-> AdvisorCourseMatchScore(query, Code(r.obj), Title(r.obj))]
\* Of the best matches, all of one course, the one whose record is least as text.
Least(matches) ==
    CHOOSE i \in Best(matches) : \A j \in Best(matches) : Texts[matches[i].record] <= Texts[matches[j].record]
OnlyCourse(matches) ==
    IF Best(matches) = {} THEN FailedAs("not found")
    ELSE IF \E i, j \in Best(matches) : matches[i].id # matches[j].id THEN FailedAs("ambiguous")
    ELSE ResolvedBy(matches[Least(matches)])
CourseAmong(records, query) ==
    Among(records, query, OnlyCourse([i \in {x \in DOMAIN records : IsCourse(records[x])} |->
                              CourseMatch(records[i], query)]))
ResolveAdvisorCourse(response, query) ==
    IF CourseRecords(response) = Missing THEN FailedAs("decode")
    ELSE CourseAmong(CourseRecords(response).arr, query)

-----------------------------------------------------------------------------
(***************************************************************************)
(* The partner record that publishes agreements to an institution in a     *)
(* year, the first there is.                                               *)
(***************************************************************************)
PartnerKeys == <<"institutionParentId", "institutionId", "receivingInstitutionId", "id">>
PartnerId(f) ==
    LET nested == AssistLookup(f, <<"institution", "receivingInstitution">>)
    IN  IF IsNumber(f, PartnerKeys) \/ ~ Is("obj", nested) THEN AssistLookup(f, PartnerKeys)
        ELSE AssistLookup(nested.obj, <<"id", "institutionId">>)
ReceivingYears(f) ==
    UNION {NumericValues(f[k]) : k \in DOMAIN f \intersect
        {K("receivingYearIds"), K("receivingAcademicYearIds"), K("academicYearIds"), K("receivingYears")}}
\* The first record that decides: a partner for the year, or no object.
FindAssistReceivingPartner(response, receiving, year) ==
    LET records == RecordList(response)
        Partner(r) == PartnerId(r.obj) = Num(receiving) /\ year \in ReceivingYears(r.obj)
        deciding == SelectSeq(records.arr, LAMBDA r : Is("obj", r) => Partner(r))
    IN  CASE records = Missing                        -> FailedAs("decode")
          [] records # Missing /\ deciding = <<>>    -> FailedAs("not found")
          [] OTHER -> IF Is("obj", deciding[1]) THEN [id |-> receiving, record |-> deciding[1]]
                      ELSE FailedAs("decode")
=============================================================================
