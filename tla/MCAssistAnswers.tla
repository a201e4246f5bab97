--------------------------- MODULE MCAssistAnswers ---------------------------
(***************************************************************************)
(* Small reference data for AssistAnswers: names that two records share at *)
(* different strength, codes that only compact alike, documents whose keys *)
(* hold "/" and "~", lists with uneven rows.                               *)
(***************************************************************************)
EXTENDS AssistTrees

F(name, v) == Only(name, v)
T(s)       == Text(s)
MCLowered == (<<"Valley">> :> <<"valley">>) @@ (<<"CHEM">> :> <<"chem">>) @@ (<<"courseTitle">> :> <<"coursetitle">>)
             @@ (<<"courseIdentifierParentId">> :> <<"courseidentifierparentid">>)
MCKebabed == <<"courseTitle">> :> <<"course-title">>
\* 30 stands for the numeral 3.0.
MCFloats  == 30 :> 3
MCSeparators  == {" ", "-", "."}
MCCurrentKeys == {K("name"), K("currentName"), K("displayName")}

\* Institutions.
Named1(s, year)       == Obj(F("name", T(s)) @@ F("fromYear", Num(year)))
Inst(id, code, names) == Obj(F("id", Num(id)) @@ F("code", T(<<code>>)) @@ F("names", names))
Moved   == Inst(1, "mv", Arr(<<Named1(<<"north">>, 1), Named1(<<"Valley">>, 2)>>))
North   == Inst(2, "no", Arr(<<Obj(F("name", T(<<"north">>)) @@ F("isCurrent", True))>>))
Coded1  == Obj(F("institutionParentId", Num(3)) @@ F("code", T(<<"valley">>)) @@ F("currentName", T(<<"coast">>)))
Nested  == Inst(4, "ne", Obj(F("former", Arr(<<T(<<"north">>)>>)) @@ F("name", T(<<"Valley">>))))
NoId    == Obj(F("id", Null) @@ F("code", T(<<"valley">>)))
MCInstitutions == {Arr(<<Moved, North>>), Obj(F("result", Arr(<<North, Coded1, Moved>>))), Arr(<<Moved, Nested, NoId>>),
                   Arr(<<North, North>>), Arr(<<Moved, Num(5)>>), Obj(F("message", T(<<"gone">>)))}

\* Academic years.
August == <<"2024", "-", "08", "-", "01">>
MCDays == (August \o <<"T00">>) :> August
YearRecord(id, fall) == Obj(F("id", Num(id)) @@ F("fallYear", Num(fall)))
Confusing == Obj(F("id", Num(9)) @@ F("code", T(<<"75">>)) @@ F("beginDate", T(August \o <<"T00">>)))
MCYears == {Arr(<<YearRecord(75, 2024), YearRecord(76, 2025)>>), Arr(<<Confusing, YearRecord(75, 2024)>>),
            Arr(<<YearRecord(75, 2024), Null>>), Null}

\* Courses.
Course(id, prefix, number, title, term) ==
    Obj(F("courseIdentifierParentId", Num(id)) @@ F("prefix", T(prefix)) @@ F("courseNumber", T(number))
        @@ F("courseTitle", T(title)) @@ F("termId", Num(term)))
Chem25  == Course(1, <<"CHEM">>, <<"2", "5">>, <<"gen">>, 1)
Again   == Course(1, <<"CHEM">>, <<"2", "5">>, <<"gen">>, 2)
Chem2_5 == Course(2, <<"CHEM", "2">>, <<"5">>, <<"lab">>, 1)
Lab     == Course(2, <<"CHEM">>, <<"2", "5">>, <<"lab">>, 2)
Titled  == Course(3, <<"bio">>, <<"1">>, <<"CHEM", " ", "2", "5">>, 1)
MCSearches == {Arr(<<Chem25, Again>>), Obj(F("items", Arr(<<Titled, Chem25>>))), Obj(F("courses", Arr(<<Chem25, Chem2_5>>))),
               Arr(<<Lab, Chem2_5>>), Arr(<<Chem25, Num(1)>>),
               Arr(<<>>), Obj(F("message", Null))}
MCTexts   == (Chem25 :> 1) @@ (Again :> 2) @@ (Chem2_5 :> 3) @@ (Lab :> 4) @@ (Titled :> 5) @@ (Num(1) :> 6)

\* Rows with uneven keys, and the responses around them.
Plain(id)  == Obj(F("id", Num(id)) @@ F("description", T(<<"d">>)) @@ F("courseTitle", T(<<"t">>)))
Odd        == Obj(F("snippet", Num(1)) @@ F("body", T(<<"b">>)))
Prose      == Obj(F("body", T(<<"p">>)))
Listed     == Arr(<<Plain(1), Plain(2), Odd, Prose>>)
MCSections == {Obj(F("result", Null)), Obj(F("result", Listed)), Listed}
MCPartners == {Arr(<<Obj(F("institutionParentId", Num(2)) @@ F("receivingYearIds", Arr(<<Num(75), Num(76)>>)))>>),
               Obj(F("result", Arr(<<Obj(F("institution", Obj(F("id", Num(2)))) @@ F("receivingYears", Arr(<<Obj(F("id", Num(75)))>>)))>>))),
               Arr(<<Null>>), Arr(<<>>), Null}
MCReads   == {Listed, Obj(F("data", Listed)), Obj(F("data", Listed) @@ F("count", Num(4))), Null,
               Arr(<<Null, Plain(1)>>), Arr(<<Num(30)>>), Obj(F("description", T(<<"d">>))), Obj(F("rate", Num(30))), Obj(F("description", Null) @@ F("id", Num(1))),
               Obj(F("_embedded", Obj(F("rows", Listed))) @@ F("errors", Arr(<<Odd>>))),
               Obj(F("id", Num(1)) @@ F("data", Null) @@ F("rows", Arr(<<>>)))}

\* Agreement documents.
SlashKey == <<"a", "/", "b">> :> Num(1)
TildeKey == <<"~", "1", "b">> :> Num(2)
MCAgreements ==
    {Obj(F("result", d)) : d \in
        {Obj(F("a", Num(1)) @@ SlashKey @@ F("rows", Arr(<<Num(1), Num(2), Num(30)>>))),
         Obj(F("a", Obj(F("b", Num(2)))) @@ TildeKey @@ F("rows", Arr(<<Num(1), Num(4), Num(3)>>))),
         Obj(SlashKey @@ TildeKey @@ F("rows", Coded(Arr(<<Num(1), Obj(F("a", Num(1)))>>), <<>>)) @@ F("description", T(<<"d">>))),
         Obj(<<"a", "/", "b">> :> Obj(SlashKey)),
         Arr(<<Obj(TildeKey), Num(2)>>), Null}} \union {Obj(F("message", Null))}

\* Rows of the mirror.
Scope1 == <<7, 75>>
Scope2 == <<7, 76>>
Row(f, scope) == Obj(f @@ F("_assistScope", ScopeText(scope)) @@ F("_assistInstitutionId", Num(scope[1]))
                       @@ F("_assistAcademicYearId", Num(scope[2])))
Dept(id, parent, name) == F("id", Num(id)) @@ F("parentId", parent) @@ F("name", T(<<name>>)) @@ F("description", T(<<name>>))
MCSnapshots ==
    {<<Row(Dept(1, Num(11), "a"), Scope1), Row(Dept(2, Num(12), "b"), Scope1), Row(Dept(3, Num(11), "c"), Scope2)>>,
     <<Row(Dept(1, Num(11), "b"), Scope1), Row(Dept(4, Null, "a"), Scope2), Row(Dept(5, Num(12), "b"), Scope2)>>,
     <<Row(Dept(1, Num(11), "a"), Scope1), Row(Dept(2, Num(11), "b"), Scope1)>>,
     <<Row(F("name", Null), Scope2)>>}

\* What is asked, and how it is to be printed.
Ask(cmd, from, to, year, course, types) ==
    [cmd |-> cmd, from |-> from, to |-> to, year |-> year, course |-> course, types |-> types]
Valley == <<"Valley">>
NorthName == <<".", "north", "-">>
Fall   == <<"2024", "-", "2025">>
MCAsks ==
    {Ask("resolve", n, <<>>, y, <<>>, <<>>) : n \in {Valley, NorthName, <<"mv">>, <<"-">>},
        y \in {Fall, <<"2024">>, <<"75">>, August}}
    \union {Ask("advisor course", Valley, n, Fall, c, <<>>) :
               n \in {Valley, NorthName}, c \in {<<"chem", " ", "2", "5">>, <<"gen">>, <<"chem", "2", "5", " ", "gen">>}}
    \union {Ask("advisor agreements", <<"mv">>, NorthName, y, <<>>, <<"Major", "Department">>) : y \in {Fall, <<"2025">>}}
    \union {Ask("agreements diff", <<>>, <<>>, <<>>, <<>>, <<>>), Ask("read", <<>>, <<>>, <<>>, <<>>, <<>>)}
    \union {Ask("catalog diff", Scope1, Scope2, <<>>, <<>>, t) : t \in {"departments", "courses", "prefixes"}}
Path(names) == [i \in DOMAIN names |-> K(names[i])]
Flags(select, compact, agent) == [select |-> {Path(p) : p \in select}, compact |-> compact, agent |-> agent]
MCFlagSets ==
    {Flags({}, FALSE, FALSE), Flags({}, TRUE, FALSE), Flags({}, TRUE, TRUE),
     Flags({<<"id">>, <<"description">>}, TRUE, TRUE),
     Flags({<<"data", "course-title">>, <<"course_search", "body">>, <<"transferability", "result", "body">>}, TRUE, TRUE),
     Flags({<<"changed", "path">>, <<"added", "record", "description">>, <<"resolved", "course", "record">>}, TRUE, FALSE)}
=============================================================================
