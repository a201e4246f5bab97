----------------------------- MODULE AssistTrees -----------------------------
(***************************************************************************)
(* The walks of AssistAnswers through whole trees, its operator constants, *)
(* and the properties that speak of what a tree holds at any depth.  They  *)
(* are recursive on the tree.                                              *)
(***************************************************************************)
EXTENDS AssistAnswers, JsonTree

CONSTANT CurrentKeys \* keys of a names object that hold "current" or "display", and "name"

\* The array of records in a response; Missing when it is no record collection.
RECURSIVE AssistRecordList(_)
AssistRecordList(v) ==
    LET Holds(key) == K(key) \in DOMAIN v.obj /\ AssistRecordList(v.obj[K(key)]) # Missing
        held == SelectSeq(<<"result", "results", "data", "items", "value">>, Holds)
    IN  CASE Is("arr", v)                                  -> v
          [] ~ Is("arr", v) /\ ~ Is("obj", v)              -> Missing
          [] Is("obj", v) /\ held # <<>>                   -> AssistRecordList(v.obj[K(held[1])])
          [] OTHER -> IF {K("id"), K("institutionId")} \intersect DOMAIN v.obj # {} THEN Arr(<<v>>) ELSE Missing

RECURSIVE AssistNameTerms(_)
AssistNameTerms(v) ==
    CASE Is("text", v) -> {Term(v.text, 3)}
      [] Is("arr", v)  ->
            LET items == {i \in Range(v.arr) : Is("obj", i) /\ TextsAt(i.obj, NameKeys) # {}}
            IN  {Term(i.text, 3) : i \in {x \in Range(v.arr) : Is("text", x)}}
                \union UNION {ItemTerms(i.obj, LatestYear(items)) : i \in items}
      [] Is("obj", v)  ->
            UNION {LET priority == IF k \in CurrentKeys THEN 3 ELSE 2
                   IN  {[t EXCEPT !.priority = IF Is("text", v.obj[k]) THEN priority ELSE Min({@, priority})]
                            : t \in AssistNameTerms(v.obj[k])} : k \in DOMAIN v.obj}
      [] OTHER -> {}

RECURSIVE AdvisorCourseRecords(_)
AdvisorCourseRecords(v) ==
    LET Holds(key) == K(key) \in DOMAIN v.obj /\ AdvisorCourseRecords(v.obj[K(key)]) # Missing
        held == SelectSeq(<<"result", "results", "data", "items", "courses", "value">>, Holds)
    IN  CASE AssistRecordList(v) # Missing -> AssistRecordList(v)
          [] AssistRecordList(v) = Missing /\ Is("obj", v) ->
                IF held = <<>> THEN Missing ELSE AdvisorCourseRecords(v.obj[K(held[1])])
          [] OTHER -> Missing

RECURSIVE AssistNumericValues(_)
AssistNumericValues(v) ==
    CASE Is("num", v) -> {v.num}
      [] Is("arr", v) -> UNION {AssistNumericValues(x) : x \in Range(v.arr)}
      [] Is("obj", v) ->
            LET full == SelectSeq(<<"id", "academicYearId", "yearId", "value">>,
                                  LAMBDA key : K(key) \in DOMAIN v.obj /\ AssistNumericValues(v.obj[K(key)]) # {})
            IN  IF full = <<>> THEN {} ELSE AssistNumericValues(v.obj[K(full[1])])
      [] OTHER -> {}

-----------------------------------------------------------------------------
(***************************************************************************)
(* Reference: an RFC 6901 pointer read back, and a diff applied.           *)
(***************************************************************************)
RECURSIVE Unescape(_)
Unescape(s) ==
    IF Len(s) < 2 THEN s
    ELSE IF s[1] = "~" /\ s[2] \in {"0", "1"}
         THEN <<IF s[2] = "0" THEN "~" ELSE "/">> \o Unescape(SubSeq(s, 3, Len(s)))
         ELSE <<s[1]>> \o Unescape(Tail(s))
RECURSIVE Tokens(_)
Tokens(pointer) ==
    IF pointer = <<>> THEN <<>>
    ELSE LET ends == {i \in 2..Len(pointer) : pointer[i] = "/"} \union {Len(pointer) + 1}
         IN  <<Unescape(SubSeq(pointer, 2, Min(ends) - 1))>>
             \o Tokens(SubSeq(pointer, Min(ends), Len(pointer)))

\* The entries of three printed lists, each with the place it names.
Places(lists) ==
    UNION {{[list |-> name, at |-> Tokens(r.obj[K("path")].text), row |-> r.obj] : r \in Range(lists[K(name)].arr)}
              : name \in {"added", "removed", "changed"}}
Below(t, entries)      == {[e EXCEPT !.at = Tail(e.at)] : e \in {x \in entries : x.at # <<>> /\ x.at[1] = t}}
Direct(list, entries)  == {e.at[1] : e \in {x \in entries : x.list = list /\ Len(x.at) = 1}}
ValueAt(t, entries)    == (CHOOSE e \in entries : e.list = "added" /\ e.at = <<t>>).row[K("value")]
RECURSIVE Patched(_, _)
PatchedChildren(c, entries) ==
    [t \in (DOMAIN c \ Direct("removed", entries)) \union Direct("added", entries) |->
        IF t \in Direct("added", entries) THEN ValueAt(t, entries) ELSE Patched(c[t], Below(t, entries))]
InOrder(v, children) ==
    IF Is("obj", v) THEN Obj(children)
    ELSE Arr([i \in 1..Cardinality(DOMAIN children) |-> children[Token(i)]])
Patched(v, entries) ==
    CASE entries = {}                               -> v
      [] \E e \in entries : e.at = <<>>             -> (CHOOSE e \in entries : e.at = <<>>).row[K("after")]
      [] OTHER -> InOrder(v, PatchedChildren(Children(v), entries))

\* The same for records by id.
RowsOf(lists, name) == Range(lists[K(name)].arr)
PatchedCatalog(b, lists) ==
    LET gone  == {r.obj[K("id")] : r \in RowsOf(lists, "removed")}
        new   == {r.obj[K("id")] : r \in RowsOf(lists, "added")}
        RowOf(name, id) == (CHOOSE r \in RowsOf(lists, name) : r.obj[K("id")] = id).obj
        other == {r.obj[K("id")] : r \in RowsOf(lists, "changed")}
    IN  [id \in (DOMAIN b \ gone) \union new |->
            CASE id \in new -> RowOf("added", id)[K("record")].obj
              [] id \in other \ new -> Patched(Obj(b[id]), Places(RowOf("changed", id)[K("changes")].obj)).obj
              [] OTHER -> b[id]]

Results == IF ask.cmd = "read" \/ flags.agent THEN out.obj[K("results")] ELSE out

(***************************************************************************)
(* A diff (json_diff.go) rebuilds: its printed pointers and values,        *)
(* applied to the document that was read first, give the one that was read *)
(* second.  Exactly when it is not compacted; under --compact up to the    *)
(* precision of a float64, for the change from 3.0 to 3 is then printed as *)
(* one from 3 to 3.  For agreements up to the expansion of coded strings.  *)
(***************************************************************************)
Kept(v) == IF flags.compact THEN AsFloats(v) ELSE v
KeptRecords(records) == [id \in DOMAIN records |-> Kept(Obj(records[id])).obj]
DiffRebuilds ==
    step = "done" /\ flags.select = {} =>
        /\ ask.cmd = "agreements diff" => Patched(Kept(got.before), Places(Results.obj)) = Kept(got.after)
        /\ ask.cmd = "catalog diff" =>
              PatchedCatalog(KeptRecords(got.before), Results.obj) = KeptRecords(got.after)

(***************************************************************************)
(* What was asked for is what is printed (helpers.go).  With --select,     *)
(* every value that a path reaches in the answer it reaches in the output. *)
(* Without, the output is part of the answer: no list loses or gains a     *)
(* row, no row is emptied, and no value changes, but that --compact may    *)
(* print the numbers as float64s.  An object is emptied only when it held  *)
(* nothing but description, comments and attachments.                      *)
(***************************************************************************)
RECURSIVE Reached(_, _)
Spells(k, segment) == segment \in {Lower(k), Kebab(k)}
Reached(v, path) ==
    CASE Is("arr", v) -> UNION {Reached(x, path) : x \in Range(v.arr)}
      [] Is("obj", v) -> UNION {IF Len(path) = 1 THEN {v.obj[k]} ELSE Reached(v.obj[k], Tail(path))
                                   : k \in {x \in DOMAIN v.obj : Spells(x, Head(path))}}
      [] OTHER -> {}

RECURSIVE PartOf(_, _)
PartOf(w, v) ==
    \/ w = v
    \/ /\ Is("arr", w) /\ Is("arr", v) /\ Len(w.arr) = Len(v.arr)
       /\ \A i \in DOMAIN w.arr : PartOf(w.arr[i], v.arr[i]) /\ (w.arr[i] = Obj(<<>>) => v.arr[i] = w.arr[i])
    \/ /\ Is("obj", w) /\ Is("obj", v) /\ DOMAIN w.obj \subseteq DOMAIN v.obj
       /\ \A k \in DOMAIN w.obj : PartOf(w.obj[k], v.obj[k])
       /\ w.obj = <<>> => DOMAIN v.obj \subseteq CompactVerboseObjectFields

\* The results, or what they were before their only wrapper was taken off.
AsRead    == {composed} \union (IF flags.compact THEN {AsFloats(composed)} ELSE {})
Rewrapped == {Results} \union {Obj([x \in {k} |-> Results]) : k \in WrapperKeys}
AnswerSurvives ==
    step = "done" /\ composed # Null =>
        IF flags.select = {} THEN \E r \in Rewrapped, read \in AsRead : PartOf(r, read)
        ELSE \E r \in Rewrapped : \A path \in flags.select : Reached(r, path) = Reached(composed, path)
=============================================================================
