------------------------------ MODULE JsonTree ------------------------------
(***************************************************************************)
(* JSON answers as trees: the structural diff of two of them, the field    *)
(* selection and compaction that printing applies, and the envelope around *)
(* the result.                                                             *)
(***************************************************************************)
EXTENDS Json

\* The children of an object by key, of an array by index.
Token(i)    == <<ToString(i - 1)>>
Children(v) == IF Is("obj", v) THEN v.obj
               ELSE [t \in {Token(i) : i \in DOMAIN v.arr} |->
                        v.arr[CHOOSE i \in DOMAIN v.arr : Token(i) = t]]
Alike(v, w) == \E kind \in {"obj", "arr"} : Is(kind, v) /\ Is(kind, w)

-----------------------------------------------------------------------------
\* The decoder of a coded string stops after its first value: rest is dropped.
RECURSIVE ExpandAgreementJSONStrings(_)
ExpandAgreementJSONStrings(v) ==
    CASE Is("obj", v)   -> Obj([k \in DOMAIN v.obj |-> ExpandAgreementJSONStrings(v.obj[k])])
      [] Is("arr", v)   -> Arr([i \in DOMAIN v.arr |-> ExpandAgreementJSONStrings(v.arr[i])])
      [] Is("coded", v) -> ExpandAgreementJSONStrings(v.coded)
      [] OTHER          -> v

Replace(s, piece, by) == FlattenSeq([i \in DOMAIN s |-> IF s[i] = piece THEN by ELSE <<s[i]>>])
\* mutant
EscapeSlashFirst(token) == Replace(Replace(token, "/", <<"~", "1">>), "~", <<"~", "0">>)
Escape(token)         == Replace(Replace(token, "~", <<"~", "0">>), "/", <<"~", "1">>)
JoinJSONPointer(parent, token) == parent \o <<"/">> \o Escape(token)

(***************************************************************************)
(* The entries of a diff.  The code visits keys in order; here the entries *)
(* are a set.                                                              *)
(***************************************************************************)
Entry(list, fields) == [list |-> list, row |-> Obj(fields)]
ValueEntry(list, path, v) == Entry(list, Only("path", Text(path)) @@ Only("value", v))
ChangeEntry(path, b, a)   == Entry("changed", Only("path", Text(path)) @@ Only("before", b) @@ Only("after", a))

RECURSIVE DiffJSONValue(_, _, _)
DiffChildren(path, b, a) ==
    {ValueEntry("added",   JoinJSONPointer(path, t), a[t]) : t \in DOMAIN a \ DOMAIN b}
    \union {ValueEntry("removed", JoinJSONPointer(path, t), b[t]) : t \in DOMAIN b \ DOMAIN a}
    \union UNION {DiffJSONValue(JoinJSONPointer(path, t), b[t], a[t]) : t \in DOMAIN a \intersect DOMAIN b}
DiffJSONValue(path, b, a) ==
    IF Alike(b, a) THEN DiffChildren(path, Children(b), Children(a))
    ELSE IF b # a  THEN {ChangeEntry(path, b, a)}
    ELSE {}
DiffJSONTrees(b, a) == DiffJSONValue(<<>>, b, a)

-----------------------------------------------------------------------------
(***************************************************************************)
(* --select: dotted paths, as sequences of lower-case segments.            *)
(***************************************************************************)
EnvelopeMetadataArrayKeys == {K("errors"), K("warnings")}

Heads(paths)      == {Head(p) : p \in paths}
Segment(k, paths) == IF Lower(k) \in Heads(paths) THEN Lower(k) ELSE Kebab(k)
Whole(k, paths)   == <<Segment(k, paths)>> \in paths
Under(k, paths)   == {Tail(p) : p \in {q \in paths : Head(q) = Segment(k, paths)}}

RECURSIVE FilterFieldsRec(_, _)
RECURSIVE ListedIn(_)
ListedIn(f) == \E k \in DOMAIN f \ EnvelopeMetadataArrayKeys :
                  \/ Is("arr", f[k])
                  \/ k = K("_embedded") /\ Is("obj", f[k]) /\ ListedIn(f[k].obj)
RECURSIVE FilterListEnvelopeFields(_, _)
FilterListEnvelopeFields(f, paths) ==
    [k \in DOMAIN f |->
        CASE k \in EnvelopeMetadataArrayKeys -> f[k]
          [] k \notin EnvelopeMetadataArrayKeys /\ Is("arr", f[k]) -> FilterFieldsRec(f[k], paths)
          [] k = K("_embedded") /\ Is("obj", f[k]) ->
                IF ListedIn(f[k].obj) THEN Obj(FilterListEnvelopeFields(f[k].obj, paths)) ELSE f[k]
          [] OTHER -> f[k]]
Matched(f, paths) == {k \in DOMAIN f : Segment(k, paths) \in Heads(paths)}
FilterMatched(f, paths) ==
    [k \in Matched(f, paths) |->
        IF Whole(k, paths) THEN f[k] ELSE FilterFieldsRec(f[k], Under(k, paths))]
\* A null decodes as an array of nothing, and is shown as one.
FilterFieldsRec(v, paths) ==
    CASE Is("null", v) -> Arr(<<>>)
      [] Is("arr", v)  -> Arr([i \in DOMAIN v.arr |-> FilterFieldsRec(v.arr[i], paths)])
      [] Is("obj", v)  -> Obj(IF Matched(v.obj, paths) = {} /\ ListedIn(v.obj)
                              THEN FilterListEnvelopeFields(v.obj, paths)
                              ELSE FilterMatched(v.obj, paths))
      [] OTHER         -> v
FilterFields(v, paths) == IF paths = {} THEN v ELSE FilterFieldsRec(v, paths)

-----------------------------------------------------------------------------
(***************************************************************************)
(* --compact.  The answer is decoded into maps of any, so that every       *)
(* number of it becomes a float64, and is printed from there.              *)
(***************************************************************************)
CompactVerboseObjectFields == {K(k) : k \in {"description", "comments", "attachments"}}
CompactVerboseListFields   == CompactVerboseObjectFields
                              \union {K(k) : k \in {"body", "content", "html", "markdown", "_links", "links"}}
KeepFields == {K(k) : k \in {"id", "name", "title", "identifier", "code", "slug", "key", "status", "state",
    "type", "kind", "priority", "url", "email", "price", "amount", "cost", "fare", "rate", "currency",
    "rating", "score", "count", "language", "locale", "country", "region", "city", "domain",
    "created_at", "updated_at", "createdAt", "updatedAt", "date", "version"}}

RowKeys(r)      == IF Is("obj", r) THEN DOMAIN r.obj ELSE {}
\* Four rows in five, but never all of several.
Threshold(n)    == IF n >= 2 /\ (4 * n + 4) \div 5 > n - 1 THEN n - 1 ELSE (4 * n + 4) \div 5
Holding(k, rows) == Cardinality({i \in DOMAIN rows : k \in RowKeys(rows[i])})
Frequent(rows)  == {k \in UNION {RowKeys(rows[i]) : i \in DOMAIN rows} \ CompactVerboseListFields :
                       Holding(k, rows) >= Threshold(Len(rows))}
CompactRow(r, keep) == IF RowKeys(r) \intersect keep = {} THEN r
                       ELSE Obj(Restrict(r.obj, RowKeys(r) \intersect keep))
CompactRows(rows, keep) == Arr([i \in DOMAIN rows |-> CompactRow(rows[i], keep)])
CompactListFields(rows) == CompactRows(rows, KeepFields \union Frequent(rows))

ObjectArray(v) == Is("arr", v) /\ v.arr # <<>> /\ \A i \in DOMAIN v.arr : Is("obj", v.arr[i])
Stripped(f)    == DOMAIN f \ CompactVerboseObjectFields
RECURSIVE HoldsRows(_)
HoldsRows(f) == \E k \in Stripped(f) \ EnvelopeMetadataArrayKeys :
                   \/ ObjectArray(f[k])
                   \/ k = K("_embedded") /\ Is("obj", f[k]) /\ HoldsRows(f[k].obj)
RECURSIVE CompactObjectFields(_)
CompactValue(k, v) ==
    CASE k \in EnvelopeMetadataArrayKeys -> v
      [] k \notin EnvelopeMetadataArrayKeys /\ ObjectArray(v) -> CompactListFields(v.arr)
      [] k = K("_embedded") /\ Is("obj", v) -> IF HoldsRows(v.obj) THEN CompactObjectFields(v.obj) ELSE v
      [] OTHER -> v
CompactObjectFields(f) == Obj([k \in Stripped(f) |-> CompactValue(k, f[k])])
RECURSIVE AsFloats(_)
AsFloats(v) ==
    CASE Is("num", v) -> Num(Float(v.num))
      [] Is("obj", v) -> Obj([k \in DOMAIN v.obj |-> AsFloats(v.obj[k])])
      [] Is("arr", v) -> Arr([i \in DOMAIN v.arr |-> AsFloats(v.arr[i])])
      [] OTHER        -> v
\* What is neither rows nor an object stays the bytes it was.
CompactFields(v) ==
    CASE Is("null", v) -> Arr(<<>>)
      [] Is("arr", v)  -> IF \A i \in DOMAIN v.arr : Is("obj", v.arr[i]) \/ Is("null", v.arr[i])
                          THEN CompactListFields(AsFloats(v).arr) ELSE v
      [] Is("obj", v)  -> CompactObjectFields(AsFloats(v).obj)
      [] OTHER         -> v

-----------------------------------------------------------------------------
(***************************************************************************)
(* What is printed for an answer under the flags                           *)
(* [select: set of paths, compact, agent].                                 *)
(***************************************************************************)
WrapperKeys == {K(k) : k \in {"results", "data", "items", "nodes", "entries", "records"}}
IsWrapper(v) == Is("obj", v) /\ \E k \in WrapperKeys : DOMAIN v.obj = {k} /\ Is("arr", v.obj[k])
UnwrapSingleKeyArray(v) == IF IsWrapper(v) THEN v.obj[CHOOSE k \in DOMAIN v.obj : TRUE] ELSE v

\* mutant
ProjectedCompactFirst(answer, flags) ==
    LET compacted == IF flags.compact THEN CompactFields(answer) ELSE answer
    IN  FilterFields(compacted, flags.select)
Projected(answer, flags) ==
    CASE flags.select # {} -> FilterFields(answer, flags.select)
      [] flags.select = {} /\ flags.compact -> CompactFields(answer)
      [] OTHER -> answer
Envelope(source, results) == Obj(Only("meta", Obj(Only("source", Text(K(source))))) @@ Only("results", results))
WrapAgentOutput(v, source)    == Envelope(source, IF source = "live" THEN UnwrapSingleKeyArray(v) ELSE v)
WrapWithProvenance(v, source) == Envelope(source, UnwrapSingleKeyArray(v))

\* The commands of their own print through the first, the endpoint reads through the second.
PrintedAnswer(answer, flags, source) ==
    IF flags.agent THEN WrapAgentOutput(Projected(answer, flags), source) ELSE Projected(answer, flags)
PrintedRead(answer, flags, source) == WrapWithProvenance(Projected(answer, flags), source)
=============================================================================
