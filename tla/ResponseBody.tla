---------------------------- MODULE ResponseBody ----------------------------
(***************************************************************************)
(* What the program takes a response body for.  Four pieces of code read   *)
(* the same bodies: the page loop of sync, the write-through of a live     *)
(* read, the page walker of --all, and the store, which finds the key of   *)
(* each record.  Every one of them has its own list of envelope keys and   *)
(* its own rules, and their comments ask them to agree.                    *)
(*                                                                         *)
(* A JSON value is a record with one field, named for its kind:            *)
(*   [null |-> 0], [bool |-> b], [num |-> n], [str |-> s],                 *)
(*   [url |-> c] (a string that is a link carrying the cursor c),          *)
(*   [arr |-> sequence], [obj |-> function from keys to values],           *)
(* and [text |-> 0] is a body that is no JSON.  Keys stand for the class   *)
(* the code's tables put them in; casings other than "id" / "Id" are left  *)
(* out.                                                                    *)
(***************************************************************************)
EXTENDS Integers, Sequences, FiniteSets, SequencesExt, FiniteSetsExt, TLC

None == ""   \* no key, no id, no text

Is(kind, v) == kind \in DOMAIN v
Null == [null |-> 0]

\* json.Unmarshal into a slice or a map also accepts null, and leaves it empty.
IsSlice(v)   == Is("arr", v) \/ Is("null", v)
IsMap(v)     == Is("obj", v) \/ Is("null", v)
Elements(v)  == IF Is("arr", v) THEN v.arr ELSE <<>>
Fields(v)    == IF Is("obj", v) THEN v.obj ELSE <<>>
Text(v)      == IF Is("str", v) THEN v.str ELSE None

FirstOr(s, default) == IF s = <<>> THEN default ELSE Head(s)
Either(a, b)        == IF a # <<>> THEN a ELSE b

\* The element of s at the first of the positions at.
FirstAt(s, at, default) == IF at = {} THEN default ELSE s[Min(at)]

\* The first of keys at which object o has a value that satisfies P.
FirstKey(keys, o, P(_, _)) ==
    FirstAt(keys, {i \in DOMAIN keys : keys[i] \in DOMAIN o /\ P(keys[i], o[keys[i]])}, None)
ElementsAt(o, k)           == IF k = None THEN <<>> ELSE Elements(o[k])

(***************************************************************************)
(* Keys.                                                                   *)
(***************************************************************************)
PageItemKeys       == <<"data", "results", "items", "records">>
DataEnvelopeKeys   == <<"data", "result">>
MetadataArrayKeys  == {"errors"}
\* pageEnvelopeMetadataKeys; it names only some of the list wrappers.
EnvelopeMetadata   == {"data", "results", "items", "next_cursor", "has_more", "total",
                       "success", "status", "errors", "meta", "links", "next"}
\* listEnvelopeMetadataKeys of the write-through.
ListMetadata       == EnvelopeMetadata \union {"records"}
WrapperKeys        == PageItemKeys
PaginatedKeys      == <<"data", "items", "results">>

(***************************************************************************)
(* The items of a page, as sync sees them.                                 *)
(***************************************************************************)
ItemsArray(v)  == Elements(v) # <<>>
ObjectArray(v) == ItemsArray(v) /\ IsMap(Elements(v)[1])

\* The items found under a known key, or <<>>.
ItemsByKnownKeys(o) ==
    ElementsAt(o, FirstKey(PageItemKeys, o,
                           LAMBDA key, v : IF key = "items" THEN ItemsArray(v) ELSE ObjectArray(v)))

\* mutant: an empty array counts as a rival
SingleArrayOfAny(o) ==
    LET arrays == {k \in DOMAIN o \ MetadataArrayKeys : Is("arr", o[k])}
    IN  IF Cardinality(arrays) = 1 THEN Elements(o[CHOOSE k \in arrays : TRUE]) ELSE <<>>
SingleArraySibling(o) ==
    LET arrays == {k \in DOMAIN o \ MetadataArrayKeys : ObjectArray(o[k])}
    IN  IF Cardinality(arrays) = 1 THEN Elements(o[CHOOSE k \in arrays : TRUE]) ELSE <<>>

ItemsFromKnownKeysOnly(o) == ItemsByKnownKeys(o)   \* mutant: the sibling fallback is dropped
ItemsFromEnvelope(o) == Either(ItemsByKnownKeys(o), SingleArraySibling(o))

(***************************************************************************)
(* Cursors.  A link may be a string or an object with an href.             *)
(***************************************************************************)
LinkCursor(v) ==
    CASE Is("url", v) -> v.url
      [] Is("obj", v) /\ "href" \in DOMAIN v.obj /\ Is("url", v.obj["href"]) -> v.obj["href"].url
      [] OTHER -> None

TextAt(o, k)   == IF k = None THEN None ELSE Text(o[k])
CursorInMap(o) == TextAt(o, FirstKey(<<"next_cursor", "after">>, o, LAMBDA key, v : Text(v) # None))

CursorOf(o) ==
    LET links == IF "links" \in DOMAIN o /\ "next" \in DOMAIN Fields(o["links"])
                 THEN LinkCursor(Fields(o["links"])["next"]) ELSE None
        wrapped == IF "meta" \in DOMAIN o THEN CursorInMap(Fields(o["meta"])) ELSE None
        topURL == IF "next" \in DOMAIN o /\ Is("url", o["next"]) THEN o["next"].url ELSE None
        tried == <<links, CursorInMap(o), wrapped, topURL>>
    IN  FirstAt(tried, {i \in DOMAIN tried : tried[i] # None}, None)

\* A null has_more unmarshals into FALSE.
ExplicitMore(o) == "has_more" \in DOMAIN o /\ (Is("bool", o["has_more"]) \/ Is("null", o["has_more"]))
SaysMore(o)     == ExplicitMore(o) /\ o["has_more"] = [bool |-> TRUE]

PagingAt(cursor, o) == [cursor |-> cursor, more |-> SaysMore(o) \/ cursor # None]
Pagination(o)       == PagingAt(CursorOf(o), o)

Combined(inner, outer) ==
    [cursor |-> IF inner.cursor # None THEN inner.cursor ELSE outer.cursor,
     more   |-> inner.more \/ outer.more]

PageOf(items, paging) == [items |-> items, cursor |-> paging.cursor, more |-> paging.more]
NoPaging == [cursor |-> None, more |-> FALSE]
NoPage   == PageOf(<<>>, NoPaging)

\* The candidates in the order they are tried; the first with items is the page.
AtResponsePath(o, path) ==
    IF path \notin DOMAIN o THEN NoPage
    ELSE IF ItemsArray(o[path]) THEN PageOf(Elements(o[path]), Pagination(o))
    ELSE PageOf(ItemsFromEnvelope(Fields(o[path])),
                Combined(Pagination(Fields(o[path])), Pagination(o)))

InDataEnvelope(o, key) ==
    IF key \notin DOMAIN o THEN NoPage
    ELSE PageOf(ItemsFromEnvelope(Fields(o[key])),
                Combined(Pagination(Fields(o[key])), Pagination(o)))

Embedded(o) ==
    IF "_embedded" \notin DOMAIN o THEN NoPage
    ELSE PageOf(ItemsFromEnvelope(Fields(o["_embedded"])), Pagination(o))

ExtractPageItems(body, paths) ==
    IF IsSlice(body) THEN PageOf(Elements(body), NoPaging)
    ELSE LET o == Fields(body)
             tried == [i \in 1..Len(paths) |-> AtResponsePath(o, paths[i])]
                      \o <<PageOf(ItemsByKnownKeys(o), Pagination(o))>>
                      \o [i \in 1..Len(DataEnvelopeKeys) |-> InDataEnvelope(o, DataEnvelopeKeys[i])]
                      \o <<Embedded(o), PageOf(SingleArraySibling(o), Pagination(o))>>
         IN  FirstAt(tried, {i \in DOMAIN tried : tried[i].items # <<>>}, NoPage)

(***************************************************************************)
(* A page without items: empty, a failure, or a document.                  *)
(***************************************************************************)
IsZeroCount(k, v)     == k = "total" /\ v = [num |-> 0]
NullItemCandidate(k)  == k \in ToSet(PageItemKeys) \/ k \notin EnvelopeMetadata

NullArrayWithZeroCount(o) ==
    LET counts == {k \in DOMAIN o : IsZeroCount(k, o[k])}
        nulls  == {k \in DOMAIN o \ counts : Is("null", o[k]) /\ NullItemCandidate(k)}
    IN  /\ counts # {} /\ Cardinality(nulls) = 1
        /\ DOMAIN o \subseteq counts \union nulls \union EnvelopeMetadata

OneEmptyArray(o) == Cardinality({k \in DOMAIN o : o[k] = [arr |-> <<>>]}) = 1

\* The first wrapper holding an array that is empty or starts with an object decides.
IsEmptyPageEnvelope(o) ==
    LET k == FirstKey(PageItemKeys, o, LAMBDA key, v :
                 Is("arr", v) /\ (Elements(v) = <<>> \/ ObjectArray(v)))
    IN  ElementsAt(o, k) = <<>> /\ (k # None \/ NullArrayWithZeroCount(o) \/ OneEmptyArray(o))

\* "success": null reads as false, "status" counts only where success does not parse.
EnvelopeReportsFailure(o) ==
    IF "success" \in DOMAIN o /\ (Is("bool", o["success"]) \/ Is("null", o["success"]))
    THEN o["success"] # [bool |-> TRUE]
    ELSE "status" \in DOMAIN o /\ Text(o["status"]) = "error"

\* What the value under an envelope key says: "empty", "items" (not empty), or nothing.
EnvelopeVerdict(o, k, arrays) ==
    CASE k \notin DOMAIN o -> None
      [] k \in DOMAIN o /\ Is("null", o[k]) -> IF EnvelopeReportsFailure(o) THEN "empty" ELSE None
      [] k \in DOMAIN o /\ Is("arr", o[k]) /\ arrays -> IF Elements(o[k]) = <<>> THEN "empty" ELSE "items"
      [] OTHER -> IF Is("obj", o[k]) /\ IsEmptyPageEnvelope(Fields(o[k])) THEN "empty" ELSE None

IsEmptyPageResponse(body, paths) ==
    IF Is("arr", body) THEN Elements(body) = <<>>
    ELSE IF ~ IsMap(body) THEN FALSE
    ELSE LET o == Fields(body)
             said == [i \in 1..Len(paths) |-> EnvelopeVerdict(o, paths[i], TRUE)]
                     \o [i \in 1..Len(DataEnvelopeKeys) |-> EnvelopeVerdict(o, DataEnvelopeKeys[i], FALSE)]
         IN  IsEmptyPageEnvelope(o) \/ FirstAt(said, {i \in DOMAIN said : said[i] # None}, None) = "empty"

IsDryRunResponse(body) ==
    Is("obj", body) /\ DOMAIN body.obj = {"dry_run"} /\ body.obj["dry_run"] = [bool |-> TRUE]

(***************************************************************************)
(* The key of a record.  courses declare courseIdentifierParentId, the     *)
(* other resources id or nothing; courses are stored per scope.            *)
(***************************************************************************)
Declared(resource) == CASE resource = "courses" -> <<"courseIdentifierParentId">>
                        [] resource = "institutions" -> <<"id">>
                        [] OTHER -> <<>>
GenericIDFields == <<"id", "name">>
SuffixField(resource) == IF resource = "courses" THEN "courseId" ELSE "institutionId"
ScopedResources == {"courses"}

\* A field under its own name or its .NET spelling; the first present counts, even if null.
LookupFieldValue(o, k) ==
    LET spelled == FirstKey(IF k = "id" THEN <<"id", "Id">> ELSE <<k>>, o, LAMBDA key, v : TRUE)
    IN  IF spelled = None THEN Null ELSE o[spelled]

IsScalar(v) == Is("num", v) \/ Is("str", v) \/ Is("bool", v) \/ Is("url", v)

\* Objects and arrays are rendered as JSON text, so they too can be a key.
ResourceIDString(v) ==
    CASE Is("null", v) -> None
      [] Is("str", v)  -> v.str
      [] Is("num", v)  -> ToString(v.num)
      [] OTHER         -> "json"

FirstID(keys, o) ==
    LET ids == [i \in DOMAIN keys |-> ResourceIDString(LookupFieldValue(o, keys[i]))]
    IN  FirstAt(ids, {i \in DOMAIN keys : ids[i] # None}, None)

SuffixID(resource, o) ==
    LET k == SuffixField(resource)
    IN  IF k \in DOMAIN o /\ IsScalar(o[k]) THEN ResourceIDString(o[k]) ELSE None

IDOr(id, fallback) == IF id # None THEN id ELSE fallback

\* The store's rule, and sync's copy of it.
ExtractResourceID(resource, o) ==
    IDOr(FirstID(Declared(resource) \o GenericIDFields, o), SuffixID(resource, o))

ExtractIDWithoutSuffix(resource, o) == FirstID(Declared(resource) \o GenericIDFields, o)   \* mutant
ExtractID(resource, o) ==
    IDOr(FirstID(Declared(resource) \o GenericIDFields, o), SuffixID(resource, o))

\* upsertSingleObject stores through the typed upserts, which have a rule of their own.
ExtractObjectID(o) ==
    LET k == FirstKey(<<"id", "Id", "name">>, o, LAMBDA key, v : TRUE)
    IN  IF k = None THEN None ELSE ResourceIDString(o[k])

\* An object whose only nested object has a key of its own is unwrapped to it.
UnwrapIDBearingEnvelopeItem(resource, o) ==
    LET objects == {k \in DOMAIN o : Is("obj", o[k])}
        keyed   == {k \in objects : ExtractResourceID(resource, Fields(o[k])) # None}
    IN  IF Cardinality(objects) = 1 /\ keyed # {} THEN Fields(o[CHOOSE k \in keyed : TRUE]) ELSE o

ResourceStorageID(resource, id, o) ==
    [id |-> id, scope |-> IF resource \in ScopedResources
                          THEN ResourceIDString(LookupFieldValue(o, "_assistScope")) ELSE None]

(***************************************************************************)
(* Rows: what a batch leaves in the store, keyed as the store keys it.     *)
(***************************************************************************)
StoredAs(resource, o) == ResourceStorageID(resource, ExtractResourceID(resource, o), o)

RowOf(resource, o) ==
    StoredAs(resource, IF ExtractResourceID(resource, o) # None THEN o
                       ELSE UnwrapIDBearingEnvelopeItem(resource, o))

UpsertBatch(resource, items) ==
    {r \in {RowOf(resource, Fields(items[i])) : i \in {j \in DOMAIN items : IsMap(items[j])}} : r.id # None}

Put(o, key, v) == [k \in DOMAIN o \union {key} |-> IF k = key THEN v ELSE o[k]]

AnnotateAssistSyncItems(resource, items, scope) ==
    IF resource \notin ScopedResources \/ scope = None THEN items
    ELSE [i \in DOMAIN items |->
             IF Is("obj", items[i])
             THEN [obj |-> Put(Fields(items[i]), "_assistScope", [str |-> scope])]
             ELSE items[i]]

\* UpsertCourses and the other typed upserts: a record without a key is an error.
UpsertTyped(resource, o) ==
    LET id == ExtractObjectID(o)
    IN  [ok |-> id # None, rows |-> IF id = None THEN {} ELSE {ResourceStorageID(resource, id, o)}]

\* A document: through the typed upsert, or raw under the resource's name if it is no object.
UpsertSingleObject(resource, body) ==
    IF IsMap(body) THEN UpsertTyped(resource, Fields(body))
    ELSE [ok |-> TRUE, rows |-> {[id |-> resource, scope |-> None]}]

(***************************************************************************)
(* One unpaginated resource as syncResource takes it from a body: the rows *)
(* it stores, the ids it will spare when pruning, and whether it counts as *)
(* completely enumerated.                                                  *)
(***************************************************************************)
Outcome(end, rows, seen, complete) ==
    [end |-> end, rows |-> rows, seen |-> seen, complete |-> complete]

TakeItems(resource, scope, items) ==
    Outcome("items", UpsertBatch(resource, items),
            IF scope = None THEN {}
            ELSE {ExtractID(resource, Fields(items[i])) : i \in {j \in DOMAIN items : IsMap(items[j])}} \ {None},
            TRUE)

TakeDocument(one) == IF one.ok THEN Outcome("single", one.rows, {}, TRUE) ELSE Outcome("error", {}, {}, FALSE)

TakePage(resource, scope, body, paths, items) ==
    CASE IsDryRunResponse(body) -> Outcome("dry", {}, {}, FALSE)
      [] ~ IsDryRunResponse(body) /\ items # <<>> ->
             TakeItems(resource, scope, AnnotateAssistSyncItems(resource, items, scope))
      [] Is("text", body) -> Outcome("text", {}, {}, FALSE)
      [] OTHER -> IF IsEmptyPageResponse(body, paths) THEN Outcome("empty", {}, {}, TRUE)
                  ELSE TakeDocument(UpsertSingleObject(resource, body))

SyncBody(resource, scope, body, paths) ==
    TakePage(resource, scope, body, paths, ExtractPageItems(body, paths).items)

(***************************************************************************)
(* The write-through of a live read.                                       *)
(***************************************************************************)
WrapperItems(o, empties) ==
    FirstKey(WrapperKeys, o, LAMBDA key, v : Is("arr", v) /\ (empties \/ Elements(v) # <<>>))

\* Every other key must be metadata or a list; one list must hold objects.
OnlySibling(o, empties) ==
    LET others == DOMAIN o \ ListMetadata
        lists  == {k \in others : Is("arr", o[k]) /\ (empties \/ Elements(o[k]) # <<>>)}
        usable == {k \in lists : Elements(o[k]) = <<>> \/ ObjectArray(o[k])}
    IN  IF others = lists /\ Cardinality(usable) = 1 THEN CHOOSE k \in usable : TRUE ELSE None

ListIn(o, empties) == IDOr(WrapperItems(o, empties), OnlySibling(o, empties))

\* A non-empty list, or a list inside an envelope key, even an empty one: <<items>>, or <<>>.
ListAt(o, k)   == IF k = None THEN <<>> ELSE <<Elements(o[k])>>
NestedList(o)  == LET k == FirstKey(DataEnvelopeKeys, o, LAMBDA key, v : ListIn(Fields(v), TRUE) # None)
                  IN  IF k = None THEN <<>> ELSE ListAt(Fields(o[k]), ListIn(Fields(o[k]), TRUE))
WriteThroughListOfWrappers(o) == Either(ListAt(o, WrapperItems(o, FALSE)), NestedList(o))   \* mutant
WriteThroughList(o) ==
    Either(ListAt(o, WrapperItems(o, FALSE)), Either(NestedList(o), ListAt(o, OnlySibling(o, FALSE))))

LooksLikeListEnvelope(o) ==
    (\E k \in ToSet(WrapperKeys) \intersect DOMAIN o : Is("arr", o[k])) /\ DOMAIN o \subseteq ListMetadata

WriteThroughItems(body) ==
    IF Elements(body) # <<>> THEN Elements(body)
    ELSE IF Fields(body) = <<>> THEN <<>>
    ELSE FirstOr(WriteThroughList(Fields(body)),
                 IF LooksLikeListEnvelope(Fields(body)) THEN <<>> ELSE <<body>>)

WriteThrough(resource, body) == UpsertBatch(resource, WriteThroughItems(body))

(***************************************************************************)
(* The items of a page, as the walker of --all sees them.                  *)
(***************************************************************************)
ExtractPaginatedItems(o) ==
    LET k == FirstKey(PaginatedKeys, o, LAMBDA key, v : IsSlice(v))
    IN  IF k # None THEN Elements(o[k]) ELSE SingleArraySibling(o)

PaginatedItems(body) == IF IsSlice(body) THEN Elements(body) ELSE ExtractPaginatedItems(Fields(body))
=============================================================================
