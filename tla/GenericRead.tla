----------------------------- MODULE GenericRead -----------------------------
(***************************************************************************)
(* The local mirror as the generic reads and sync fill it from the same    *)
(* endpoints, and the answers a reader gets: live, or from the mirror when *)
(* the network is gone.  Commands interleave; each is one step, because    *)
(* each stores its rows in one transaction.  The paged reader, which takes *)
(* one request per page, walks beside them.                                *)
(***************************************************************************)
EXTENDS ResponseBody

CONSTANTS
    Bodies,      \* the bodies the API may send to the first command
    LaterBodies, \* and to the ones after it
    Scopes,      \* institution:year pairs that sync is asked for
    MaxCommands, \* commands in a behaviour
    Paging,      \* paginators: [type, size, cap, by, items] records, see Walk
    MaxPages     \* paginatedGetMaxPages

\* The commands that read through resolveRead, by the kind of their endpoint.
Commands == {[resource |-> "institutions", list |-> TRUE,  path |-> None,       id |-> "institutions"],
             [resource |-> "agreements",   list |-> FALSE, path |-> "result", id |-> "1"]}
ScopeOf(resource) == IF resource \in ScopedResources THEN Scopes ELSE {None}
DataSources == {"auto", "live", "local"}

VARIABLES
    store,       \* rows of the mirror: [type, id, scope]
    answer,      \* what the last command told its caller
    shown,       \* history: the records that auto reads of a list have shown, where the store took them
    batch,       \* history: the body of the last sync, and what it stored, pruned and concluded
    commands,    \* commands run so far
    walk         \* the paged reader

vars == <<store, answer, shown, batch, commands, walk>>

Typed(resource, rows) == {[type |-> resource, id |-> r.id, scope |-> r.scope] : r \in rows}
Stored(resource)      == {r \in store : r.type = resource}
NoAnswer == [source |-> "none", reason |-> None, resource |-> None, rows |-> {}]
Failed   == [NoAnswer EXCEPT !.source = "error"]
NoBatch  == [resource |-> None, body |-> Null, stored |-> {}, pruned |-> {}, end |-> None]
Idle     == [p |-> None, at |-> 0, pages |-> 0, got |-> <<>>, end |-> "idle"]

(***************************************************************************)
(* The reference for list bodies.  A list body is an array, or an object   *)
(* whose only other keys are metadata, alone or alone inside an envelope   *)
(* key: its one list is what it offers, whatever it is called.             *)
(***************************************************************************)
ListsOf(o)       == {k \in DOMAIN o \ MetadataArrayKeys : Is("arr", o[k])}
PlainEnvelope(o) == /\ Cardinality(ListsOf(o)) = 1
                    /\ DOMAIN o \ ListsOf(o) \subseteq EnvelopeMetadata \ ToSet(PageItemKeys)
WrappedIn(b)     == {k \in ToSet(DataEnvelopeKeys) :
                        DOMAIN Fields(b) = {k} /\ PlainEnvelope(Fields(Fields(b)[k]))}
IsListBody(b)    == Is("arr", b) \/ PlainEnvelope(Fields(b)) \/ WrappedIn(b) # {}
TheList(o)       == Elements(o[CHOOSE k \in ListsOf(o) : TRUE])
Offered(b)       == IF Is("arr", b) THEN Elements(b)
                    ELSE IF PlainEnvelope(Fields(b)) THEN TheList(Fields(b))
                    ELSE TheList(Fields(Fields(b)[CHOOSE k \in WrappedIn(b) : TRUE]))

\* Where a body holds lists of records: in the body itself, or in an object under an envelope key.
RecordLists(o)  == {k \in DOMAIN o \ MetadataArrayKeys : Elements(o[k]) # <<>>}
EnvelopesOf(b)  == DOMAIN Fields(b) \intersect (ToSet(DataEnvelopeKeys) \union {"_embedded"})
HeldBy(b)       == ({None} \X RecordLists(Fields(b)))
                   \union UNION {{w} \X RecordLists(Fields(Fields(b)[w])) : w \in EnvelopesOf(b)}

(***************************************************************************)
(* Live answers.                                                           *)
(***************************************************************************)
\* applyResponsePath: the value at the path, or the whole body when nothing is there.
ApplyResponsePath(body, path) ==
    IF path \in DOMAIN Fields(body) THEN Fields(body)[path] ELSE body

Sent  == IF commands = 0 THEN Bodies ELSE LaterBodies
Begin == walk.end = "idle" /\ commands < MaxCommands /\ commands' = commands + 1

\* A 200 reply.  Only an auto read writes it through to the mirror, and it shows the
\* reply all the same if the store cannot be opened or its transaction fails.
LiveRead(c, source, body, cached) ==
    LET data == ApplyResponsePath(body, c.path)
        rows == Typed(c.resource, WriteThrough(c.resource, data))
    IN  /\ Begin
        /\ source # "local"
        /\ cached => source = "auto"
        /\ IF Is("text", body)
           THEN answer' = Failed /\ UNCHANGED <<store, shown>>
           ELSE /\ answer' = [source |-> "live", reason |-> None, resource |-> c.resource, rows |-> {}]
                /\ store' = IF cached THEN store \union rows ELSE store
                /\ shown' = IF cached /\ c.list /\ IsListBody(data)
                            THEN shown \union Typed(c.resource, UpsertBatch(c.resource, Offered(data)))
                            ELSE shown
        /\ UNCHANGED <<batch, walk>>

\* resolveLocal: every row of the resource, or the one row named by the path's last segment.
ResolveLocal(c, reason) ==
    LET found == IF c.list THEN Stored(c.resource) ELSE {r \in Stored(c.resource) : r.id = c.id}
    IN  [source |-> IF found = {} THEN "no_data" ELSE "local",
         reason |-> reason, resource |-> c.resource, rows |-> found]

LocalRead(c) ==
    /\ Begin
    /\ answer' = ResolveLocal(c, "user_requested")
    /\ UNCHANGED <<store, shown, batch, walk>>

\* Only an unreachable API is a reason to answer from the mirror, and only in auto mode.
FailedRead(c, source, unreachable) ==
    /\ Begin
    /\ source # "local"
    /\ answer' = IF source = "auto" /\ unreachable THEN ResolveLocal(c, "api_unreachable") ELSE Failed
    /\ UNCHANGED <<store, shown, batch, walk>>

(***************************************************************************)
(* sync of one unpaginated resource, with --full or without.  A reconcile  *)
(* that fails is a warning: it leaves the rows of a run without --full.    *)
(***************************************************************************)
PathsOf(resource) == IF resource = "agreements" THEN <<"result">> ELSE <<>>

Sync(resource, scope, body, full) ==
    LET out    == SyncBody(resource, scope, body, PathsOf(resource))
        rows   == Typed(resource, out.rows)
        pruned == IF full /\ scope # None /\ out.complete
                  THEN {r \in store \union rows : r.type = resource /\ r.scope = scope /\ r.id \notin out.seen}
                  ELSE {}
    IN  /\ Begin
        /\ store' = (store \union rows) \ pruned
        /\ batch' = [resource |-> resource, body |-> body, stored |-> rows, pruned |-> pruned, end |-> out.end]
        /\ answer' = NoAnswer
        /\ UNCHANGED <<shown, walk>>

\* The batch, or the single document, is not stored: the resource ends in an error.
SyncFails(resource, scope, body) ==
    /\ Begin
    /\ SyncBody(resource, scope, body, PathsOf(resource)).end \in {"items", "single"}
    /\ answer' = Failed
    /\ batch' = NoBatch
    /\ UNCHANGED <<store, shown, walk>>

(***************************************************************************)
(* The paged reader.  A paginator p is a record:                           *)
(*   all   whether --all asks for every page                               *)
(*   type  "cursor", "page" or "offset"                                    *)
(*   size  the page size it asks for                                       *)
(*   cap   the most items the server sends in a page                       *)
(*   by    the signal the endpoint declares: "cursor", "more" or "none"    *)
(*   key   where the page holds its items, None for a bare array           *)
(*   items how many items the collection has                               *)
(***************************************************************************)
StartWalk(p) ==
    /\ walk.end = "idle" /\ commands = 0
    /\ walk' = [p |-> p, at |-> IF p.type = "page" THEN 1 ELSE 0, pages |-> 0, got |-> <<>>, end |-> "walking"]
    /\ UNCHANGED <<store, answer, shown, batch, commands>>

\* The server's page at the walker's position, and whether items follow it.
Item(i)       == [obj |-> [id |-> [num |-> i]]]
PageSize(p)   == IF p.size < p.cap THEN p.size ELSE p.cap
FirstItem(w)  == IF w.p.type = "page" THEN (w.at - 1) * PageSize(w.p) ELSE w.at
MoreFollow(w) == FirstItem(w) + PageSize(w.p) < w.p.items
ItemsServed(w) ==
    LET last == FirstItem(w) + PageSize(w.p)
    IN  [i \in 1..((IF last < w.p.items THEN last ELSE w.p.items) - FirstItem(w)) |-> Item(FirstItem(w) + i)]
ServedPage(w) ==
    IF w.p.key = None THEN [arr |-> ItemsServed(w)]
    ELSE [obj |-> [k \in {w.p.key, "errors"} |-> [arr |-> IF k = w.p.key THEN ItemsServed(w) ELSE <<>>]]]

\* nextClientSidePaginationCursor: an opaque cursor cannot be advanced by the client.
ClientSide(w) == CASE w.p.type = "page" -> w.at + 1 [] w.p.type = "offset" -> w.at + w.p.size [] OTHER -> -1

\* nextFullPageOffsetCursor: without a signal a full page means there may be another.
FullPageOrMore(w, got) == IF got # 0 /\ got > w.p.size THEN ClientSide(w) ELSE -1   \* mutant
FullPage(w, got) == IF got # 0 /\ got >= w.p.size THEN ClientSide(w) ELSE -1

\* The position after a page, or -1 when the walk is over.
NextPosition(w, got) ==
    CASE ~ w.p.all -> -1
      [] w.p.all /\ w.p.by = "cursor" -> IF ~ MoreFollow(w) THEN -1
                                        ELSE IF w.p.type = "page" THEN w.at + 1 ELSE w.at + PageSize(w.p)
      [] w.p.all /\ w.p.by = "more"   -> IF MoreFollow(w) THEN ClientSide(w) ELSE -1
      [] OTHER -> FullPage(w, got)

\* A reader that stops before the collection's end says so, where the endpoint has a signal.
EndOf(w, next) ==
    CASE next # -1 -> IF w.pages + 1 >= MaxPages THEN "warned" ELSE "walking"
      [] next = -1 /\ w.p.by # "none" -> IF MoreFollow(w) THEN "warned" ELSE "complete"
      [] OTHER -> IF w.p.all /\ w.p.type = "cursor" /\ w.pages = 0 THEN "warned" ELSE "complete"

GetPage ==
    LET page == PaginatedItems(ServedPage(walk))
        next == NextPosition(walk, Len(page))
    IN  /\ walk.end = "walking"
        /\ walk' = [walk EXCEPT !.at = next, !.pages = @ + 1, !.got = @ \o page, !.end = EndOf(walk, next)]
        /\ UNCHANGED <<store, answer, shown, batch, commands>>

\* Any page that fails discards the pages before it.
GetPageFails ==
    /\ walk.end = "walking"
    /\ walk' = [walk EXCEPT !.got = <<>>, !.end = "error"]
    /\ UNCHANGED <<store, answer, shown, batch, commands>>

-----------------------------------------------------------------------------
\* What ASSIST sends: JSON, where a list in an object is empty or begins with an object, and stands under
\* a key that is neither metadata nor a key field; sync's own annotation is in no record.
Value(v)   == \E kind \in {"null", "bool", "num", "str", "url", "arr", "obj", "text"} : DOMAIN v = {kind}
Regular(o) ==
    /\ IsFiniteSet(DOMAIN o) /\ None \notin DOMAIN o /\ \A k \in DOMAIN o : Value(o[k])
    /\ \A k \in ListsOf(o) :
        /\ k \notin (EnvelopeMetadata \ ToSet(PageItemKeys)) \union {"id", "Id", "name"}
        /\ o[k] = [arr |-> <<>>] \/ ObjectArray(o[k])
Unannotated(o) == "_assistScope" \notin DOMAIN o

ASSUME BodiesAssumption ==
    \A b \in Bodies \union LaterBodies :
        /\ Value(b) /\ Regular(Fields(b)) /\ Unannotated(Fields(b))
        /\ \A k \in DOMAIN Fields(b) : Regular(Fields(Fields(b)[k]))
        /\ \A paths \in {<<>>, <<"result">>} : \A x \in ToSet(ExtractPageItems(b, paths).items) :
              \A k \in DOMAIN Fields(x) : Unannotated(Fields(Fields(x)[k]))

\* A bare array has no room for a signal.
ASSUME PagingAssumption ==
    \A p \in Paging :
        /\ p.all \in BOOLEAN /\ p.type \in {"cursor", "page", "offset"} /\ p.by \in {"cursor", "more", "none"}
        /\ {p.size, p.cap} \subseteq Nat \ {0} /\ p.items \in Nat
        /\ p.key # "errors" /\ (p.key = None => p.by = "none")

Init ==
    /\ store = {} /\ answer = NoAnswer /\ shown = {} /\ batch = NoBatch
    /\ commands = 0 /\ walk = Idle

Read ==
    \E c \in Commands :
        \/ \E source \in DataSources, body \in Sent, cached \in BOOLEAN : LiveRead(c, source, body, cached)
        \/ \E source \in DataSources, unreachable \in BOOLEAN : FailedRead(c, source, unreachable)
        \/ LocalRead(c)

SyncResource ==
    \E resource \in {"courses", "institutions", "agreements"}, body \in Sent, full \in BOOLEAN :
        \E scope \in ScopeOf(resource) : Sync(resource, scope, body, full) \/ SyncFails(resource, scope, body)

Walk == GetPage \/ GetPageFails \/ \E p \in Paging : StartWalk(p)

Next == Read \/ SyncResource \/ Walk
Spec == Init /\ [][Next]_vars

-----------------------------------------------------------------------------
(***************************************************************************)
(* Properties.                                                             *)
(***************************************************************************)
\* A --full sync never prunes a row it has stored itself: the ids it spares are found by
\* extractID, in another file than the store's rule for the same record (sync.go's seenIDs).
FullSyncSparesItsRows == batch.pruned \intersect batch.stored = {}

\* A body is taken for an empty page, the verdict that completes a snapshot and lets --full
\* prune a whole scope, only if it holds no list of records, or several, of which none is the page's.
EmptyHidesNothing == batch.end = "empty" => Cardinality(HeldBy(batch.body)) # 1

\* sync stores exactly the keyed records of the one list a list body offers, under whatever key.
SyncTakesTheList ==
    batch.end # None /\ batch.resource = "institutions" /\ IsListBody(batch.body)
        => batch.stored = Typed("institutions", UpsertBatch("institutions", Offered(batch.body)))

\* An offline list answer has every keyed record that earlier auto reads of that list showed
\* and the store took: whatever shape the body had, what the reader shows as the list, what the
\* write-through finds in it and what the local read looks up are the same records.  (A read
\* whose write-through failed as a whole is shown and forgotten, without a word.)
OfflineKeepsWhatWasShown ==
    answer.source \in {"local", "no_data"} => {r \in shown : r.type = answer.resource} \subseteq answer.rows

\* A paged read that reports no truncation has every item of the collection once, in order,
\* provided the server honours the page size, and one that stops at page 1 has a signal to read.
WalkComplete ==
    walk.end = "complete" /\ walk.p.cap >= walk.p.size /\ (walk.p.all \/ walk.p.by # "none")
        => walk.got = [i \in 1..walk.p.items |-> Item(i)]
=============================================================================
