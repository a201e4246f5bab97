-------------------------- MODULE GenericReadProofs --------------------------
(***************************************************************************)
(* GenericRead for every set of bodies ASSIST may send, every paginator and *)
(* any number of commands.                                                  *)
(***************************************************************************)
EXTENDS GenericRead, FiniteSetTheorems, SequenceTheorems, TLAPS

-----------------------------------------------------------------------------
(***************************************************************************)
(* The paged reader.                                                       *)
(***************************************************************************)
AnyItem   == {Item(i) : i \in Int}
Prefix(n) == [i \in 1..n |-> Item(i)]

LEMMA PageInts ==
    ASSUME NEW w, w.p \in Paging, w.at \in Int
    PROVE  /\ FirstItem(w) \in Int /\ PageSize(w.p) \in Nat \ {0} /\ w.p.items \in Nat
           /\ w.p.size \in Nat \ {0} /\ w.p.cap \in Nat \ {0}
           /\ w.p.cap >= w.p.size => PageSize(w.p) = w.p.size
<1>1. w.p.size \in Nat \ {0} /\ w.p.cap \in Nat \ {0} /\ w.p.items \in Nat
  BY PagingAssumption
<1>2. PageSize(w.p) \in Nat \ {0} /\ (w.p.cap >= w.p.size => PageSize(w.p) = w.p.size)
  BY <1>1 DEF PageSize
<1>3. \A a \in Int, s \in Nat : (a - 1) * s \in Int
  OBVIOUS
<1> QED  BY <1>1, <1>2, <1>3 DEF FirstItem

\* The walker takes the items of a page for what they are, whatever the key of
\* the list.
LEMMA PageTakenApart ==
    ASSUME NEW w, w.p \in Paging, w.at \in Int
    PROVE  PaginatedItems(ServedPage(w)) = ItemsServed(w)
<1> DEFINE items == ItemsServed(w)
           f     == [k \in {w.p.key, "errors"} |-> [arr |-> IF k = w.p.key THEN items ELSE <<>>]]
           n     == (IF FirstItem(w) + PageSize(w.p) < w.p.items THEN FirstItem(w) + PageSize(w.p)
                     ELSE w.p.items) - FirstItem(w)
<1>1. w.p.key # "errors"
  BY PagingAssumption
<1>2. items = [i \in 1..n |-> Item(FirstItem(w) + i)]
  BY DEF ItemsServed
<1>3. items # <<>> => Is("obj", items[1])
  <2>0. n \in Int
    BY PageInts
  <2> HIDE DEF n
  <2> SUFFICES ASSUME items # <<>> PROVE Is("obj", items[1])
    OBVIOUS
  <2>1. 1..n # {} => 1 \in 1..n
    BY <2>0
  <2>2. 1..n = {} => items = <<>>
    BY <1>2
  <2> QED  BY <1>2, <2>1, <2>2 DEF Item, Is
<1> HIDE DEF items, n
<1>4. CASE w.p.key = None
  BY <1>4 DEF ServedPage, PaginatedItems, IsSlice, Is, Elements, items
<1>5. CASE w.p.key # None
  <2>1. ServedPage(w) = [obj |-> f]
    BY <1>5 DEF ServedPage, items
  <2> HIDE DEF f
  <2>2. PaginatedItems(ServedPage(w)) = ExtractPaginatedItems(f)
    BY <2>1 DEF PaginatedItems, IsSlice, Is, Fields
  <2>3. DOMAIN f = {w.p.key, "errors"} /\ f[w.p.key] = [arr |-> items]
    BY DEF f
  <2> DEFINE hits == {i \in DOMAIN PaginatedKeys : PaginatedKeys[i] \in DOMAIN f /\ IsSlice(f[PaginatedKeys[i]])}
             k == FirstAt(PaginatedKeys, hits, None)
  <2>4. ExtractPaginatedItems(f) = IF k # None THEN Elements(f[k]) ELSE SingleArraySibling(f)
    BY DEF ExtractPaginatedItems, FirstKey
  <2>5. Elements(f[w.p.key]) = items /\ IsSlice(f[w.p.key])
    BY <2>3 DEF Elements, Is, IsSlice
  <2>6. CASE w.p.key \in {"data", "items", "results"}
    <3>1. hits # {} /\ hits \subseteq 1..3 /\ \A i \in hits : PaginatedKeys[i] = w.p.key
      BY <2>3, <2>5, <2>6, <1>1 DEF PaginatedKeys
    <3>2. Min(hits) \in hits
      BY <3>1 DEF Min
    <3>3. k = w.p.key
      BY <3>1, <3>2 DEF FirstAt
    <3> QED  BY <2>2, <2>4, <2>5, <3>3, <1>5 DEF items
  <2>7. CASE w.p.key \notin {"data", "items", "results"}
    <3>1. hits = {}
      BY <2>3, <2>7 DEF PaginatedKeys
    <3>2. ExtractPaginatedItems(f) = SingleArraySibling(f)
      BY <3>1, <2>4 DEF FirstAt
    <3> DEFINE arrays == {j \in DOMAIN f \ MetadataArrayKeys : ObjectArray(f[j])}
    <3>3. SingleArraySibling(f) = IF Cardinality(arrays) = 1 THEN Elements(f[CHOOSE j \in arrays : TRUE]) ELSE <<>>
      BY DEF SingleArraySibling
    <3>4. CASE items = <<>>
      <4>1. arrays = {}
        BY <2>3, <2>5, <3>4 DEF MetadataArrayKeys, ObjectArray, ItemsArray
      <4>2. Cardinality(arrays) = 0
        BY <4>1, FS_EmptySet
      <4> HIDE DEF arrays
      <4> QED  BY <2>2, <3>2, <3>3, <3>4, <4>2 DEF items
    <3>5. CASE items # <<>>
      <4>1. arrays = {w.p.key}
        BY <2>3, <2>5, <3>5, <1>1, <1>3 DEF MetadataArrayKeys, ObjectArray, ItemsArray, IsMap
      <4>2. Cardinality(arrays) = 1
        BY <4>1, FS_Singleton
      <4>3. (CHOOSE j \in arrays : TRUE) = w.p.key
        BY <4>1
      <4> HIDE DEF arrays
      <4> QED  BY <2>2, <2>5, <3>2, <3>3, <4>2, <4>3 DEF items
    <3> QED  BY <3>4, <3>5
  <2> QED  BY <2>6, <2>7
<1> QED  BY <1>4, <1>5

LEMMA PageLength ==
    ASSUME NEW w, w.p \in Paging, w.at \in Int
    PROVE  /\ ItemsServed(w) \in Seq(AnyItem)
           /\ FirstItem(w) \in 0..w.p.items =>
                /\ Len(ItemsServed(w)) \in 0..PageSize(w.p)
                /\ FirstItem(w) + Len(ItemsServed(w)) \in 0..w.p.items
                /\ Len(ItemsServed(w)) < PageSize(w.p) => FirstItem(w) + Len(ItemsServed(w)) = w.p.items
                /\ MoreFollow(w) => Len(ItemsServed(w)) = PageSize(w.p)
                /\ ~ MoreFollow(w) => FirstItem(w) + Len(ItemsServed(w)) = w.p.items
                /\ \A i \in 1..Len(ItemsServed(w)) : ItemsServed(w)[i] = Item(FirstItem(w) + i)
<1> DEFINE first == FirstItem(w)
           size  == PageSize(w.p)
           all   == w.p.items
           n     == (IF first + size < all THEN first + size ELSE all) - first
<1>1. first \in Int /\ size \in Nat \ {0} /\ all \in Nat
  BY PageInts
<1>2. ItemsServed(w) = [i \in 1..n |-> Item(first + i)] /\ (MoreFollow(w) <=> first + size < all)
  BY DEF ItemsServed, MoreFollow
<1> HIDE DEF first, size, all
<1>3. n \in Int
  BY <1>1
<1>4. first \in 0..all => /\ n \in 0..size /\ first + n \in 0..all /\ (n < size => first + n = all)
                          /\ (first + size < all => n = size) /\ (~(first + size < all) => first + n = all)
  BY <1>1
<1> HIDE DEF n
<1>5. \A i \in 1..n : Item(first + i) \in AnyItem
  BY <1>1, <1>3 DEF AnyItem
<1>6. n >= 0 => ItemsServed(w) \in Seq(AnyItem) /\ Len(ItemsServed(w)) = n
  <2> SUFFICES ASSUME n >= 0 PROVE ItemsServed(w) \in Seq(AnyItem) /\ Len(ItemsServed(w)) = n
    OBVIOUS
  <2>1. n \in Nat
    BY <1>3
  <2>2. ItemsServed(w) \in [1..n -> AnyItem]
    BY <1>2, <1>5
  <2> QED  BY <2>1, <2>2, SeqDef, LenProperties
<1>7. n < 0 => ItemsServed(w) = <<>>
  BY <1>2, <1>3
<1>8. ItemsServed(w) \in Seq(AnyItem)
  <2>1. n >= 0 \/ n < 0
    BY <1>3
  <2>2. <<>> \in Seq(AnyItem)
    OBVIOUS
  <2> QED  BY <2>1, <2>2, <1>6, <1>7
<1>9. first \in 0..all => n \in Nat /\ Len(ItemsServed(w)) = n
  BY <1>1, <1>4, <1>6
<1> QED  BY <1>1, <1>2, <1>4, <1>8, <1>9 DEF first, size, all

\* A page behind a prefix of the collection makes a longer prefix.
LEMMA PrefixGrows ==
    ASSUME NEW a \in Nat, NEW page \in Seq(AnyItem), \A i \in 1..Len(page) : page[i] = Item(a + i)
    PROVE  Prefix(a) \o page = Prefix(a + Len(page))
<1>1. Prefix(a) \in Seq(AnyItem) /\ Len(Prefix(a)) = a
  <2>1. Prefix(a) \in [1..a -> AnyItem]
    BY DEF Prefix, AnyItem
  <2> QED  BY <2>1, SeqDef, LenProperties
<1>2. /\ Prefix(a) \o page \in Seq(AnyItem) /\ Len(Prefix(a) \o page) = a + Len(page)
      /\ \A i \in 1..a + Len(page) : (Prefix(a) \o page)[i] = IF i <= a THEN Prefix(a)[i] ELSE page[i - a]
  <2>1. /\ Prefix(a) \o page \in Seq(AnyItem) /\ Len(Prefix(a) \o page) = Len(Prefix(a)) + Len(page)
        /\ \A i \in 1..Len(Prefix(a)) + Len(page) :
             (Prefix(a) \o page)[i] = IF i <= Len(Prefix(a)) THEN Prefix(a)[i] ELSE page[i - Len(Prefix(a))]
    BY <1>1, ConcatProperties, Zenon
  <2> HIDE DEF Prefix
  <2> QED  BY <1>1, <2>1, Zenon
<1>3. Len(page) \in Nat
  BY LenProperties
<1>5. Prefix(a) \o page \in [1..a + Len(page) -> AnyItem]
  BY <1>2, LenProperties
<1>4. \A i \in 1..a + Len(page) : (IF i <= a THEN Prefix(a)[i] ELSE page[i - a]) = Item(i)
  <2> SUFFICES ASSUME NEW i \in 1..a + Len(page)
               PROVE  (IF i <= a THEN Prefix(a)[i] ELSE page[i - a]) = Item(i)
    OBVIOUS
  <2>1. CASE i <= a
    BY <2>1 DEF Prefix
  <2>2. CASE ~(i <= a)
    <3>1. i - a \in 1..Len(page) /\ a + (i - a) = i
      BY <2>2, <1>3
    <3> QED  BY <2>2, <3>1
  <2> QED  BY <2>1, <2>2
<1> QED  BY <1>2, <1>4, <1>5 DEF Prefix

Ends == {"idle", "walking", "warned", "complete", "error"}

\* A walk that goes on holds the items in front of its position, and is at the
\* start if nothing can move it.
OnTrack(w) ==
    /\ w.p.type = "page" => w.at > 0
    /\ w.p.by = "none" /\ w.p.type = "cursor" => w.pages = 0
    /\ ~ w.p.all => FirstItem(w) = 0
    /\ w.p.cap >= w.p.size => FirstItem(w) \in 0..w.p.items /\ w.got = Prefix(FirstItem(w))

Walking == walk.end = "walking" => walk.p \in Paging /\ OnTrack(walk)
Walker  == [p : Paging \union {None}, at : Int, pages : Nat, got : Seq(AnyItem), end : Ends]

WalkInv == walk \in Walker /\ Walking /\ WalkComplete

LEMMA WalkerMade ==
    /\ \A p \in Paging \union {None}, at \in Int, pages \in Nat, got \in Seq(AnyItem), end \in Ends :
         [p |-> p, at |-> at, pages |-> pages, got |-> got, end |-> end] \in Walker
    /\ \A w \in Walker, at \in Int, pages \in Nat, got \in Seq(AnyItem), end \in Ends :
         [w EXCEPT !.at = at, !.pages = pages, !.got = got, !.end = end] \in Walker
    /\ \A w \in Walker, got \in Seq(AnyItem), end \in Ends : [w EXCEPT !.got = got, !.end = end] \in Walker
    /\ <<>> \in Seq(AnyItem)
<1>1. <<>> \in Seq(AnyItem)
  BY EmptySeq
<1> DEFINE S == Seq(AnyItem)
<1> HIDE DEF S
<1>2. Walker = [p : Paging \union {None}, at : Int, pages : Nat, got : S, end : Ends]
  BY DEF Walker, S
<1>3. /\ \A p \in Paging \union {None}, at \in Int, pages \in Nat, got \in S, end \in Ends :
            [p |-> p, at |-> at, pages |-> pages, got |-> got, end |-> end] \in Walker
      /\ \A w \in Walker, at \in Int, pages \in Nat, got \in S, end \in Ends :
            [w EXCEPT !.at = at, !.pages = pages, !.got = got, !.end = end] \in Walker
      /\ \A w \in Walker, got \in S, end \in Ends : [w EXCEPT !.got = got, !.end = end] \in Walker
  BY <1>2
<1> QED  BY <1>1, <1>3 DEF S

\* Where the walk goes after a page that was not short.
LEMMA NextFirst ==
    ASSUME NEW w, w.p \in Paging, w.at \in Int, w.pages \in Nat, OnTrack(w), NEW got \in Nat,
           NextPosition(w, got) # -1, NEW v, v.p = w.p, v.at = NextPosition(w, got)
    PROVE  /\ v.at \in Int /\ w.p.all /\ ~(w.p.by = "none" /\ w.p.type = "cursor")
           /\ w.p.type = "page" => v.at > 0
           /\ w.p.cap >= w.p.size => FirstItem(v) = FirstItem(w) + w.p.size
           /\ IF w.p.by = "none" THEN got >= w.p.size ELSE MoreFollow(w)
<1>1. /\ w.p.all \in BOOLEAN /\ w.p.type \in {"cursor", "page", "offset"} /\ w.p.by \in {"cursor", "more", "none"}
  BY PagingAssumption
<1>2. /\ PageSize(w.p) \in Nat \ {0} /\ w.p.size \in Nat \ {0}
      /\ w.p.cap >= w.p.size => PageSize(w.p) = w.p.size
  BY PageInts
<1>3. \A a \in Int, s \in Nat : (a + 1 - 1) * s = (a - 1) * s + s
  OBVIOUS
<1>4. w.p.all
  BY <1>1 DEF NextPosition
<1>5. IF w.p.by = "none" THEN got >= w.p.size ELSE MoreFollow(w)
  BY <1>1, <1>2, <1>4 DEF NextPosition, FullPage
<1>6. CASE w.p.type = "page"
  <2>1. v.at = w.at + 1
    BY <1>1, <1>4, <1>6 DEF NextPosition, FullPage, ClientSide
  <2>2. w.at > 0
    BY <1>6 DEF OnTrack
  <2>3. FirstItem(v) = (w.at + 1 - 1) * PageSize(w.p) /\ FirstItem(w) = (w.at - 1) * PageSize(w.p)
    BY <2>1, <1>6 DEF FirstItem
  <2> QED  BY <2>1, <2>2, <2>3, <1>2, <1>3, <1>4, <1>5, <1>6
<1>7. CASE w.p.type = "offset"
  <2>1. v.at = w.at + w.p.size \/ v.at = w.at + PageSize(w.p)
    BY <1>1, <1>4, <1>7 DEF NextPosition, FullPage, ClientSide
  <2> QED  BY <2>1, <1>2, <1>4, <1>5, <1>7 DEF FirstItem
<1>8. CASE w.p.type = "cursor"
  <2>1. v.at = w.at + PageSize(w.p) /\ w.p.by # "none"
    BY <1>1, <1>4, <1>8 DEF NextPosition, FullPage, ClientSide
  <2> QED  BY <2>1, <1>2, <1>4, <1>5, <1>8 DEF FirstItem
<1> QED  BY <1>1, <1>6, <1>7, <1>8

LEMMA WalkStarts ==
    ASSUME NEW p \in Paging, StartWalk(p)
    PROVE  WalkInv'
<1>1. walk' = [p |-> p, at |-> IF p.type = "page" THEN 1 ELSE 0, pages |-> 0, got |-> <<>>, end |-> "walking"]
  BY DEF StartWalk
<1>2. walk'.p = p /\ walk'.at = (IF p.type = "page" THEN 1 ELSE 0) /\ walk'.got = <<>>
      /\ walk'.pages = 0 /\ walk'.end = "walking"
  BY <1>1
<1>3. walk' \in Walker
  <2> DEFINE at == IF p.type = "page" THEN 1 ELSE 0
  <2>0. at \in Int
    OBVIOUS
  <2>3. p \in Paging \union {None}
    BY Zenon
  <2>1. at \in Int /\ p \in Paging \union {None} /\ "walking" \in Ends /\ 0 \in Nat
    BY <2>0, <2>3 DEF Ends
  <2> HIDE DEF at
  <2>2. [p |-> p, at |-> at, pages |-> 0, got |-> <<>>, end |-> "walking"] \in Walker
    BY <2>1, WalkerMade, Zenon
  <2> QED  BY <1>1, <2>2 DEF at
<1>4. FirstItem(walk') = 0
  <2>1. PageSize(p) \in Nat
    BY <1>2, <1>3, PageInts DEF Walker
  <2>2. \A s \in Nat : (1 - 1) * s = 0
    OBVIOUS
  <2> QED  BY <1>2, <2>1, <2>2 DEF FirstItem
<1>5. Prefix(0) = <<>>
  BY DEF Prefix
<1>6. p.items \in Nat
  BY PagingAssumption
<1>7. OnTrack(walk')
  BY <1>2, <1>4, <1>5, <1>6 DEF OnTrack
<1> QED  BY <1>2, <1>3, <1>7 DEF WalkInv, Walking, WalkComplete, OnTrack, FirstItem

LEMMA WalkGoesOn ==
    ASSUME WalkInv, GetPage
    PROVE  WalkInv'
<1> DEFINE page == ItemsServed(walk)
           next == NextPosition(walk, Len(page))
           w    == walk'
           all  == walk.p.items
<1>1. walk.p \in Paging /\ walk.at \in Int /\ walk.pages \in Nat /\ OnTrack(walk) /\ walk.got \in Seq(AnyItem)
  BY DEF GetPage, WalkInv, Walking, Walker
<1>2. w = [walk EXCEPT !.at = next, !.pages = @ + 1, !.got = @ \o page, !.end = EndOf(walk, next)]
  BY <1>1, PageTakenApart DEF GetPage
<1>3. /\ w.p = walk.p /\ w.at = next /\ w.pages = walk.pages + 1 /\ w.got = walk.got \o page
      /\ w.end = EndOf(walk, next)
  BY <1>2 DEF WalkInv, Walker
<1>4. page \in Seq(AnyItem) /\ Len(page) \in Nat
  BY <1>1, PageLength, LenProperties
<1>5. next # -1 =>
        /\ w.at \in Int /\ w.p.all /\ ~(w.p.by = "none" /\ w.p.type = "cursor")
        /\ w.p.type = "page" => w.at > 0
        /\ w.p.cap >= w.p.size => FirstItem(w) = FirstItem(walk) + w.p.size
        /\ IF w.p.by = "none" THEN Len(page) >= w.p.size ELSE MoreFollow(walk)
  <2> SUFFICES ASSUME next # -1
               PROVE  /\ w.at \in Int /\ w.p.all /\ ~(w.p.by = "none" /\ w.p.type = "cursor")
                      /\ w.p.type = "page" => w.at > 0
                      /\ w.p.cap >= w.p.size => FirstItem(w) = FirstItem(walk) + w.p.size
                      /\ IF w.p.by = "none" THEN Len(page) >= w.p.size ELSE MoreFollow(walk)
    OBVIOUS
  <2>1. w.p = walk.p /\ w.at = NextPosition(walk, Len(page)) /\ NextPosition(walk, Len(page)) # -1
    BY <1>3
  <2> HIDE DEF w, page
  <2> QED  BY <2>1, <1>1, <1>4, NextFirst
<1>6. EndOf(walk, next) \in {"walking", "warned", "complete"} /\ (EndOf(walk, next) = "walking" => next # -1)
  BY DEF EndOf
<1>7. w \in Walker
  <2>1. next \in Int
    BY <1>3, <1>5
  <2>2. walk.got \o page \in Seq(AnyItem)
    BY <1>1, <1>4, ConcatProperties
  <2>3. EndOf(walk, next) \in Ends
    BY <1>6 DEF Ends
  <2>4. walk \in Walker /\ walk.pages + 1 \in Nat
    BY <1>1 DEF WalkInv
  <2> DEFINE got == walk.got \o page   end == EndOf(walk, next)   pages == walk.pages + 1
  <2> HIDE DEF next, page, w, got, end, pages
  <2>5. [walk EXCEPT !.at = next, !.pages = pages, !.got = got, !.end = end] \in Walker
    BY <2>1, <2>2, <2>3, <2>4, WalkerMade, Zenon DEF got, end, pages
  <2> QED  BY <1>2, <2>5 DEF got, end, pages
<1>8. walk.p.cap >= walk.p.size =>
        /\ FirstItem(walk) \in 0..all /\ all \in Nat
        /\ Len(page) \in 0..walk.p.size /\ FirstItem(walk) + Len(page) \in 0..all
        /\ Len(page) < walk.p.size => FirstItem(walk) + Len(page) = all
        /\ MoreFollow(walk) => Len(page) = walk.p.size
        /\ ~ MoreFollow(walk) => FirstItem(walk) + Len(page) = all
        /\ w.got = Prefix(FirstItem(walk) + Len(page))
  <2> SUFFICES ASSUME walk.p.cap >= walk.p.size
               PROVE  /\ FirstItem(walk) \in 0..all /\ all \in Nat
                      /\ Len(page) \in 0..walk.p.size /\ FirstItem(walk) + Len(page) \in 0..all
                      /\ Len(page) < walk.p.size => FirstItem(walk) + Len(page) = all
                      /\ MoreFollow(walk) => Len(page) = walk.p.size
                      /\ ~ MoreFollow(walk) => FirstItem(walk) + Len(page) = all
                      /\ w.got = Prefix(FirstItem(walk) + Len(page))
    OBVIOUS
  <2>1. FirstItem(walk) \in 0..all /\ walk.got = Prefix(FirstItem(walk)) /\ all \in Nat
        /\ PageSize(walk.p) = walk.p.size
    BY <1>1, PageInts DEF OnTrack
  <2>2. /\ Len(page) \in 0..PageSize(walk.p) /\ FirstItem(walk) + Len(page) \in 0..all
        /\ Len(page) < PageSize(walk.p) => FirstItem(walk) + Len(page) = all
        /\ MoreFollow(walk) => Len(page) = PageSize(walk.p)
        /\ ~ MoreFollow(walk) => FirstItem(walk) + Len(page) = all
        /\ \A i \in 1..Len(page) : page[i] = Item(FirstItem(walk) + i)
    BY <1>1, <2>1, PageLength, Zenon
  <2>3. FirstItem(walk) \in Nat
    BY <2>1
  <2> HIDE DEF page, all
  <2>4. Prefix(FirstItem(walk)) \o page = Prefix(FirstItem(walk) + Len(page))
    BY <1>4, <2>2, <2>3, PrefixGrows
  <2> QED  BY <1>3, <2>1, <2>2, <2>4
<1>9. Walking'
  <2> SUFFICES ASSUME w.end = "walking" PROVE w.p \in Paging /\ OnTrack(w)
    BY DEF Walking
  <2>1. next # -1
    BY <1>3, <1>6
  <2>2. w.p.cap >= w.p.size => FirstItem(w) \in 0..w.p.items /\ w.got = Prefix(FirstItem(w))
    <3> SUFFICES ASSUME w.p.cap >= w.p.size
                 PROVE  FirstItem(w) \in 0..w.p.items /\ w.got = Prefix(FirstItem(w))
      OBVIOUS
    <3>1. w.p.size \in Nat
      BY <1>1, <1>3, PageInts
    <3>2. Len(page) = w.p.size /\ FirstItem(w) = FirstItem(walk) + Len(page)
      <4> HIDE DEF page, next, w
      <4> QED  BY <1>3, <1>4, <1>5, <1>8, <2>1, <3>1
    <3> QED  BY <1>3, <1>8, <3>2
  <2>3. w.p \in Paging
    BY <1>1, <1>3
  <2> HIDE DEF w, next
  <2> QED  BY <1>5, <2>1, <2>2, <2>3 DEF OnTrack
<1>10. WalkComplete'
  <2> SUFFICES ASSUME w.end = "complete", w.p.cap >= w.p.size, w.p.all \/ w.p.by # "none"
               PROVE  w.got = Prefix(w.p.items)
    BY DEF WalkComplete, Prefix
  <2>1. next = -1
    BY <1>3 DEF EndOf
  <2>2. w.got = Prefix(FirstItem(walk) + Len(page))
    BY <1>3, <1>8
  <2>3. CASE w.p.by # "none"
    <3>1. ~ MoreFollow(walk)
      BY <1>3, <2>1, <2>3 DEF EndOf
    <3> QED  BY <1>3, <1>8, <2>2, <3>1
  <2>4. CASE w.p.by = "none"
    <3>1. w.p.all
      BY <2>4
    <3>2. w.p.type # "cursor"
      BY <1>1, <1>3, <2>1, <2>4, <3>1 DEF EndOf, OnTrack
    <3>3. w.p.type \in {"page", "offset"}
      BY <1>1, <1>3, <3>2, PagingAssumption
    <3>4. ClientSide(walk) # -1
      <4>1. walk.p.size \in Nat
        BY <1>1, PageInts
      <4>2. walk.p.type = "page" => ClientSide(walk) = walk.at + 1 /\ walk.at > 0
        BY <1>1 DEF ClientSide, OnTrack
      <4>3. walk.p.type = "offset" => ClientSide(walk) = walk.at + walk.p.size /\ walk.at >= 0
        BY <1>1, <1>3, <1>8 DEF ClientSide, FirstItem
      <4> QED  BY <1>1, <1>3, <3>3, <4>1, <4>2, <4>3
    <3>5. ~(Len(page) # 0 /\ Len(page) >= walk.p.size)
      BY <1>3, <2>1, <2>4, <3>1, <3>4 DEF NextPosition, FullPage
    <3>6. walk.p.size \in Nat \ {0}
      BY <1>1, PageInts
    <3> HIDE DEF page, w
    <3> QED  BY <1>3, <1>4, <1>8, <2>2, <3>5, <3>6
  <2> QED  BY <2>3, <2>4
<1> QED  BY <1>7, <1>9, <1>10 DEF WalkInv

LEMMA WalkKept ==
    ASSUME WalkInv, [Next]_vars
    PROVE  WalkInv'
<1>1. CASE GetPage
  BY <1>1, WalkGoesOn
<1>2. CASE GetPageFails
  <2>1. walk' = [walk EXCEPT !.got = <<>>, !.end = "error"]
    BY <1>2 DEF GetPageFails
  <2>2. walk \in Walker /\ "error" \in Ends
    BY DEF WalkInv, Ends
  <2>3. walk' \in Walker
    BY <2>1, <2>2, WalkerMade, Zenon
  <2>4. walk'.end = "error"
    BY <2>1, <2>2 DEF Walker
  <2> QED  BY <2>3, <2>4 DEF WalkInv, Walking, WalkComplete
<1>3. CASE \E p \in Paging : StartWalk(p)
  BY <1>3, WalkStarts
<1>4. CASE Read \/ SyncResource \/ UNCHANGED vars
  <2>1. walk' = walk
    BY <1>4 DEF Read, LiveRead, FailedRead, LocalRead, SyncResource, Sync, SyncFails, vars
  <2> QED  BY <2>1 DEF WalkInv, Walking, WalkComplete, OnTrack, FirstItem
<1> QED  BY <1>1, <1>2, <1>3, <1>4 DEF Next, Walk

\* --all that reports no truncation has every item once and in order, whatever
\* the paginator and however long the collection (helpers.go: paginatedGet).
THEOREM WalksAreComplete == Spec => []WalkComplete
<1>1. Init => WalkInv
  <2> SUFFICES ASSUME Init PROVE WalkInv
    OBVIOUS
  <2>1. walk = [p |-> None, at |-> 0, pages |-> 0, got |-> <<>>, end |-> "idle"]
    BY DEF Init, Idle
  <2>2. None \in Paging \union {None} /\ 0 \in Int /\ 0 \in Nat /\ "idle" \in Ends
    BY DEF Ends
  <2>3. walk \in Walker
    BY <2>1, <2>2, WalkerMade, Zenon
  <2>4. walk.end = "idle"
    BY <2>1
  <2> QED  BY <2>3, <2>4 DEF WalkInv, Walking, WalkComplete
<1>2. WalkInv /\ [Next]_vars => WalkInv'
  BY WalkKept
<1>3. WalkInv => WalkComplete
  BY DEF WalkInv
<1> QED  BY <1>1, <1>2, <1>3, PTL DEF Spec

-----------------------------------------------------------------------------
(***************************************************************************)
(* A full sync and the rows it has stored.                                 *)
(***************************************************************************)
Sendable == Bodies \union LaterBodies

\* Only the annotation of sync puts a record into a scope.
LEMMA ScopeIsAnnotated ==
    ASSUME NEW resource, NEW id, NEW o, Unannotated(o)
    PROVE  ResourceStorageID(resource, id, o) = [id |-> id, scope |-> None]
<1> DEFINE hits == {i \in DOMAIN <<"_assistScope">> : <<"_assistScope">>[i] \in DOMAIN o /\ TRUE}
<1>1. hits = {}
  BY DEF Unannotated
<1>2. LookupFieldValue(o, "_assistScope") = IF FirstAt(<<"_assistScope">>, hits, None) = None THEN Null
                                            ELSE o[FirstAt(<<"_assistScope">>, hits, None)]
  BY DEF LookupFieldValue, FirstKey
<1> HIDE DEF hits
<1>3. LookupFieldValue(o, "_assistScope") = Null
  BY <1>1, <1>2 DEF FirstAt
<1>4. ResourceIDString(Null) = None
  BY DEF ResourceIDString, Null, Is
<1> QED  BY <1>3, <1>4 DEF ResourceStorageID

LEMMA StoredUnderKey ==
    ASSUME NEW resource, NEW o
    PROVE  /\ StoredAs(resource, o).id = ExtractResourceID(resource, o)
           /\ Unannotated(o) => StoredAs(resource, o).scope = None
<1> DEFINE id == ExtractResourceID(resource, o)
           scope == IF resource \in ScopedResources THEN ResourceIDString(LookupFieldValue(o, "_assistScope")) ELSE None
<1>1. StoredAs(resource, o) = [id |-> id, scope |-> scope]
  BY DEF StoredAs, ResourceStorageID
<1>2. Unannotated(o) => StoredAs(resource, o) = [id |-> id, scope |-> None]
  BY ScopeIsAnnotated DEF StoredAs
<1>5. id = ExtractResourceID(resource, o)
  OBVIOUS
<1> HIDE DEF id, scope
<1>3. StoredAs(resource, o).id = id
  BY <1>1
<1>4. ASSUME Unannotated(o) PROVE StoredAs(resource, o).scope = None
  BY <1>2, <1>4
<1> QED  BY <1>3, <1>4, <1>5

\* A row of the batch that is filed under the scope has its key among the seen
\* ones: either the record has a key of its own, or it was unwrapped and then
\* has no scope.
LEMMA ItemRowSeen ==
    ASSUME NEW resource, NEW scope, scope # None, NEW items,
           \A x \in ToSet(items) : \A k \in DOMAIN Fields(x) : Unannotated(Fields(Fields(x)[k])),
           NEW r \in UpsertBatch(resource, AnnotateAssistSyncItems(resource, items, scope)), r.scope = scope
    PROVE  r.id \in TakeItems(resource, scope, AnnotateAssistSyncItems(resource, items, scope)).seen
<1> DEFINE ann == AnnotateAssistSyncItems(resource, items, scope)
           seen == {ExtractID(resource, Fields(ann[i])) : i \in {j \in DOMAIN ann : IsMap(ann[j])}} \ {None}
<1>1. TakeItems(resource, scope, ann).seen = seen
  BY DEF TakeItems, Outcome
<1>2. PICK i \in DOMAIN ann : IsMap(ann[i]) /\ r = RowOf(resource, Fields(ann[i])) /\ r.id # None
  <2> HIDE DEF ann
  <2> QED  BY DEF UpsertBatch, ann
<1> DEFINE o == Fields(ann[i])
           id == ExtractResourceID(resource, o)
<1> HIDE DEF o
<1>3. id # None => r.id = id
  BY <1>2, StoredUnderKey DEF RowOf, o
<1>4. id = None => FALSE
  <2> SUFFICES ASSUME id = None PROVE FALSE
    OBVIOUS
  <2> DEFINE u == UnwrapIDBearingEnvelopeItem(resource, o)
  <2>1. r = StoredAs(resource, u)
    BY <1>2 DEF RowOf, o
  <2>2. u # o
    <3> SUFFICES ASSUME u = o PROVE FALSE
      OBVIOUS
    <3>1. r.id = ExtractResourceID(resource, u)
      BY <2>1, StoredUnderKey
    <3> HIDE DEF u
    <3> QED  BY <3>1, <1>2 DEF id
  <2>3. PICK k \in DOMAIN o : Is("obj", o[k]) /\ u = Fields(o[k])
    <3> DEFINE objects == {j \in DOMAIN o : Is("obj", o[j])}
               keyed   == {j \in objects : ExtractResourceID(resource, Fields(o[j])) # None}
    <3>1. u = IF Cardinality(objects) = 1 /\ keyed # {} THEN Fields(o[CHOOSE j \in keyed : TRUE]) ELSE o
      BY DEF UnwrapIDBearingEnvelopeItem
    <3>2. keyed # {} /\ u = Fields(o[CHOOSE j \in keyed : TRUE])
      <4> HIDE DEF u, o, keyed, objects
      <4> QED  BY <2>2, <3>1
    <3>3. (CHOOSE j \in keyed : TRUE) \in keyed
      BY <3>2
    <3> QED  BY <3>2, <3>3
  <2>4. Unannotated(u)
    <3>1. CASE resource \notin ScopedResources
      <4>1. ann = items
        BY <3>1 DEF AnnotateAssistSyncItems
      <4>2. items[i] \in ToSet(items) /\ o = Fields(items[i])
        BY <4>1 DEF ToSet, o
      <4> HIDE DEF ann, u
      <4> QED  BY <4>2, <2>3
    <3>2. CASE resource \in ScopedResources
      <4>1. /\ i \in DOMAIN items
            /\ ann[i] = IF Is("obj", items[i])
                        THEN [obj |-> Put(Fields(items[i]), "_assistScope", [str |-> scope])] ELSE items[i]
        BY <3>2 DEF AnnotateAssistSyncItems
      <4>2. items[i] \in ToSet(items)
        BY <4>1 DEF ToSet
      <4>3. CASE ~ Is("obj", items[i])
        <5>1. o = <<>>
          BY <4>1, <4>3 DEF Fields, o
        <5>2. \A j : j \notin DOMAIN <<>>
          OBVIOUS
        <5>3. k \in DOMAIN o
          BY <2>3
        <5> HIDE DEF u
        <5> QED  BY <5>1, <5>2, <5>3, Zenon
      <4>4. CASE Is("obj", items[i])
        <5>1. o = Put(Fields(items[i]), "_assistScope", [str |-> scope])
          <6> DEFINE f == Put(Fields(items[i]), "_assistScope", [str |-> scope])
          <6>1. ann[i] = [obj |-> f]
            BY <4>1, <4>4
          <6>2. o = Fields(ann[i])
            BY DEF o
          <6> HIDE DEF f, ann
          <6>3. Fields([obj |-> f]) = f
            BY DEF Fields, Is
          <6> QED  BY <6>1, <6>2, <6>3 DEF f
        <5>2. k # "_assistScope" /\ k \in DOMAIN Fields(items[i]) /\ o[k] = Fields(items[i])[k]
          <6> DEFINE f == Fields(items[i])
          <6>1. k \in DOMAIN o /\ Is("obj", o[k])
            BY <2>3
          <6>2. ~ Is("obj", [str |-> scope])
            BY DEF Is
          <6> HIDE DEF u, f
          <6>3. /\ DOMAIN o = DOMAIN f \union {"_assistScope"}
                /\ o[k] = IF k = "_assistScope" THEN [str |-> scope] ELSE f[k]
            BY <5>1, <6>1 DEF Put, f
          <6> QED  BY <6>1, <6>2, <6>3 DEF f
        <5> HIDE DEF u
        <5> QED  BY <5>2, <4>2, <2>3
      <4> QED  BY <4>3, <4>4
    <3> QED  BY <3>1, <3>2
  <2> HIDE DEF u
  <2>5. r.scope = None
    BY <2>1, <2>4, StoredUnderKey
  <2> QED  BY <2>5
<1>5. id \in seen
  <2>1. ExtractID(resource, o) = id
    BY DEF ExtractID, ExtractResourceID
  <2> HIDE DEF id, ann
  <2> QED  BY <1>2, <1>4, <2>1 DEF o
<1> QED  BY <1>1, <1>3, <1>4, <1>5

\* The rows of one body that are filed under the scope it was asked for are
\* among the ids the sync will spare.
LEMMA BodyRowSeen ==
    ASSUME NEW body \in Sendable, NEW resource, NEW scope, scope # None, NEW paths \in {<<>>, <<"result">>},
           NEW r \in SyncBody(resource, scope, body, paths).rows, r.scope = scope
    PROVE  r.id \in SyncBody(resource, scope, body, paths).seen
<1> DEFINE items == ExtractPageItems(body, paths).items
           ann   == AnnotateAssistSyncItems(resource, items, scope)
           out   == SyncBody(resource, scope, body, paths)
<1>1. out = TakePage(resource, scope, body, paths, items)
  BY DEF SyncBody
<1>2. /\ Unannotated(Fields(body))
      /\ \A x \in ToSet(items) : \A k \in DOMAIN Fields(x) : Unannotated(Fields(Fields(x)[k]))
  BY BodiesAssumption DEF Sendable
<1> HIDE DEF items
<1>3. CASE out = TakeItems(resource, scope, ann)
  <2>1. r \in UpsertBatch(resource, ann)
    <3> HIDE DEF ann
    <3> QED  BY <1>3 DEF TakeItems, Outcome
  <2> QED  BY <2>1, <1>2, <1>3, ItemRowSeen
<1>4. CASE out \in {Outcome("dry", {}, {}, FALSE), Outcome("text", {}, {}, FALSE), Outcome("empty", {}, {}, TRUE)}
  BY <1>4 DEF Outcome
<1>5. CASE out = TakeDocument(UpsertSingleObject(resource, body))
  <2> DEFINE id == ExtractObjectID(Fields(body))
             one == UpsertSingleObject(resource, body)
  <2>1. r \in one.rows
    <3> HIDE DEF one
    <3> QED  BY <1>5 DEF TakeDocument, Outcome, one
  <2>2. CASE IsMap(body)
    <3>1. one = [ok |-> id # None, rows |-> IF id = None THEN {} ELSE {ResourceStorageID(resource, id, Fields(body))}]
      BY <2>2 DEF UpsertSingleObject, UpsertTyped
    <3> HIDE DEF one, id
    <3>2. r = ResourceStorageID(resource, id, Fields(body))
      BY <2>1, <3>1
    <3>3. ResourceStorageID(resource, id, Fields(body)) = [id |-> id, scope |-> None]
      BY <1>2, ScopeIsAnnotated
    <3> QED  BY <3>2, <3>3
  <2>3. CASE ~ IsMap(body)
    <3>1. one = [ok |-> TRUE, rows |-> {[id |-> resource, scope |-> None]}]
      BY <2>3 DEF UpsertSingleObject
    <3> HIDE DEF one
    <3> QED  BY <2>1, <3>1
  <2> QED  BY <2>2, <2>3
<1>6. \/ out = TakeItems(resource, scope, ann)
      \/ out \in {Outcome("dry", {}, {}, FALSE), Outcome("text", {}, {}, FALSE), Outcome("empty", {}, {}, TRUE)}
      \/ out = TakeDocument(UpsertSingleObject(resource, body))
  <2> HIDE DEF ann, out
  <2> QED  BY <1>1, SMT DEF TakePage, ann
<1> QED  BY <1>3, <1>4, <1>5, <1>6

LEMMA SyncSpares ==
    ASSUME NEW resource, NEW scope, NEW body \in Sendable, NEW full \in BOOLEAN, Sync(resource, scope, body, full)
    PROVE  FullSyncSparesItsRows'
<1> DEFINE paths  == PathsOf(resource)
           out    == SyncBody(resource, scope, body, paths)
           rows   == Typed(resource, out.rows)
           pruned == IF full /\ scope # None /\ out.complete
                     THEN {r \in store \union rows : r.type = resource /\ r.scope = scope /\ r.id \notin out.seen}
                     ELSE {}
<1>1. batch' = [resource |-> resource, body |-> body, stored |-> rows, pruned |-> pruned, end |-> out.end]
  BY DEF Sync
<1>2. batch'.stored = rows /\ batch'.pruned = pruned
  <2> HIDE DEF rows, pruned
  <2> QED  BY <1>1
<1>3. paths \in {<<>>, <<"result">>}
  BY DEF PathsOf
<1>4. ASSUME NEW x \in rows, x \in pruned PROVE FALSE
  <2>1. scope # None /\ x.scope = scope /\ x.id \notin out.seen
    <3> HIDE DEF rows, out
    <3> QED  BY <1>4
  <2> HIDE DEF pruned, paths
  <2>2. PICK r \in out.rows : x = [type |-> resource, id |-> r.id, scope |-> r.scope]
    <3> HIDE DEF out
    <3> QED  BY DEF Typed
  <2>3. x.id = r.id /\ x.scope = r.scope
    BY <2>2
  <2> QED  BY <1>3, <2>1, <2>2, <2>3, BodyRowSeen
<1> HIDE DEF rows, pruned
<1> QED  BY <1>2, <1>4 DEF FullSyncSparesItsRows

LEMMA SentSendable == Sent \subseteq Sendable
BY DEF Sent, Sendable

\* sync --full prunes nothing it has stored itself, whatever records a page
\* holds: the id extractID spares is the one the store files the record under
\* (sync.go: seenIDs; store.go: ExtractResourceID).
THEOREM FullSyncSpares == Spec => []FullSyncSparesItsRows
<1>1. Init => FullSyncSparesItsRows
  BY DEF Init, NoBatch, FullSyncSparesItsRows
<1>2. FullSyncSparesItsRows /\ [Next]_vars => FullSyncSparesItsRows'
  <2> SUFFICES ASSUME FullSyncSparesItsRows, [Next]_vars PROVE FullSyncSparesItsRows'
    OBVIOUS
  <2>3. ASSUME NEW resource, NEW scope, NEW body, SyncFails(resource, scope, body)
        PROVE  FullSyncSparesItsRows'
    <3>1. batch' = NoBatch /\ NoBatch.pruned = {}
      BY <2>3 DEF SyncFails, NoBatch
    <3> QED  BY <3>1 DEF FullSyncSparesItsRows
  <2>1. CASE SyncResource
    BY <2>1, <2>3, SyncSpares, SentSendable DEF SyncResource
  <2>2. CASE Read \/ Walk \/ UNCHANGED vars
    <3>1. batch' = batch
      BY <2>2 DEF Read, LiveRead, FailedRead, LocalRead, Walk, GetPage, GetPageFails, StartWalk, vars
    <3> QED  BY <3>1 DEF FullSyncSparesItsRows
  <2> QED  BY <2>1, <2>2 DEF Next
<1> QED  BY <1>1, <1>2, PTL DEF Spec

-----------------------------------------------------------------------------
(***************************************************************************)
(* Bodies with one list.                                                   *)
(***************************************************************************)
KeyFields == {"id", "Id", "name"}
Reserved  == EnvelopeMetadata \ ToSet(PageItemKeys)

\* An object with one list, whatever the key it is under.
OneList(o, k) ==
    /\ k \in DOMAIN o /\ DOMAIN o \subseteq {k} \union Reserved
    /\ k \notin Reserved \union KeyFields \union MetadataArrayKeys \union {None}
    /\ DOMAIN o[k] = {"arr"} /\ (Elements(o[k]) = <<>> \/ ObjectArray(o[k]))
    /\ \A j \in DOMAIN o \ ({k} \union MetadataArrayKeys) : ~ Is("arr", o[j])

LEMMA PlainIsOneList ==
    ASSUME NEW o, Regular(o), PlainEnvelope(o)
    PROVE  \E k : OneList(o, k) /\ TheList(o) = Elements(o[k])
<1>1. IsFiniteSet(ListsOf(o))
  <2>1. ListsOf(o) \subseteq DOMAIN o
    BY DEF ListsOf
  <2> QED  BY <2>1, FS_Subset DEF Regular
<1>2. PICK k : ListsOf(o) = {k}
  BY <1>1, FS_Singleton DEF PlainEnvelope
<1>3. TheList(o) = Elements(o[k])
  BY <1>2 DEF TheList
<1>4. k \in DOMAIN o /\ k \notin MetadataArrayKeys /\ Is("arr", o[k]) /\ k # None
  BY <1>2 DEF ListsOf, Regular
<1>5. DOMAIN o[k] = {"arr"}
  <2>1. Value(o[k])
    BY <1>4 DEF Regular
  <2> QED  BY <1>4, <2>1 DEF Value, Is
<1>6. k \notin Reserved \union KeyFields /\ (Elements(o[k]) = <<>> \/ ObjectArray(o[k]))
  <2>1. k \notin Reserved \union KeyFields /\ (o[k] = [arr |-> <<>>] \/ ObjectArray(o[k]))
    BY <1>2 DEF Regular, Reserved, KeyFields
  <2> QED  BY <2>1 DEF Elements
<1>7. DOMAIN o \subseteq {k} \union Reserved
  BY <1>2 DEF PlainEnvelope, Reserved
<1>8. \A j \in DOMAIN o \ ({k} \union MetadataArrayKeys) : ~ Is("arr", o[j])
  BY <1>2 DEF ListsOf
<1> QED  BY <1>3, <1>4, <1>5, <1>6, <1>7, <1>8 DEF OneList

LEMMA FirstOfThese ==
    ASSUME NEW s, NEW at \in SUBSET Nat, NEW default
    PROVE  /\ at = {} => FirstAt(s, at, default) = default
           /\ at # {} => \E i \in at : FirstAt(s, at, default) = s[i]
<1>1. at # {} => Min(at) \in at
  <2> SUFFICES ASSUME at # {} PROVE Min(at) \in at
    OBVIOUS
  <2>1. \E x \in at : \A y \in at : ~(<<y, x>> \in OpToRel(<, Nat))
    BY NatLessThanWellFounded, WFMin
  <2>2. PICK x \in at : \A y \in at : ~(<<y, x>> \in OpToRel(<, Nat))
    BY <2>1
  <2>3. \A y \in at : y < x => <<y, x>> \in OpToRel(<, Nat)
    BY DEF OpToRel
  <2>4. \A y \in at : x \in Nat /\ y \in Nat /\ ~(y < x)
    BY <2>2, <2>3
  <2>5. \A y \in at : x <= y
    BY <2>4
  <2> QED  BY <2>5 DEF Min
<1> QED  BY <1>1 DEF FirstAt

\* The tables of keys, and what they have in common.
LEMMA ReservedNames ==
    /\ None \notin ToSet(PageItemKeys) \union ToSet(DataEnvelopeKeys)
    /\ ToSet(PageItemKeys) = {"data", "results", "items", "records"} /\ PageItemKeys = WrapperKeys
    /\ ToSet(DataEnvelopeKeys) = {"data", "result"}
    /\ DOMAIN PageItemKeys = 1..4 /\ DOMAIN DataEnvelopeKeys = 1..2
    /\ Reserved = {"next_cursor", "has_more", "total", "success", "status", "errors", "meta", "links", "next"}
    /\ ListMetadata = EnvelopeMetadata \union {"records"}
    /\ ListMetadata = Reserved \union ToSet(PageItemKeys)
<1>1. ToSet(PageItemKeys) = {"data", "results", "items", "records"}
  BY DEF ToSet, PageItemKeys
<1>2. ToSet(DataEnvelopeKeys) = {"data", "result"}
  BY DEF ToSet, DataEnvelopeKeys
<1>3. None \notin {"data", "results", "items", "records", "result"}
  BY Zenon DEF None
<1>4. DOMAIN PageItemKeys = 1..4 /\ DOMAIN DataEnvelopeKeys = 1..2
  BY DEF PageItemKeys, DataEnvelopeKeys
<1>5. Reserved = {"next_cursor", "has_more", "total", "success", "status", "errors", "meta", "links", "next"}
  BY <1>1 DEF Reserved, EnvelopeMetadata
<1>6. ListMetadata = Reserved \union ToSet(PageItemKeys)
  BY <1>1, <1>5 DEF ListMetadata, EnvelopeMetadata
<1> QED  BY <1>1, <1>2, <1>3, <1>4, <1>5, <1>6 DEF WrapperKeys, ListMetadata

\* The page loop of sync finds the list of an object that has one.
LEMMA OneListItems ==
    ASSUME NEW o, NEW k, OneList(o, k)
    PROVE  /\ ItemsByKnownKeys(o) \in {<<>>, Elements(o[k])}
           /\ SingleArraySibling(o) = Elements(o[k])
           /\ ItemsFromEnvelope(o) = Elements(o[k])
<1> DEFINE list == Elements(o[k])
           good(key, v) == IF key = "items" THEN ItemsArray(v) ELSE ObjectArray(v)
           hits == {i \in DOMAIN PageItemKeys : PageItemKeys[i] \in DOMAIN o /\ good(PageItemKeys[i], o[PageItemKeys[i]])}
           first == FirstAt(PageItemKeys, hits, None)
<1>1. ItemsByKnownKeys(o) = ElementsAt(o, first)
  BY DEF ItemsByKnownKeys, FirstKey
<1>2. \A j \in DOMAIN o \ MetadataArrayKeys : Elements(o[j]) # <<>> => j = k
  BY DEF OneList, Elements
<1>3. \A i \in hits : PageItemKeys[i] = k
  <2> SUFFICES ASSUME NEW i \in hits PROVE PageItemKeys[i] = k
    OBVIOUS
  <2>1. PageItemKeys[i] \in DOMAIN o /\ Elements(o[PageItemKeys[i]]) # <<>>
    BY DEF ItemsArray, ObjectArray
  <2>2. PageItemKeys[i] \notin MetadataArrayKeys
    BY ReservedNames DEF PageItemKeys, MetadataArrayKeys
  <2> QED  BY <1>2, <2>1, <2>2
<1>4. hits \in SUBSET Nat
  BY ReservedNames
<1>5. ItemsByKnownKeys(o) \in {<<>>, list}
  <2> HIDE DEF hits
  <2>1. first = None \/ first = k
    BY <1>3, <1>4, FirstOfThese
  <2> HIDE DEF first
  <2> QED  BY <1>1, <2>1 DEF ElementsAt
<1> DEFINE arrays == {j \in DOMAIN o \ MetadataArrayKeys : ObjectArray(o[j])}
<1>6. SingleArraySibling(o) = IF Cardinality(arrays) = 1 THEN Elements(o[CHOOSE j \in arrays : TRUE]) ELSE <<>>
  BY DEF SingleArraySibling
<1>7. SingleArraySibling(o) = list
  <2>1. CASE list = <<>>
    <3>1. arrays = {}
      BY <1>2, <2>1 DEF ObjectArray, ItemsArray
    <3>2. Cardinality(arrays) = 0
      BY <3>1, FS_EmptySet
    <3> HIDE DEF arrays
    <3> QED  BY <1>6, <2>1, <3>2
  <2>2. CASE list # <<>>
    <3>1. ObjectArray(o[k]) /\ k \in DOMAIN o \ MetadataArrayKeys
      BY <2>2 DEF OneList
    <3>2. arrays = {k}
      BY <1>2, <3>1 DEF ObjectArray, ItemsArray
    <3>3. Cardinality(arrays) = 1 /\ (CHOOSE j \in arrays : TRUE) = k
      BY <3>2, FS_Singleton
    <3> HIDE DEF arrays
    <3> QED  BY <1>6, <3>3
  <2> QED  BY <2>1, <2>2
<1>8. ItemsFromEnvelope(o) = list
  <2> HIDE DEF list
  <2> QED  BY <1>5, <1>7 DEF ItemsFromEnvelope, Either
<1> QED  BY <1>5, <1>7, <1>8

\* And nothing in an object that has none.
LEMMA NoListItems ==
    ASSUME NEW o, \A j \in DOMAIN o \ MetadataArrayKeys : ~ Is("arr", o[j])
    PROVE  ItemsByKnownKeys(o) = <<>> /\ SingleArraySibling(o) = <<>> /\ ItemsFromEnvelope(o) = <<>>
<1> DEFINE good(key, v) == IF key = "items" THEN ItemsArray(v) ELSE ObjectArray(v)
           hits == {i \in DOMAIN PageItemKeys : PageItemKeys[i] \in DOMAIN o /\ good(PageItemKeys[i], o[PageItemKeys[i]])}
<1>1. ItemsByKnownKeys(o) = ElementsAt(o, FirstAt(PageItemKeys, hits, None))
  BY DEF ItemsByKnownKeys, FirstKey
<1>2. \A j \in DOMAIN o \ MetadataArrayKeys : Elements(o[j]) = <<>>
  BY DEF Elements
<1>3. hits = {}
  <2> SUFFICES ASSUME NEW i \in hits PROVE FALSE
    OBVIOUS
  <2>1. PageItemKeys[i] \in DOMAIN o /\ Elements(o[PageItemKeys[i]]) # <<>>
    BY DEF ItemsArray, ObjectArray
  <2>2. PageItemKeys[i] \notin MetadataArrayKeys
    BY ReservedNames DEF PageItemKeys, MetadataArrayKeys
  <2> QED  BY <1>2, <2>1, <2>2
<1>4. ItemsByKnownKeys(o) = <<>>
  <2> HIDE DEF hits
  <2> QED  BY <1>1, <1>3 DEF FirstAt, ElementsAt
<1> DEFINE arrays == {j \in DOMAIN o \ MetadataArrayKeys : ObjectArray(o[j])}
<1>5. SingleArraySibling(o) = IF Cardinality(arrays) = 1 THEN Elements(o[CHOOSE j \in arrays : TRUE]) ELSE <<>>
  BY DEF SingleArraySibling
<1>6. arrays = {}
  BY <1>2 DEF ObjectArray, ItemsArray
<1>7. Cardinality(arrays) = 0
  BY <1>6, FS_EmptySet
<1> HIDE DEF arrays
<1>8. SingleArraySibling(o) = <<>>
  BY <1>5, <1>7
<1> QED  BY <1>4, <1>8 DEF ItemsFromEnvelope, Either

LEMMA FiveInOrder ==
    ASSUME NEW a, NEW b, NEW c, NEW d, NEW e
    PROVE  LET s == <<>> \o <<a>> \o <<b, c>> \o <<d, e>> IN
           DOMAIN s = 1..5 /\ s[1] = a /\ s[2] = b /\ s[3] = c /\ s[4] = d /\ s[5] = e
<1> DEFINE S  == {a, b, c, d, e}
           s1 == <<a>>
           s3 == s1 \o <<b, c>>
           s5 == s3 \o <<d, e>>
<1>1. <<>> \o <<a>> = s1
  OBVIOUS
<1>2. s1 \in Seq(S) /\ <<b, c>> \in Seq(S) /\ <<d, e>> \in Seq(S)
  OBVIOUS
<1>3. Len(s1) = 1 /\ Len(<<b, c>>) = 2 /\ Len(<<d, e>>) = 2 /\ s1[1] = a
  OBVIOUS
<1> HIDE DEF S, s1
<1>4. s3 \in Seq(S) /\ Len(s3) = 3 /\ \A i \in 1..3 : s3[i] = IF i <= 1 THEN s1[i] ELSE <<b, c>>[i - 1]
  BY <1>2, <1>3, ConcatProperties
<1> HIDE DEF s3
<1> DEFINE de == <<d, e>>
<1>9. de \in Seq(S) /\ Len(de) = 2 /\ de[1] = d /\ de[2] = e
  BY <1>2, <1>3
<1> HIDE DEF de
<1>5. s5 \in Seq(S) /\ Len(s5) = 5 /\ \A i \in 1..5 : s5[i] = IF i <= 3 THEN s3[i] ELSE de[i - 3]
  <2>1. /\ s3 \o de \in Seq(S) /\ Len(s3 \o de) = Len(s3) + Len(de)
        /\ \A i \in 1..Len(s3) + Len(de) : (s3 \o de)[i] = IF i <= Len(s3) THEN s3[i] ELSE de[i - Len(s3)]
    BY <1>4, <1>9, ConcatProperties, Zenon
  <2>2. s5 = s3 \o de
    BY DEF de
  <2> QED  BY <1>4, <1>9, <2>1, <2>2
<1> HIDE DEF s5
<1>6. DOMAIN s5 = 1..5
  BY <1>5, LenProperties
<1>7. s3[1] = a /\ s3[2] = b /\ s3[3] = c
  BY <1>3, <1>4
<1>8. s5[1] = a /\ s5[2] = b /\ s5[3] = c /\ s5[4] = d /\ s5[5] = e
  BY <1>5, <1>7, <1>9
<1> QED  BY <1>1, <1>6, <1>8 DEF s5, s3, de

\* sync looks in five places, in this order.
LEMMA FivePlaces ==
    ASSUME NEW body, ~ IsSlice(body), NEW list,
           ItemsByKnownKeys(Fields(body)) \in {<<>>, list},
           \A key \in {"data", "result"} : InDataEnvelope(Fields(body), key).items \in {<<>>, list},
           Embedded(Fields(body)).items \in {<<>>, list},
           SingleArraySibling(Fields(body)) \in {<<>>, list},
           \/ SingleArraySibling(Fields(body)) = list
           \/ \E key \in {"data", "result"} : InDataEnvelope(Fields(body), key).items = list
    PROVE  ExtractPageItems(body, <<>>).items = list
<1> DEFINE o == Fields(body)
           known == PageOf(ItemsByKnownKeys(o), Pagination(o))
           sibling == PageOf(SingleArraySibling(o), Pagination(o))
           d1 == InDataEnvelope(o, "data")
           d2 == InDataEnvelope(o, "result")
           nested == [i \in 1..Len(DataEnvelopeKeys) |-> InDataEnvelope(o, DataEnvelopeKeys[i])]
           none == [i \in 1..Len(<<>>) |-> AtResponsePath(o, <<>>[i])]
           tried == none \o <<known>> \o nested \o <<Embedded(o), sibling>>
           e     == Embedded(o)
           hits  == {i \in DOMAIN tried : tried[i].items # <<>>}
<1>1. ExtractPageItems(body, <<>>) = FirstAt(tried, hits, NoPage)
  BY DEF ExtractPageItems
<1>2. known.items = ItemsByKnownKeys(o) /\ sibling.items = SingleArraySibling(o) /\ NoPage.items = <<>>
  BY DEF PageOf, NoPage
<1>3. nested = <<d1, d2>>
  <2> HIDE DEF o
  <2> QED  BY DEF DataEnvelopeKeys
<1>4. none = <<>>
  OBVIOUS
<1> HIDE DEF known, sibling, d1, d2, none, nested, e
<1>11. tried = <<>> \o <<known>> \o <<d1, d2>> \o <<e, sibling>>
  BY <1>3, <1>4 DEF e
<1>5. /\ DOMAIN tried = 1..5 /\ tried[1] = known /\ tried[2] = d1 /\ tried[3] = d2
      /\ tried[4] = e /\ tried[5] = sibling
  <2> HIDE DEF tried
  <2> QED  BY <1>11, FiveInOrder
<1> HIDE DEF tried
<1>6. \A i \in DOMAIN tried : i \in 1..5 /\ tried[i].items \in {<<>>, list}
  BY <1>2, <1>5 DEF d1, d2, e
<1>7. hits \in SUBSET Nat
  BY <1>6
<1>8. hits = {} => list = <<>>
  <2>2. d1.items = list \/ d2.items = list \/ sibling.items = list
    BY <1>2 DEF d1, d2
  <2> QED  BY <1>5, <2>2
<1>9. hits # {} => FirstAt(tried, hits, NoPage).items = list
  <2> SUFFICES ASSUME hits # {} PROVE FirstAt(tried, hits, NoPage).items = list
    OBVIOUS
  <2>1. PICK i \in hits : FirstAt(tried, hits, NoPage) = tried[i]
    <3> HIDE DEF hits
    <3> QED  BY <1>7, FirstOfThese
  <2> QED  BY <1>6, <2>1
<1>10. hits = {} => FirstAt(tried, hits, NoPage).items = list
  BY <1>2, <1>8 DEF FirstAt
<1> QED  BY <1>1, <1>9, <1>10

\* Objects under keys that are not the list hold nothing in these places.
LEMMA PlaceWithout ==
    ASSUME NEW o, NEW key, key \in DOMAIN o => ~ Is("obj", o[key])
    PROVE  InDataEnvelope(o, key).items = <<>> /\ (key = "_embedded" => Embedded(o).items = <<>>)
<1>1. CASE key \notin DOMAIN o
  BY <1>1 DEF InDataEnvelope, Embedded, NoPage, PageOf
<1>2. CASE key \in DOMAIN o
  <2>1. Fields(o[key]) = <<>>
    BY <1>2 DEF Fields
  <2>2. \A j : j \notin DOMAIN <<>>
    OBVIOUS
  <2>3. ItemsFromEnvelope(Fields(o[key])) = <<>>
    BY <2>1, <2>2, NoListItems
  <2>4. InDataEnvelope(o, key).items = ItemsFromEnvelope(Fields(o[key]))
    BY <1>2 DEF InDataEnvelope, PageOf
  <2>5. key = "_embedded" => Embedded(o).items = ItemsFromEnvelope(Fields(o[key]))
    BY <1>2 DEF Embedded, PageOf
  <2> QED  BY <2>3, <2>4, <2>5
<1> QED  BY <1>1, <1>2

LEMMA PlainPage ==
    ASSUME NEW body, Value(body), NEW k, OneList(Fields(body), k)
    PROVE  ExtractPageItems(body, <<>>).items = Elements(Fields(body)[k])
<1> DEFINE o == Fields(body)
           list == Elements(o[k])
<1>1. ~ IsSlice(body)
  <2>1. o # <<>>
    <3>1. k \in DOMAIN o
      BY DEF OneList
    <3>2. \A j : j \notin DOMAIN <<>>
      OBVIOUS
    <3> HIDE DEF o
    <3> QED  BY <3>1, <3>2
  <2>2. Is("obj", body)
    BY <2>1 DEF Fields
  <2> QED  BY <2>2 DEF Value, Is, IsSlice
<1>2. \A key \in {"data", "result", "_embedded"} : key \in DOMAIN o => ~ Is("obj", o[key])
  <2> SUFFICES ASSUME NEW key \in {"data", "result", "_embedded"}, key \in DOMAIN o PROVE ~ Is("obj", o[key])
    OBVIOUS
  <2>1. key = k
    BY ReservedNames DEF OneList
  <2> QED  BY <2>1 DEF OneList, Is
<1>3. InDataEnvelope(o, "data").items = <<>> /\ InDataEnvelope(o, "result").items = <<>> /\ Embedded(o).items = <<>>
  BY <1>2, PlaceWithout
<1>4. ItemsByKnownKeys(o) \in {<<>>, list} /\ SingleArraySibling(o) = list
  BY OneListItems
<1> HIDE DEF list
<1> QED  BY <1>1, <1>3, <1>4, FivePlaces DEF list

LEMMA WrappedPage ==
    ASSUME NEW body, Value(body), NEW w \in {"data", "result"}, DOMAIN Fields(body) = {w}, Value(Fields(body)[w]),
           NEW k, OneList(Fields(Fields(body)[w]), k)
    PROVE  /\ ExtractPageItems(body, <<>>).items = Elements(Fields(Fields(body)[w])[k])
           /\ Is("obj", Fields(body)[w]) /\ ~ Is("arr", Fields(body)[w])
<1> DEFINE o == Fields(body)
           inner == Fields(o[w])
           list == Elements(inner[k])
<1>0. \A j : j \notin DOMAIN <<>>
  OBVIOUS
<1>1. ~ IsSlice(body)
  <2>1. o # <<>>
    <3> HIDE DEF o
    <3> QED  BY <1>0 DEF o
  <2>2. Is("obj", body)
    BY <2>1 DEF Fields
  <2> QED  BY <2>2 DEF Value, Is, IsSlice
<1>2. Is("obj", o[w]) /\ ~ Is("arr", o[w])
  <2>1. k \in DOMAIN inner
    BY DEF OneList
  <2>2. inner # <<>>
    <3> HIDE DEF inner
    <3> QED  BY <1>0, <2>1
  <2>3. Is("obj", o[w])
    BY <2>2 DEF Fields
  <2> QED  BY <2>3 DEF Value, Is
<1>3. ItemsByKnownKeys(o) = <<>> /\ SingleArraySibling(o) = <<>>
  <2>1. \A j \in DOMAIN o \ MetadataArrayKeys : ~ Is("arr", o[j])
    BY <1>2
  <2> HIDE DEF o
  <2> QED  BY <2>1, NoListItems
<1>4. InDataEnvelope(o, w).items = list
  <2>1. ItemsFromEnvelope(inner) = list
    BY OneListItems
  <2>2. InDataEnvelope(o, w).items = ItemsFromEnvelope(inner)
    BY DEF InDataEnvelope, PageOf
  <2> QED  BY <2>1, <2>2
<1>5. \A key \in {"data", "result"} : InDataEnvelope(o, key).items \in {<<>>, list}
  <2> SUFFICES ASSUME NEW key \in {"data", "result"} PROVE InDataEnvelope(o, key).items \in {<<>>, list}
    OBVIOUS
  <2>1. key # w => InDataEnvelope(o, key).items = <<>>
    BY PlaceWithout
  <2> HIDE DEF o, list
  <2> QED  BY <1>4, <2>1
<1>6. Embedded(o).items = <<>>
  <2>1. "_embedded" \notin DOMAIN o
    OBVIOUS
  <2> QED  BY <2>1 DEF Embedded, NoPage, PageOf
<1> HIDE DEF list, inner
<1>7. ExtractPageItems(body, <<>>).items = list
  BY <1>1, <1>3, <1>4, <1>5, <1>6, FivePlaces DEF o
<1> QED  BY <1>2, <1>7 DEF list, inner

\* The list of a body, wherever it stands: the array itself, the one list of
\* the object, or that of the object inside an envelope.
LEMMA WhereTheListIs ==
    ASSUME NEW body \in Sendable, IsListBody(body)
    PROVE  \/ DOMAIN body = {"arr"} /\ Offered(body) = body.arr
           \/ \E k : OneList(Fields(body), k) /\ Offered(body) = Elements(Fields(body)[k])
           \/ \E w \in {"data", "result"} : \E k :
                 /\ DOMAIN Fields(body) = {w} /\ Value(Fields(body)[w])
                 /\ OneList(Fields(Fields(body)[w]), k)
                 /\ Offered(body) = Elements(Fields(Fields(body)[w])[k])
<1>1. Value(body) /\ Regular(Fields(body)) /\ \A k \in DOMAIN Fields(body) : Regular(Fields(Fields(body)[k]))
  BY BodiesAssumption DEF Sendable
<1>2. CASE Is("arr", body)
  <2>1. DOMAIN body = {"arr"}
    BY <1>1, <1>2 DEF Value, Is
  <2>2. Offered(body) = body.arr
    BY <1>2 DEF Offered, Elements
  <2> QED  BY <2>1, <2>2
<1>3. CASE ~ Is("arr", body) /\ PlainEnvelope(Fields(body))
  <2>1. Offered(body) = TheList(Fields(body))
    BY <1>3 DEF Offered
  <2> QED  BY <1>1, <1>3, <2>1, PlainIsOneList
<1>4. CASE ~ Is("arr", body) /\ ~ PlainEnvelope(Fields(body)) /\ WrappedIn(body) # {}
  <2> DEFINE w == CHOOSE k \in WrappedIn(body) : TRUE
  <2>1. w \in WrappedIn(body)
    BY <1>4
  <2>2. Offered(body) = TheList(Fields(Fields(body)[w]))
    BY <1>4 DEF Offered
  <2> HIDE DEF w
  <2>3. w \in {"data", "result"} /\ DOMAIN Fields(body) = {w} /\ PlainEnvelope(Fields(Fields(body)[w]))
    BY <2>1, ReservedNames DEF WrappedIn
  <2>4. Value(Fields(body)[w]) /\ Regular(Fields(Fields(body)[w]))
    BY <1>1, <2>3 DEF Regular
  <2>5. PICK k : /\ OneList(Fields(Fields(body)[w]), k)
                 /\ TheList(Fields(Fields(body)[w])) = Elements(Fields(Fields(body)[w])[k])
    BY <2>3, <2>4, PlainIsOneList
  <2> QED  BY <2>2, <2>3, <2>4, <2>5
<1> QED  BY <1>2, <1>3, <1>4 DEF IsListBody

\* No object of these has a record key, so none is taken for a document.
LEMMA NoDocument ==
    ASSUME NEW o, DOMAIN o \intersect KeyFields = {}
    PROVE  ExtractObjectID(o) = None
<1> DEFINE keys == <<"id", "Id", "name">>
           hits == {i \in DOMAIN keys : keys[i] \in DOMAIN o /\ TRUE}
           first == FirstAt(keys, hits, None)
<1>1. ExtractObjectID(o) = IF first = None THEN None ELSE ResourceIDString(o[first])
  BY DEF ExtractObjectID, FirstKey
<1>2. hits = {}
  <2>1. \A i \in DOMAIN keys : keys[i] \in KeyFields
    BY DEF KeyFields
  <2> HIDE DEF keys
  <2> QED  BY <2>1
<1> HIDE DEF hits
<1>3. first = None
  BY <1>2 DEF FirstAt
<1> HIDE DEF first
<1> QED  BY <1>1, <1>3

\* A page whose items are those of a list is stored as that list; one without
\* items stores nothing, whether it counts as empty or as a document.
LEMMA SyncTakesItems ==
    ASSUME NEW body, NEW list, ExtractPageItems(body, <<>>).items = list,
           ~ IsDryRunResponse(body), ~ Is("text", body),
           list = <<>> => \/ IsEmptyPageResponse(body, <<>>)
                          \/ IsMap(body) /\ ExtractObjectID(Fields(body)) = None
    PROVE  SyncBody("institutions", None, body, <<>>).rows = UpsertBatch("institutions", list)
<1> DEFINE out == SyncBody("institutions", None, body, <<>>)
           ann == AnnotateAssistSyncItems("institutions", list, None)
<1>1. out = TakePage("institutions", None, body, <<>>, list)
  BY DEF SyncBody
<1>2. ann = list
  BY DEF AnnotateAssistSyncItems
<1>3. CASE list # <<>>
  <2>1. out = TakeItems("institutions", None, ann)
    <3> HIDE DEF ann, out
    <3> QED  BY <1>1, <1>3 DEF TakePage, ann
  <2>2. out = TakeItems("institutions", None, list)
    <3> HIDE DEF ann, out
    <3> QED  BY <2>1, <1>2
  <2> HIDE DEF out
  <2> QED  BY <2>2 DEF TakeItems, Outcome, out
<1>4. CASE list = <<>>
  <2>1. out.rows = {}
    <3>1. CASE IsEmptyPageResponse(body, <<>>)
      <4>1. out = Outcome("empty", {}, {}, TRUE)
        <5> HIDE DEF out
        <5> QED  BY <1>1, <1>4, <3>1 DEF TakePage
      <4> HIDE DEF out
      <4> QED  BY <4>1 DEF Outcome
    <3>2. CASE ~ IsEmptyPageResponse(body, <<>>)
      <4> DEFINE one == UpsertSingleObject("institutions", body)
      <4>1. out = TakeDocument(one)
        <5> HIDE DEF out, one
        <5> QED  BY <1>1, <1>4, <3>2 DEF TakePage, one
      <4>2. IsMap(body) /\ ExtractObjectID(Fields(body)) = None
        BY <1>4, <3>2
      <4>3. one = [ok |-> FALSE, rows |-> {}]
        BY <4>2 DEF UpsertSingleObject, UpsertTyped
      <4> HIDE DEF one, out
      <4>4. out = Outcome("error", {}, {}, FALSE)
        BY <4>1, <4>3 DEF TakeDocument
      <4> QED  BY <4>4 DEF Outcome
    <3> QED  BY <3>1, <3>2
  <2>2. UpsertBatch("institutions", list) = {}
    <3>1. {j \in DOMAIN <<>> : IsMap(<<>>[j])} = {}
      OBVIOUS
    <3>2. UpsertBatch("institutions", <<>>) = {}
      BY <3>1 DEF UpsertBatch
    <3> QED  BY <1>4, <3>2
  <2> HIDE DEF out
  <2> QED  BY <2>1, <2>2 DEF out
<1> QED  BY <1>3, <1>4

LEMMA SyncTakesOffered ==
    ASSUME NEW body \in Sendable, IsListBody(body)
    PROVE  SyncBody("institutions", None, body, <<>>).rows = UpsertBatch("institutions", Offered(body))
<1> DEFINE o == Fields(body)
           list == Offered(body)
<1>1. Value(body)
  BY BodiesAssumption DEF Sendable
<1>2. KeyFields \intersect Reserved = {}
  BY ReservedNames DEF KeyFields
<1>3. \A v : DOMAIN v = {"arr"} => v # [bool |-> TRUE]
  OBVIOUS
<1>4. CASE DOMAIN body = {"arr"} /\ list = body.arr
  <2>1. IsSlice(body) /\ Elements(body) = list
    BY <1>4 DEF IsSlice, Is, Elements
  <2>2. ExtractPageItems(body, <<>>).items = list
    BY <2>1 DEF ExtractPageItems, PageOf
  <2>3. ~ IsDryRunResponse(body) /\ ~ Is("text", body)
    BY <1>4 DEF IsDryRunResponse, Is
  <2>4. list = <<>> => IsEmptyPageResponse(body, <<>>)
    BY <1>4, <2>1 DEF IsEmptyPageResponse, Is
  <2> HIDE DEF list
  <2> QED  BY <2>2, <2>3, <2>4, SyncTakesItems DEF list
<1>5. ASSUME o # <<>> PROVE Is("obj", body) /\ IsMap(body) /\ o = body.obj /\ ~ Is("text", body)
  <2>1. Is("obj", body)
    BY <1>5 DEF Fields
  <2> QED  BY <1>1, <2>1 DEF Value, Is, IsMap, Fields
<1>6. ASSUME NEW k, OneList(o, k), list = Elements(o[k])
      PROVE  SyncBody("institutions", None, body, <<>>).rows = UpsertBatch("institutions", list)
  <2>1. ExtractPageItems(body, <<>>).items = list
    BY <1>1, <1>6, PlainPage
  <2>2. o # <<>>
    <3>1. k \in DOMAIN o /\ \A j : j \notin DOMAIN <<>>
      BY <1>6 DEF OneList
    <3> HIDE DEF o
    <3> QED  BY <3>1
  <2>3. ~ IsDryRunResponse(body)
    <3>1. k \in DOMAIN o /\ DOMAIN o[k] = {"arr"}
      BY <1>6 DEF OneList
    <3>2. o[k] # [bool |-> TRUE]
      BY <1>3, <3>1
    <3> HIDE DEF o
    <3> QED  BY <1>5, <2>2, <3>1, <3>2 DEF IsDryRunResponse
  <2>4. DOMAIN o \intersect KeyFields = {}
    <3> HIDE DEF o
    <3> QED  BY <1>2, <1>6 DEF OneList
  <2>5. ExtractObjectID(o) = None
    <3> HIDE DEF o
    <3> QED  BY <2>4, NoDocument
  <2> HIDE DEF list
  <2> QED  BY <1>5, <2>1, <2>2, <2>3, <2>5, SyncTakesItems
<1>7. ASSUME NEW w \in {"data", "result"}, NEW k, DOMAIN o = {w}, Value(o[w]),
             OneList(Fields(o[w]), k), list = Elements(Fields(o[w])[k])
      PROVE  SyncBody("institutions", None, body, <<>>).rows = UpsertBatch("institutions", list)
  <2>1. ExtractPageItems(body, <<>>).items = list
    BY <1>1, <1>7, WrappedPage
  <2>2. o # <<>>
    <3>1. w \in DOMAIN o /\ \A j : j \notin DOMAIN <<>>
      BY <1>7
    <3> HIDE DEF o
    <3> QED  BY <3>1
  <2>3. ~ IsDryRunResponse(body)
    <3> HIDE DEF o
    <3> QED  BY <1>5, <1>7, <2>2 DEF IsDryRunResponse
  <2>4. DOMAIN o \intersect KeyFields = {}
    <3> HIDE DEF o
    <3> QED  BY <1>7 DEF KeyFields
  <2>5. ExtractObjectID(o) = None
    <3> HIDE DEF o
    <3> QED  BY <2>4, NoDocument
  <2> HIDE DEF list
  <2> QED  BY <1>5, <2>1, <2>2, <2>3, <2>5, SyncTakesItems
<1>8. \/ DOMAIN body = {"arr"} /\ list = body.arr
      \/ \E k : OneList(o, k) /\ list = Elements(o[k])
      \/ \E w \in {"data", "result"} : \E k :
            /\ DOMAIN o = {w} /\ Value(o[w]) /\ OneList(Fields(o[w]), k) /\ list = Elements(Fields(o[w])[k])
  BY WhereTheListIs
<1> HIDE DEF o, list
<1> QED  BY <1>4, <1>6, <1>7, <1>8 DEF list

\* sync stores the keyed records of the list a body offers and no others, under
\* whatever key the list stands (sync.go: extractPageItems, extractItemsFromEnvelope).
THEOREM SyncTakesLists == Spec => []SyncTakesTheList
<1>1. Init => SyncTakesTheList
  <2> SUFFICES ASSUME Init PROVE SyncTakesTheList
    OBVIOUS
  <2>1. batch.end = None
    BY DEF Init, NoBatch
  <2> QED  BY <2>1 DEF SyncTakesTheList
<1>2. SyncTakesTheList /\ [Next]_vars => SyncTakesTheList'
  <2> SUFFICES ASSUME SyncTakesTheList, [Next]_vars PROVE SyncTakesTheList'
    OBVIOUS
  <2>1. ASSUME NEW resource, NEW body \in Sendable, NEW full \in BOOLEAN, NEW scope \in ScopeOf(resource),
               Sync(resource, scope, body, full)
        PROVE  SyncTakesTheList'
    <3> SUFFICES ASSUME batch'.resource = "institutions", IsListBody(batch'.body)
                 PROVE  batch'.stored = Typed("institutions", UpsertBatch("institutions", Offered(batch'.body)))
      BY DEF SyncTakesTheList
    <3> DEFINE paths  == PathsOf(resource)
               out    == SyncBody(resource, scope, body, paths)
               rows   == Typed(resource, out.rows)
               pruned == IF full /\ scope # None /\ out.complete
                         THEN {r \in store \union rows : r.type = resource /\ r.scope = scope /\ r.id \notin out.seen}
                         ELSE {}
    <3>1. batch' = [resource |-> resource, body |-> body, stored |-> rows, pruned |-> pruned, end |-> out.end]
      BY <2>1 DEF Sync
    <3>2. batch'.resource = resource /\ batch'.body = body /\ batch'.stored = rows
      <4> HIDE DEF rows, pruned, out
      <4> QED  BY <3>1
    <3>3. scope = None /\ paths = <<>> /\ resource = "institutions"
      BY <2>1, <3>2 DEF PathsOf, ScopeOf, ScopedResources
    <3>4. out = SyncBody("institutions", None, body, <<>>)
      <4> HIDE DEF paths
      <4> QED  BY <3>3
    <3>5. out.rows = UpsertBatch("institutions", Offered(body))
      BY <3>2, <3>4, SyncTakesOffered
    <3> HIDE DEF out
    <3> QED  BY <3>2, <3>3, <3>5
  <2>4. ASSUME NEW resource, NEW scope, NEW body, SyncFails(resource, scope, body)
        PROVE  SyncTakesTheList'
    <3>1. batch' = NoBatch /\ NoBatch.end = None
      BY <2>4 DEF SyncFails, NoBatch
    <3> QED  BY <3>1 DEF SyncTakesTheList, None
  <2>2. CASE SyncResource
    BY <2>1, <2>2, <2>4, SentSendable DEF SyncResource
  <2>3. CASE Read \/ Walk \/ UNCHANGED vars
    <3>1. batch' = batch
      BY <2>3 DEF Read, LiveRead, FailedRead, LocalRead, Walk, GetPage, GetPageFails, StartWalk, vars
    <3> QED  BY <3>1 DEF SyncTakesTheList
  <2> QED  BY <2>2, <2>3 DEF Next
<1> QED  BY <1>1, <1>2, PTL DEF Spec

-----------------------------------------------------------------------------
(***************************************************************************)
(* Empty pages.                                                            *)
(***************************************************************************)
\* Whatever response paths come first, these four places are looked at.
Among(X, s) == DOMAIN s \in SUBSET Nat /\ \A x \in X : \E i \in DOMAIN s : s[i] = x
Tries(p, a, b, c, d, e) == p \o <<a>> \o <<b, c>> \o <<d, e>>

LEMMA FourPlaces ==
    ASSUME NEW S, NEW p \in Seq(S), NEW a \in S, NEW b \in S, NEW c \in S, NEW d \in S, NEW e \in S
    PROVE  Among({b, c, d, e}, Tries(p, a, b, c, d, e))
<1> DEFINE s1 == p \o <<a>>
           bc == <<b, c>>
           s3 == s1 \o bc
           de == <<d, e>>
           s5 == s3 \o de
<1>1. <<a>> \in Seq(S) /\ bc \in Seq(S) /\ de \in Seq(S)
  OBVIOUS
<1>2. Len(bc) = 2 /\ Len(de) = 2 /\ bc[1] = b /\ bc[2] = c /\ de[1] = d /\ de[2] = e
  OBVIOUS
<1>3. s1 \in Seq(S)
  BY <1>1, ConcatProperties
<1> HIDE DEF s1, bc, de
<1>4. /\ s3 \in Seq(S) /\ Len(s3) = Len(s1) + 2 /\ Len(s1) \in Nat
      /\ \A i \in 1..Len(s3) : s3[i] = IF i <= Len(s1) THEN s1[i] ELSE bc[i - Len(s1)]
  <2>1. /\ s1 \o bc \in Seq(S) /\ Len(s1 \o bc) = Len(s1) + Len(bc)
        /\ \A i \in 1..Len(s1) + Len(bc) : (s1 \o bc)[i] = IF i <= Len(s1) THEN s1[i] ELSE bc[i - Len(s1)]
    BY <1>1, <1>3, ConcatProperties, Zenon
  <2>2. Len(s1) \in Nat
    BY <1>3, LenProperties
  <2> QED  BY <1>2, <2>1, <2>2
<1> DEFINE n == Len(s1)
<1>5. s3[n + 1] = b /\ s3[n + 2] = c
  BY <1>2, <1>4
<1> HIDE DEF s3, n
<1>6. /\ s5 \in Seq(S) /\ Len(s5) = Len(s3) + 2 /\ Len(s3) \in Nat
      /\ \A i \in 1..Len(s5) : s5[i] = IF i <= Len(s3) THEN s3[i] ELSE de[i - Len(s3)]
  <2>1. /\ s3 \o de \in Seq(S) /\ Len(s3 \o de) = Len(s3) + Len(de)
        /\ \A i \in 1..Len(s3) + Len(de) : (s3 \o de)[i] = IF i <= Len(s3) THEN s3[i] ELSE de[i - Len(s3)]
    <3>1. s3 \in Seq(S) /\ de \in Seq(S)
      BY <1>1, <1>4
    <3> QED  BY <3>1, ConcatProperties, Zenon
  <2>2. Len(s3) \in Nat
    BY <1>4, LenProperties
  <2>3. s5 = s3 \o de
    OBVIOUS
  <2> HIDE DEF s5
  <2> QED  BY <1>2, <2>1, <2>2, <2>3
<1>7. n \in Nat /\ Len(s3) = n + 2
  BY <1>4 DEF n
<1> DEFINE m == Len(s5)
<1>8. DOMAIN s5 = 1..m /\ m = n + 4
  BY <1>6, <1>7, LenProperties
<1> HIDE DEF s5, m
<1>9. s5[n + 1] = b /\ s5[n + 2] = c /\ s5[n + 3] = d /\ s5[n + 4] = e
  <2>1. s5[n + 1] = s3[n + 1] /\ s5[n + 2] = s3[n + 2]
    BY <1>6, <1>7, <1>8
  <2>2. s5[n + 3] = de[1] /\ s5[n + 4] = de[2]
    BY <1>6, <1>7, <1>8
  <2> QED  BY <1>2, <1>5, <2>1, <2>2
<1>10. {n + 1, n + 2, n + 3, n + 4} \subseteq DOMAIN s5 /\ DOMAIN s5 \in SUBSET Nat
  BY <1>7, <1>8
<1>11. \A x \in {b, c, d, e} : \E i \in DOMAIN s5 : s5[i] = x
  BY <1>9, <1>10
<1>12. Tries(p, a, b, c, d, e) = s5
  BY DEF Tries, s5, s3, s1, bc, de
<1> QED  BY <1>10, <1>11, <1>12 DEF Among

\* Items in any of the four make a page with items.
LEMMA AnyPlaceCounts ==
    ASSUME NEW body, ~ IsSlice(body), NEW paths \in {<<>>, <<"result">>},
           \/ InDataEnvelope(Fields(body), "data").items # <<>>
           \/ InDataEnvelope(Fields(body), "result").items # <<>>
           \/ Embedded(Fields(body)).items # <<>>
           \/ SingleArraySibling(Fields(body)) # <<>>
    PROVE  ExtractPageItems(body, paths).items # <<>>
<1> DEFINE o == Fields(body)
           known == PageOf(ItemsByKnownKeys(o), Pagination(o))
           sibling == PageOf(SingleArraySibling(o), Pagination(o))
           d1 == InDataEnvelope(o, "data")
           d2 == InDataEnvelope(o, "result")
           nested == [i \in 1..Len(DataEnvelopeKeys) |-> InDataEnvelope(o, DataEnvelopeKeys[i])]
           first == [i \in 1..Len(paths) |-> AtResponsePath(o, paths[i])]
           e     == Embedded(o)
           tried == first \o <<known>> \o nested \o <<e, sibling>>
           hits  == {i \in DOMAIN tried : tried[i].items # <<>>}
<1>1. ExtractPageItems(body, paths) = FirstAt(tried, hits, NoPage)
  BY DEF ExtractPageItems
<1>2. sibling.items = SingleArraySibling(o)
  BY DEF PageOf
<1>3. nested = <<d1, d2>>
  <2> HIDE DEF o
  <2> QED  BY DEF DataEnvelopeKeys
<1> DEFINE S == {AtResponsePath(o, paths[i]) : i \in 1..Len(paths)} \union {known, d1, d2, e, sibling}
<1>4. first \in Seq(S)
  <2>1. Len(paths) \in Nat
    OBVIOUS
  <2> DEFINE n == Len(paths)
  <2> HIDE DEF n, known, sibling, d1, d2, e, o
  <2>2. \A i \in 1..n : AtResponsePath(o, paths[i]) \in S
    BY DEF n
  <2> HIDE DEF S
  <2>3. [i \in 1..n |-> AtResponsePath(o, paths[i])] \in [1..n -> S]
    BY <2>2
  <2> QED  BY <2>1, <2>3 DEF n
<1>5. known \in S /\ d1 \in S /\ d2 \in S /\ e \in S /\ sibling \in S
  OBVIOUS
<1> HIDE DEF known, sibling, d1, d2, nested, first, e, S
<1>6. tried = first \o <<known>> \o <<d1, d2>> \o <<e, sibling>>
  BY <1>3
<1>7. DOMAIN tried \in SUBSET Nat /\ \A x \in {d1, d2, e, sibling} : \E i \in DOMAIN tried : tried[i] = x
  <2> DEFINE s == Tries(first, known, d1, d2, e, sibling)
  <2>1. Among({d1, d2, e, sibling}, s)
    BY <1>4, <1>5, FourPlaces
  <2>2. tried = s
    BY <1>6 DEF Tries
  <2> HIDE DEF tried, s
  <2> QED  BY <2>1, <2>2 DEF Among
<1> HIDE DEF tried
<1>8. \E x \in {d1, d2, e, sibling} : x.items # <<>>
  BY <1>2 DEF d1, d2, e
<1>9. hits # {} /\ hits \in SUBSET Nat
  BY <1>7, <1>8
<1>10. PICK i \in hits : FirstAt(tried, hits, NoPage) = tried[i]
  <2> HIDE DEF hits
  <2> QED  BY <1>9, FirstOfThese
<1> QED  BY <1>1, <1>10

\* The only list of an object is its items.
LEMMA OnlyListIsFound ==
    ASSUME NEW o, Regular(o), NEW k, RecordLists(o) = {k}
    PROVE  SingleArraySibling(o) # <<>> /\ ItemsFromEnvelope(o) # <<>>
<1> DEFINE arrays == {j \in DOMAIN o \ MetadataArrayKeys : ObjectArray(o[j])}
<1>1. SingleArraySibling(o) = IF Cardinality(arrays) = 1 THEN Elements(o[CHOOSE j \in arrays : TRUE]) ELSE <<>>
  BY DEF SingleArraySibling
<1>2. k \in DOMAIN o \ MetadataArrayKeys /\ Elements(o[k]) # <<>>
  BY DEF RecordLists
<1>3. ObjectArray(o[k])
  <2>1. k \in ListsOf(o)
    BY <1>2 DEF ListsOf, Elements
  <2>2. o[k] = [arr |-> <<>>] \/ ObjectArray(o[k])
    BY <2>1 DEF Regular
  <2>3. o[k] # [arr |-> <<>>]
    BY <1>2 DEF Elements
  <2> QED  BY <2>2, <2>3
<1>4. arrays = {k}
  <2>1. \A j \in arrays : j \in RecordLists(o)
    BY DEF RecordLists, ObjectArray, ItemsArray
  <2> QED  BY <1>2, <1>3, <2>1
<1>5. Cardinality(arrays) = 1 /\ (CHOOSE j \in arrays : TRUE) = k
  BY <1>4, FS_Singleton
<1> HIDE DEF arrays
<1>6. SingleArraySibling(o) = Elements(o[k])
  BY <1>1, <1>5
<1> QED  BY <1>2, <1>6 DEF ItemsFromEnvelope, Either

LEMMA NoFieldsNoPlaces ==
    ASSUME NEW b, Fields(b) = <<>>
    PROVE  HeldBy(b) = {}
<1>1. DOMAIN <<>> = {}
  OBVIOUS
<1>2. RecordLists(Fields(b)) = {} /\ EnvelopesOf(b) = {}
  BY <1>1 DEF RecordLists, EnvelopesOf
<1> QED  BY <1>2 DEF HeldBy

\* A body that holds one list of records gives sync items, so it is no empty page.
LEMMA OneListIsItems ==
    ASSUME NEW body \in Sendable, NEW paths \in {<<>>, <<"result">>}, Cardinality(HeldBy(body)) = 1
    PROVE  ExtractPageItems(body, paths).items # <<>> /\ ~ Is("text", body)
<1> DEFINE o == Fields(body)
<1>1. Value(body) /\ Regular(o) /\ \A k \in DOMAIN o : Regular(Fields(o[k]))
  BY BodiesAssumption DEF Sendable
<1>2. o # <<>>
  <2>1. Cardinality({}) = 0
    BY FS_EmptySet
  <2> SUFFICES ASSUME o = <<>> PROVE FALSE
    OBVIOUS
  <2>2. HeldBy(body) = {}
    BY NoFieldsNoPlaces
  <2>3. Cardinality(HeldBy(body)) = 0
    BY <2>1, <2>2
  <2> HIDE DEF o
  <2> QED  BY <2>3
<1>3. ~ IsSlice(body) /\ ~ Is("text", body)
  <2>1. Is("obj", body)
    BY <1>2 DEF Fields
  <2> QED  BY <1>1, <2>1 DEF Value, Is, IsSlice
<1>4. \E x : HeldBy(body) = {x}
  <2>1. \A w \in EnvelopesOf(body) : RecordLists(Fields(o[w])) \subseteq DOMAIN Fields(o[w])
    BY DEF RecordLists
  <2>2. EnvelopesOf(body) \subseteq DOMAIN o
    BY DEF EnvelopesOf
  <2>3. IsFiniteSet(DOMAIN o)
    BY <1>1 DEF Regular
  <2>4. IsFiniteSet(EnvelopesOf(body))
    BY <2>2, <2>3, FS_Subset
  <2>5. IsFiniteSet(RecordLists(o))
    <3>1. RecordLists(o) \subseteq DOMAIN o
      BY DEF RecordLists
    <3> QED  BY <2>3, <3>1, FS_Subset
  <2>6. IsFiniteSet({None} \X RecordLists(o))
    BY <2>5, FS_Singleton, FS_Product
  <2> DEFINE in(w) == {w} \X RecordLists(Fields(o[w]))
  <2>7. \A w \in EnvelopesOf(body) : IsFiniteSet(in(w))
    <3> SUFFICES ASSUME NEW w \in EnvelopesOf(body) PROVE IsFiniteSet(in(w))
      OBVIOUS
    <3>1. IsFiniteSet(DOMAIN Fields(o[w]))
      BY <1>1, <2>2 DEF Regular
    <3>2. IsFiniteSet(RecordLists(Fields(o[w])))
      BY <2>1, <3>1, FS_Subset
    <3> QED  BY <3>2, FS_Singleton, FS_Product
  <2>8. IsFiniteSet({in(w) : w \in EnvelopesOf(body)})
    <3> DEFINE T == {in(w) : w \in EnvelopesOf(body)}
               f == [w \in EnvelopesOf(body) |-> in(w)]
    <3> HIDE DEF in
    <3>1. f \in Surjection(EnvelopesOf(body), T)
      BY DEF Surjection
    <3> HIDE DEF f, T
    <3>2. IsFiniteSet(T)
      BY <2>4, <3>1, FS_Surjection
    <3> QED  BY <3>2 DEF T
  <2>9. IsFiniteSet(UNION {in(w) : w \in EnvelopesOf(body)})
    <3> HIDE DEF in
    <3> QED  BY <2>7, <2>8, FS_UNION
  <2>10. IsFiniteSet(HeldBy(body))
    <3>1. HeldBy(body) = ({None} \X RecordLists(o)) \union UNION {in(w) : w \in EnvelopesOf(body)}
      BY DEF HeldBy
    <3> DEFINE A == {None} \X RecordLists(o)
               B == UNION {in(w) : w \in EnvelopesOf(body)}
    <3>2. IsFiniteSet(A \union B)
      <4> HIDE DEF A, B
      <4>1. IsFiniteSet(A) /\ IsFiniteSet(B)
        BY <2>6, <2>9 DEF A, B
      <4> QED  BY <4>1, FS_Union
    <3> QED  BY <3>1, <3>2
  <2> QED  BY <2>10, FS_Singleton
<1>5. PICK x : HeldBy(body) = {x}
  BY <1>4
<1>6. CASE x \in {None} \X RecordLists(o)
  <2>1. PICK k \in RecordLists(o) : x = <<None, k>>
    BY <1>6
  <2>2. \A j \in RecordLists(o) : <<None, j>> \in HeldBy(body)
    BY DEF HeldBy
  <2>3. RecordLists(o) = {k}
    BY <1>5, <2>1, <2>2
  <2>4. SingleArraySibling(o) # <<>>
    BY <1>1, <2>3, OnlyListIsFound
  <2> QED  BY <1>3, <2>4, AnyPlaceCounts
<1>7. CASE \E w \in EnvelopesOf(body) : x \in {w} \X RecordLists(Fields(o[w]))
  <2>0. PICK w \in EnvelopesOf(body) : x \in {w} \X RecordLists(Fields(o[w]))
    BY <1>7
  <2>1. PICK k \in RecordLists(Fields(o[w])) : x = <<w, k>>
    BY <2>0
  <2>2. \A j \in RecordLists(Fields(o[w])) : <<w, j>> \in HeldBy(body)
    BY DEF HeldBy
  <2>3. RecordLists(Fields(o[w])) = {k}
    BY <1>5, <2>1, <2>2
  <2>4. w \in DOMAIN o /\ w \in {"data", "result", "_embedded"}
    BY ReservedNames DEF EnvelopesOf
  <2>5. ItemsFromEnvelope(Fields(o[w])) # <<>>
    BY <1>1, <2>3, <2>4, OnlyListIsFound
  <2>6. /\ w \in {"data", "result"} => InDataEnvelope(o, w).items = ItemsFromEnvelope(Fields(o[w]))
        /\ w = "_embedded" => Embedded(o).items = ItemsFromEnvelope(Fields(o[w]))
    BY <2>4 DEF InDataEnvelope, Embedded, PageOf
  <2> HIDE DEF o
  <2>7. \/ InDataEnvelope(o, "data").items # <<>>
        \/ InDataEnvelope(o, "result").items # <<>>
        \/ Embedded(o).items # <<>>
    BY <2>4, <2>5, <2>6
  <2> QED  BY <1>3, <2>7, AnyPlaceCounts DEF o
<1>8. x \in HeldBy(body)
  BY <1>5
<1> QED  BY <1>6, <1>7, <1>8 DEF HeldBy

LEMMA ItemsAreNotEmpty ==
    ASSUME NEW resource, NEW scope, NEW body, NEW paths, NEW items, items # <<>>, ~ Is("text", body)
    PROVE  TakePage(resource, scope, body, paths, items).end \in {"dry", "items"}
<1> DEFINE out == TakePage(resource, scope, body, paths, items)
           taken == AnnotateAssistSyncItems(resource, items, scope)
           dry == Outcome("dry", {}, {}, FALSE)
           some == TakeItems(resource, scope, taken)
<1>0. out = TakePage(resource, scope, body, paths, items)
  OBVIOUS
<1>1. CASE IsDryRunResponse(body)
  <2>1. dry.end = "dry"
    BY DEF Outcome
  <2> HIDE DEF dry
  <2>2. out = dry
    <3> HIDE DEF out
    <3> QED  BY <1>0, <1>1 DEF TakePage, dry
  <2> QED  BY <2>1, <2>2
<1>2. CASE ~ IsDryRunResponse(body)
  <2>1. some.end = "items"
    BY DEF TakeItems, Outcome
  <2> HIDE DEF some
  <2>2. out = some
    <3> HIDE DEF out
    <3> QED  BY <1>0, <1>2 DEF TakePage, some, taken
  <2> QED  BY <2>1, <2>2
<1> QED  BY <1>1, <1>2

\* No page that holds one list of records, in the body or in an envelope, is
\* taken for empty, so none completes an empty snapshot or lets --full prune a
\* whole scope (sync.go: extractPageItems, isEmptyPageResponse).
THEOREM EmptyPagesHideNothing == Spec => []EmptyHidesNothing
<1>1. Init => EmptyHidesNothing
  <2> SUFFICES ASSUME Init PROVE EmptyHidesNothing
    OBVIOUS
  <2>1. batch.end = None
    BY DEF Init, NoBatch
  <2>2. None # "empty"
    BY DEF None
  <2> QED  BY <2>1, <2>2 DEF EmptyHidesNothing
<1>2. EmptyHidesNothing /\ [Next]_vars => EmptyHidesNothing'
  <2> SUFFICES ASSUME EmptyHidesNothing, [Next]_vars PROVE EmptyHidesNothing'
    OBVIOUS
  <2>1. ASSUME NEW resource, NEW body \in Sendable, NEW full \in BOOLEAN, NEW scope, Sync(resource, scope, body, full)
        PROVE  EmptyHidesNothing'
    <3> SUFFICES ASSUME Cardinality(HeldBy(batch'.body)) = 1 PROVE batch'.end # "empty"
      BY DEF EmptyHidesNothing
    <3> DEFINE paths  == PathsOf(resource)
               out    == SyncBody(resource, scope, body, paths)
               rows   == Typed(resource, out.rows)
               pruned == IF full /\ scope # None /\ out.complete
                         THEN {r \in store \union rows : r.type = resource /\ r.scope = scope /\ r.id \notin out.seen}
                         ELSE {}
               items  == ExtractPageItems(body, paths).items
    <3>1. batch' = [resource |-> resource, body |-> body, stored |-> rows, pruned |-> pruned, end |-> out.end]
      BY <2>1 DEF Sync
    <3>2. batch'.body = body /\ batch'.end = out.end
      <4> HIDE DEF rows, pruned, out
      <4> QED  BY <3>1
    <3>3. paths \in {<<>>, <<"result">>}
      BY DEF PathsOf
    <3>4. items # <<>> /\ ~ Is("text", body)
      <4> HIDE DEF paths
      <4> QED  BY <3>2, <3>3, OneListIsItems
    <3>5. out = TakePage(resource, scope, body, paths, items)
      BY DEF SyncBody
    <3>6. out.end \in {"dry", "items"}
      <4> HIDE DEF out, items, paths
      <4> QED  BY <3>4, <3>5, ItemsAreNotEmpty
    <3> HIDE DEF out
    <3> QED  BY <3>2, <3>6
  <2>4. ASSUME NEW resource, NEW scope, NEW body, SyncFails(resource, scope, body)
        PROVE  EmptyHidesNothing'
    <3>1. batch' = NoBatch /\ NoBatch.end = None
      BY <2>4 DEF SyncFails, NoBatch
    <3> QED  BY <3>1 DEF EmptyHidesNothing, None
  <2>2. CASE SyncResource
    BY <2>1, <2>2, <2>4, SentSendable DEF SyncResource
  <2>3. CASE Read \/ Walk \/ UNCHANGED vars
    <3>1. batch' = batch
      BY <2>3 DEF Read, LiveRead, FailedRead, LocalRead, Walk, GetPage, GetPageFails, StartWalk, vars
    <3> QED  BY <3>1 DEF EmptyHidesNothing
  <2> QED  BY <2>2, <2>3 DEF Next
<1> QED  BY <1>1, <1>2, PTL DEF Spec

-----------------------------------------------------------------------------
(***************************************************************************)
(* What an auto read showed, offline.                                      *)
(***************************************************************************)
\* The write-through finds the list of an object that has one, in two steps.
LEMMA ListFound ==
    ASSUME NEW o, NEW k, OneList(o, k), NEW empties \in BOOLEAN, empties \/ Elements(o[k]) # <<>>
    PROVE  /\ WrapperItems(o, empties) \in {None, k}
           /\ WrapperItems(o, empties) = None => OnlySibling(o, empties) = k
           /\ ListIn(o, empties) = k
<1> DEFINE hits == {i \in DOMAIN WrapperKeys :
                       WrapperKeys[i] \in DOMAIN o
                       /\ Is("arr", o[WrapperKeys[i]]) /\ (empties \/ Elements(o[WrapperKeys[i]]) # <<>>)}
           first == FirstAt(WrapperKeys, hits, None)
<1>1. WrapperItems(o, empties) = first
  BY DEF WrapperItems, FirstKey
<1>2. \A i \in DOMAIN WrapperKeys : WrapperKeys[i] \in {"data", "results", "items", "records"}
  BY ReservedNames DEF WrapperKeys, PageItemKeys
<1>3. \A i \in hits : WrapperKeys[i] = k
  <2> SUFFICES ASSUME NEW i \in hits PROVE WrapperKeys[i] = k
    OBVIOUS
  <2>1. WrapperKeys[i] \in DOMAIN o /\ Is("arr", o[WrapperKeys[i]]) /\ WrapperKeys[i] \notin MetadataArrayKeys
    BY <1>2 DEF MetadataArrayKeys
  <2> QED  BY <2>1 DEF OneList
<1>4. hits \in SUBSET Nat
  BY ReservedNames
<1>5. /\ hits = {} => first = None
      /\ hits # {} => first = k
  <2> HIDE DEF hits
  <2>1. hits = {} => first = None
    BY DEF FirstAt
  <2>2. hits # {} => \E i \in hits : first = WrapperKeys[i]
    BY <1>4, FirstOfThese
  <2> HIDE DEF first
  <2> QED  BY <1>3, <2>1, <2>2
<1>6. k # None /\ k \in DOMAIN o /\ Is("arr", o[k])
  BY DEF OneList, Is
<1>7. ASSUME hits = {} PROVE OnlySibling(o, empties) = k
  <2> DEFINE others == DOMAIN o \ ListMetadata
             lists  == {j \in others : Is("arr", o[j]) /\ (empties \/ Elements(o[j]) # <<>>)}
             usable == {j \in lists : Elements(o[j]) = <<>> \/ ObjectArray(o[j])}
  <2>1. OnlySibling(o, empties) = IF others = lists /\ Cardinality(usable) = 1
                                  THEN CHOOSE j \in usable : TRUE ELSE None
    BY DEF OnlySibling
  <2>2. k \notin ToSet(PageItemKeys)
    <3> SUFFICES ASSUME k \in ToSet(PageItemKeys) PROVE FALSE
      OBVIOUS
    <3>1. PICK i \in DOMAIN WrapperKeys : WrapperKeys[i] = k
      BY ReservedNames DEF ToSet
    <3>2. i \in hits
      BY <1>6, <3>1
    <3> HIDE DEF hits
    <3> QED  BY <1>7, <3>2
  <2>3. k \notin ListMetadata /\ Reserved \subseteq ListMetadata
    BY <2>2, ReservedNames DEF OneList
  <2>4. others = {k}
    BY <1>6, <2>3 DEF OneList
  <2>5. lists = {k}
    <3> HIDE DEF others
    <3> QED  BY <1>6, <2>4
  <2>6. usable = {k}
    <3> HIDE DEF lists
    <3> QED  BY <2>5 DEF OneList
  <2>7. Cardinality(usable) = 1 /\ (CHOOSE j \in usable : TRUE) = k
    BY <2>6, FS_Singleton
  <2> HIDE DEF others, lists, usable
  <2> QED  BY <2>1, <2>4, <2>5, <2>7
<1> HIDE DEF hits, first
<1>8. WrapperItems(o, empties) \in {None, k} /\ (WrapperItems(o, empties) = None => OnlySibling(o, empties) = k)
  BY <1>1, <1>5, <1>6, <1>7
<1>9. ListIn(o, empties) = k
  BY <1>6, <1>8 DEF ListIn, IDOr
<1> QED  BY <1>8, <1>9

LEMMA NoListFound ==
    ASSUME NEW o, DOMAIN o = {}, NEW empties \in BOOLEAN
    PROVE  ListIn(o, empties) = None
<1> DEFINE hits == {i \in DOMAIN WrapperKeys :
                       WrapperKeys[i] \in DOMAIN o
                       /\ Is("arr", o[WrapperKeys[i]]) /\ (empties \/ Elements(o[WrapperKeys[i]]) # <<>>)}
<1>1. WrapperItems(o, empties) = FirstAt(WrapperKeys, hits, None)
  BY DEF WrapperItems, FirstKey
<1>2. hits = {}
  OBVIOUS
<1> HIDE DEF hits
<1>3. WrapperItems(o, empties) = None
  BY <1>1, <1>2 DEF FirstAt
<1> DEFINE others == DOMAIN o \ ListMetadata
           lists  == {j \in others : Is("arr", o[j]) /\ (empties \/ Elements(o[j]) # <<>>)}
           usable == {j \in lists : Elements(o[j]) = <<>> \/ ObjectArray(o[j])}
<1>4. OnlySibling(o, empties) = IF others = lists /\ Cardinality(usable) = 1
                                THEN CHOOSE j \in usable : TRUE ELSE None
  BY DEF OnlySibling
<1>5. usable = {}
  OBVIOUS
<1>6. Cardinality(usable) = 0
  BY <1>5, FS_EmptySet
<1> HIDE DEF others, lists, usable
<1>7. OnlySibling(o, empties) = None
  BY <1>4, <1>6
<1> QED  BY <1>3, <1>7 DEF ListIn, IDOr

\* The one place under an envelope key where the write-through may find a list.
LEMMA NestedFound ==
    ASSUME NEW o
    PROVE  /\ (\A w \in {"data", "result"} : w \in DOMAIN o => ListIn(Fields(o[w]), TRUE) = None)
                 => NestedList(o) = <<>>
           /\ \A w \in {"data", "result"} : \A k :
                 DOMAIN o = {w} /\ ListIn(Fields(o[w]), TRUE) = k /\ k # None
                    => NestedList(o) = <<Elements(Fields(o[w])[k])>>
<1> DEFINE hits == {i \in DOMAIN DataEnvelopeKeys :
                       DataEnvelopeKeys[i] \in DOMAIN o /\ ListIn(Fields(o[DataEnvelopeKeys[i]]), TRUE) # None}
           first == FirstAt(DataEnvelopeKeys, hits, None)
<1>1. NestedList(o) = IF first = None THEN <<>> ELSE ListAt(Fields(o[first]), ListIn(Fields(o[first]), TRUE))
  BY DEF NestedList, FirstKey
<1>2. hits \in SUBSET Nat
  <2>1. \A i \in hits : i \in DOMAIN DataEnvelopeKeys
    OBVIOUS
  <2> HIDE DEF hits
  <2> QED  BY <2>1, ReservedNames
<1>3. \A i \in DOMAIN DataEnvelopeKeys : DataEnvelopeKeys[i] \in {"data", "result"}
  BY ReservedNames DEF ToSet
<1>4. ASSUME \A w \in {"data", "result"} : w \in DOMAIN o => ListIn(Fields(o[w]), TRUE) = None
      PROVE  NestedList(o) = <<>>
  <2>1. hits = {}
    BY <1>3, <1>4
  <2> HIDE DEF hits
  <2>2. first = None
    BY <2>1 DEF FirstAt
  <2> HIDE DEF first
  <2> QED  BY <1>1, <2>2
<1>5. ASSUME NEW w \in {"data", "result"}, NEW k, DOMAIN o = {w}, ListIn(Fields(o[w]), TRUE) = k, k # None
      PROVE  NestedList(o) = <<Elements(Fields(o[w])[k])>>
  <2>1. \A i \in hits : DataEnvelopeKeys[i] = w
    BY <1>5
  <2>2. \E i \in DOMAIN DataEnvelopeKeys : DataEnvelopeKeys[i] = w
    BY ReservedNames DEF ToSet
  <2>3. hits # {}
    BY <1>5, <2>2
  <2> HIDE DEF hits
  <2>4. \E i \in hits : first = DataEnvelopeKeys[i]
    BY <1>2, <2>3, FirstOfThese
  <2> HIDE DEF first
  <2>5. first = w /\ w # None
    BY <2>1, <2>4, Zenon, ReservedNames
  <2> QED  BY <1>1, <1>5, <2>5 DEF ListAt
<1> QED  BY <1>4, <1>5

LEMMA WriteThroughFinds ==
    ASSUME NEW body \in Sendable, IsListBody(body), Offered(body) # <<>>
    PROVE  WriteThroughItems(body) = Offered(body)
<1> DEFINE o == Fields(body)
           list == Offered(body)
           tail == IF LooksLikeListEnvelope(o) THEN <<>> ELSE <<body>>
<1>0. \A j : j \notin DOMAIN <<>>
  OBVIOUS
<1>1. Value(body)
  BY BodiesAssumption DEF Sendable
<1>2. CASE DOMAIN body = {"arr"} /\ list = body.arr
  <2>1. Elements(body) = list
    BY <1>2 DEF Is, Elements
  <2> QED  BY <2>1 DEF WriteThroughItems
<1>3. ASSUME o # <<>>, WriteThroughList(o) = <<list>> PROVE WriteThroughItems(body) = list
  <2>1. Elements(body) = <<>>
    <3>1. Is("obj", body)
      BY <1>3 DEF Fields
    <3> QED  BY <1>1, <3>1 DEF Value, Is, Elements
  <2> HIDE DEF list, o
  <2> QED  BY <1>3, <2>1 DEF WriteThroughItems, FirstOr, o
<1>4. ASSUME NEW k, OneList(o, k), list = Elements(o[k]) PROVE WriteThroughItems(body) = list
  <2>1. o # <<>>
    <3>1. k \in DOMAIN o
      BY <1>4 DEF OneList
    <3> HIDE DEF o
    <3> QED  BY <1>0, <3>1
  <2>2. /\ WrapperItems(o, FALSE) \in {None, k}
        /\ WrapperItems(o, FALSE) = None => OnlySibling(o, FALSE) = k
    <3> HIDE DEF o
    <3> QED  BY <1>4, ListFound
  <2>3. NestedList(o) = <<>>
    <3>1. ASSUME NEW w \in {"data", "result"}, w \in DOMAIN o PROVE ListIn(Fields(o[w]), TRUE) = None
      <4>1. w = k
        BY <1>4, <3>1, ReservedNames DEF OneList
      <4>2. ~ Is("obj", o[w])
        BY <1>4, <4>1 DEF OneList, Is
      <4>3. Fields(o[w]) = <<>> /\ DOMAIN <<>> = {}
        BY <4>2 DEF Fields
      <4> QED  BY <4>3, NoListFound
    <3> HIDE DEF o
    <3> QED  BY <3>1, NestedFound
  <2>4. k # None
    BY <1>4 DEF OneList
  <2> HIDE DEF o, list
  <2>5. ListAt(o, k) = <<list>> /\ <<list>> # <<>> /\ ListAt(o, None) = <<>>
    BY <1>4, <2>4 DEF ListAt
  <2>6. WriteThroughList(o) = <<list>>
    BY <2>2, <2>3, <2>5 DEF WriteThroughList, Either
  <2> QED  BY <1>3, <2>1, <2>6
<1>5. ASSUME NEW w \in {"data", "result"}, NEW k, DOMAIN o = {w}, Value(o[w]),
             OneList(Fields(o[w]), k), list = Elements(Fields(o[w])[k])
      PROVE  WriteThroughItems(body) = list
  <2>1. o # <<>>
    <3> HIDE DEF o
    <3> QED  BY <1>0, <1>5
  <2>2. ListIn(Fields(o[w]), TRUE) = k /\ k # None
    <3>1. k # None
      BY <1>5 DEF OneList
    <3> HIDE DEF o
    <3> QED  BY <1>5, <3>1, ListFound
  <2>3. NestedList(o) = <<list>>
    <3> HIDE DEF o, list
    <3> QED  BY <1>5, <2>2, NestedFound
  <2>4. WrapperItems(o, FALSE) = None
    <3> DEFINE hits == {i \in DOMAIN WrapperKeys :
                           WrapperKeys[i] \in DOMAIN o
                           /\ Is("arr", o[WrapperKeys[i]]) /\ (FALSE \/ Elements(o[WrapperKeys[i]]) # <<>>)}
    <3>1. WrapperItems(o, FALSE) = FirstAt(WrapperKeys, hits, None)
      <4> HIDE DEF o
      <4> QED  BY DEF WrapperItems, FirstKey
    <3>2. ~ Is("arr", o[w])
      BY <1>1, <1>5, WrappedPage
    <3>3. hits = {}
      <4> HIDE DEF o
      <4> QED  BY <1>5, <3>2
    <3> HIDE DEF hits, o
    <3> QED  BY <3>1, <3>3 DEF FirstAt
  <2> HIDE DEF o, list
  <2>5. ListAt(o, None) = <<>> /\ <<list>> # <<>>
    BY DEF ListAt
  <2>6. WriteThroughList(o) = <<list>>
    BY <2>3, <2>4, <2>5 DEF WriteThroughList, Either
  <2> QED  BY <1>3, <2>1, <2>6
<1>6. \/ DOMAIN body = {"arr"} /\ list = body.arr
      \/ \E k : OneList(o, k) /\ list = Elements(o[k])
      \/ \E w \in {"data", "result"} : \E k :
            /\ DOMAIN o = {w} /\ Value(o[w]) /\ OneList(Fields(o[w]), k) /\ list = Elements(Fields(o[w])[k])
  BY WhereTheListIs
<1> HIDE DEF o, list
<1> QED  BY <1>2, <1>4, <1>5, <1>6 DEF list

\* An answer from the mirror: every row of a list's resource, or one row of another resource.
LEMMA LocalHasShown ==
    ASSUME NEW c \in Commands, NEW reason, shown \subseteq store, \A r \in shown : r.type = "institutions"
    PROVE  \A r \in shown : r.type = ResolveLocal(c, reason).resource => r \in ResolveLocal(c, reason).rows
<1> DEFINE found == IF c.list THEN Stored(c.resource) ELSE {r \in Stored(c.resource) : r.id = c.id}
           source == IF found = {} THEN "no_data" ELSE "local"
           answered == [source |-> source, reason |-> reason, resource |-> c.resource, rows |-> found]
<1>1. ResolveLocal(c, reason) = answered
  BY DEF ResolveLocal
<1>2. (c.list /\ c.resource = "institutions") \/ c.resource = "agreements"
  BY DEF Commands
<1>3. CASE c.list /\ c.resource = "institutions"
  <2>1. found = Stored(c.resource)
    BY <1>3
  <2>2. \A r \in shown : r.type = c.resource => r \in found
    <3> HIDE DEF found
    <3> QED  BY <2>1 DEF Stored
  <2> HIDE DEF found, source
  <2> QED  BY <1>1, <2>2
<1>4. CASE c.resource = "agreements"
  <2> HIDE DEF found, source
  <2> QED  BY <1>1, <1>4
<1> QED  BY <1>2, <1>3, <1>4

\* The rows shown are rows of the mirror, and of the one resource that is listed.
ShownIsStored == shown \subseteq store /\ \A r \in shown : r.type = "institutions"

LEMMA ShownKept == ShownIsStored /\ OfflineKeepsWhatWasShown /\ [Next]_vars
                      => ShownIsStored' /\ OfflineKeepsWhatWasShown'
<1> SUFFICES ASSUME ShownIsStored, OfflineKeepsWhatWasShown, [Next]_vars
             PROVE  ShownIsStored' /\ OfflineKeepsWhatWasShown'
  OBVIOUS
<1>1. ASSUME NEW c \in Commands, NEW source \in DataSources, NEW body \in Sendable, NEW cached \in BOOLEAN,
             LiveRead(c, source, body, cached)
      PROVE  ShownIsStored' /\ OfflineKeepsWhatWasShown'
  <2> DEFINE data == ApplyResponsePath(body, c.path)
             rows == Typed(c.resource, WriteThrough(c.resource, data))
             new  == Typed(c.resource, UpsertBatch(c.resource, Offered(data)))
             live == [source |-> "live", reason |-> None, resource |-> c.resource, rows |-> {}]
             sees == cached /\ c.list /\ IsListBody(data)
  <2>1. answer' = Failed \/ answer' = live
    BY <1>1 DEF LiveRead
  <2>2. answer'.source \in {"error", "live"}
    <3>1. Failed.source = "error"
      BY DEF Failed, NoAnswer
    <3> QED  BY <2>1, <3>1
  <2>3. OfflineKeepsWhatWasShown'
    BY <2>2 DEF OfflineKeepsWhatWasShown
  <2>4. CASE Is("text", body)
    BY <1>1, <2>3, <2>4 DEF LiveRead, ShownIsStored
  <2>5. CASE ~ Is("text", body)
    <3>1. /\ store' = IF cached THEN store \union rows ELSE store
          /\ shown' = IF sees THEN shown \union new ELSE shown
      BY <1>1, <2>5 DEF LiveRead
    <3>2. ASSUME sees PROVE c.resource = "institutions" /\ new \subseteq rows
      <4>1. c.resource = "institutions" /\ c.path = None
        BY <3>2 DEF Commands
      <4>2. None \notin DOMAIN Fields(body)
        BY BodiesAssumption DEF Sendable, Regular
      <4>3. data = body
        BY <4>1, <4>2 DEF ApplyResponsePath
      <4>4. IsListBody(body)
        <5> HIDE DEF data
        <5> QED  BY <3>2, <4>3
      <4>5. UpsertBatch(c.resource, Offered(body)) \subseteq WriteThrough(c.resource, body)
        <5>1. CASE Offered(body) = <<>>
          <6>1. {j \in DOMAIN <<>> : IsMap(<<>>[j])} = {}
            OBVIOUS
          <6>2. UpsertBatch(c.resource, <<>>) = {}
            BY <6>1 DEF UpsertBatch
          <6> QED  BY <5>1, <6>2
        <5>2. CASE Offered(body) # <<>>
          <6>1. WriteThroughItems(body) = Offered(body)
            BY <4>4, <5>2, WriteThroughFinds
          <6> QED  BY <6>1 DEF WriteThrough
        <5> QED  BY <5>1, <5>2
      <4> HIDE DEF data
      <4>6. new = Typed(c.resource, UpsertBatch(c.resource, Offered(body)))
            /\ rows = Typed(c.resource, WriteThrough(c.resource, body))
        BY <4>3
      <4> HIDE DEF new, rows
      <4> QED  BY <4>1, <4>5, <4>6 DEF Typed
    <3>3. \A r \in new : r.type = c.resource
      BY DEF Typed
    <3>4. cached \/ ~ sees
      OBVIOUS
    <3> HIDE DEF data, rows, new, sees
    <3> QED  BY <2>3, <3>1, <3>2, <3>3, <3>4 DEF ShownIsStored
  <2> QED  BY <2>4, <2>5
<1>2. ASSUME NEW resource, NEW body, NEW full \in BOOLEAN, NEW scope \in ScopeOf(resource),
             Sync(resource, scope, body, full)
      PROVE  ShownIsStored' /\ OfflineKeepsWhatWasShown'
  <2> DEFINE out    == SyncBody(resource, scope, body, PathsOf(resource))
             rows   == Typed(resource, out.rows)
             pruned == IF full /\ scope # None /\ out.complete
                       THEN {r \in store \union rows : r.type = resource /\ r.scope = scope /\ r.id \notin out.seen}
                       ELSE {}
  <2>1. store' = (store \union rows) \ pruned /\ answer' = NoAnswer /\ shown' = shown
    BY <1>2 DEF Sync
  <2>2. \A r \in pruned : r.type # "institutions"
    <3>1. scope # None => resource # "institutions"
      BY DEF ScopeOf, ScopedResources
    <3> HIDE DEF out, rows
    <3> QED  BY <3>1
  <2>3. NoAnswer.source = "none"
    BY DEF NoAnswer
  <2> HIDE DEF rows, pruned
  <2> QED  BY <2>1, <2>2, <2>3 DEF ShownIsStored, OfflineKeepsWhatWasShown
<1>3. ASSUME NEW c \in Commands, store' = store, shown' = shown,
             answer' = Failed \/ \E reason \in {"user_requested", "api_unreachable"} : answer' = ResolveLocal(c, reason)
      PROVE  ShownIsStored' /\ OfflineKeepsWhatWasShown'
  <2>1. Failed.source = "error"
    BY DEF Failed, NoAnswer
  <2>2. \A reason \in {"user_requested", "api_unreachable"} :
           \A r \in shown : r.type = ResolveLocal(c, reason).resource => r \in ResolveLocal(c, reason).rows
    BY LocalHasShown DEF ShownIsStored
  <2> QED  BY <1>3, <2>1, <2>2 DEF ShownIsStored, OfflineKeepsWhatWasShown
<1>4. CASE Walk \/ UNCHANGED vars
  <2>1. UNCHANGED <<store, answer, shown>>
    BY <1>4 DEF Walk, GetPage, GetPageFails, StartWalk, vars
  <2> QED  BY <2>1 DEF ShownIsStored, OfflineKeepsWhatWasShown
<1>5. CASE Read
  <2>1. PICK c \in Commands :
           \/ \E source \in DataSources, body \in Sent, cached \in BOOLEAN : LiveRead(c, source, body, cached)
           \/ \E source \in DataSources, unreachable \in BOOLEAN : FailedRead(c, source, unreachable)
           \/ LocalRead(c)
    BY <1>5 DEF Read
  <2>2. CASE \E source \in DataSources, body \in Sent, cached \in BOOLEAN : LiveRead(c, source, body, cached)
    BY <2>2, <1>1, SentSendable
  <2>3. CASE \E source \in DataSources, unreachable \in BOOLEAN : FailedRead(c, source, unreachable)
    BY <2>3, <1>3 DEF FailedRead
  <2>4. CASE LocalRead(c)
    BY <2>4, <1>3 DEF LocalRead
  <2> QED  BY <2>1, <2>2, <2>3, <2>4
<1>7. ASSUME NEW resource, NEW scope, NEW body, SyncFails(resource, scope, body)
      PROVE  ShownIsStored' /\ OfflineKeepsWhatWasShown'
  <2>1. UNCHANGED <<store, shown>> /\ answer' = Failed /\ Failed.source = "error"
    BY <1>7 DEF SyncFails, Failed, NoAnswer
  <2> QED  BY <2>1 DEF ShownIsStored, OfflineKeepsWhatWasShown
<1>6. CASE SyncResource
  BY <1>2, <1>6, <1>7 DEF SyncResource
<1> QED  BY <1>4, <1>5, <1>6 DEF Next

\* An offline list answer has every keyed record that an auto read of the list
\* has shown before and the store has taken, whatever the shape of the body it
\* came in, whichever writes failed since and whatever sync did in between
\* (data_source.go: writeThroughCache, resolveLocal).
THEOREM OfflineKeeps == Spec => []OfflineKeepsWhatWasShown
<1>1. Init => ShownIsStored /\ OfflineKeepsWhatWasShown
  <2> SUFFICES ASSUME Init PROVE ShownIsStored /\ OfflineKeepsWhatWasShown
    OBVIOUS
  <2>1. answer = NoAnswer /\ NoAnswer.source = "none" /\ shown = {}
    BY DEF Init, NoAnswer
  <2> QED  BY <2>1 DEF ShownIsStored, OfflineKeepsWhatWasShown
<1>2. ShownIsStored /\ OfflineKeepsWhatWasShown /\ [Next]_vars
         => (ShownIsStored /\ OfflineKeepsWhatWasShown)'
  BY ShownKept
<1> QED  BY <1>1, <1>2, PTL DEF Spec

=============================================================================
