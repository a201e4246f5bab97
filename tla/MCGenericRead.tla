---------------------------- MODULE MCGenericRead ----------------------------
EXTENDS GenericRead

Obj(f) == [obj |-> f]
Num(n) == [num |-> n]

Items == {Obj("id" :> Num(1)),
          Obj("courseIdentifierParentId" :> Num(2) @@ "id" :> Num(1)),
          Obj("Id" :> Num(3)),
          Obj("id" :> Null @@ "name" :> [str |-> "n"]),
          Obj("courseId" :> Num(4) @@ "institutionId" :> Num(4)),
          Obj("course" :> Obj("id" :> Num(5))),
          Obj("title" :> [str |-> "t"])}

Lists == {[arr |-> <<>>], [arr |-> <<Null>>], [arr |-> <<[str |-> "s"]>>],
          [arr |-> <<Obj("id" :> Num(1)), Obj("id" :> Num(6))>>]}
         \union {[arr |-> <<i>>] : i \in Items}
FewLists == {[arr |-> <<>>], [arr |-> <<Obj("id" :> Num(1)), Obj("id" :> Num(6))>>],
             [arr |-> <<Obj("course" :> Obj("id" :> Num(5)))>>], Null}
Keys == {"data", "results", "items", "records", "courses", "errors"}

Beside == {"id" :> Num(7), "total" :> Num(0), "total" :> Num(2), "has_more" :> [bool |-> TRUE],
           "status" :> [str |-> "error"], "success" :> Null, "next_cursor" :> [str |-> "c"],
           "agreements" :> [arr |-> <<Obj("id" :> Num(8))>>], "errors" :> [arr |-> <<>>], "title" :> [str |-> "t"]}

MCBodies ==
    Lists \union Items \union {Null, Obj(<<>>), [text |-> 0], Num(1), Obj("dry_run" :> [bool |-> TRUE])}
    \union {Obj(k :> l) : k \in Keys, l \in FewLists}
    \union {Obj(k :> l @@ b) : k \in Keys, l \in FewLists, b \in Beside}
    \union {Obj(k :> Obj(j :> l)) : k \in {"data", "result", "_embedded"}, j \in Keys, l \in FewLists}
    \union {Obj(k :> [arr |-> <<>>] @@ "prefixes" :> [arr |-> <<Obj("id" :> Num(6))>>] @@ b) : k \in Keys, b \in Beside}
    \union {Obj("data" :> Obj("courses" :> l @@ b)) : l \in FewLists, b \in Beside}

MCLaterBodies == {[arr |-> <<>>], [arr |-> <<Obj("id" :> Num(6))>>], Null,
                  Obj("results" :> [arr |-> <<Obj("id" :> Num(9))>>] @@ "total" :> Num(2)),
                  Obj("id" :> Num(1) @@ "items" :> [arr |-> <<>>]),
                  Obj("result" :> Obj("id" :> Num(1)))}

\* Every paginator over collections of up to five items, pages of one or two.
MCPaging == {p \in [all : BOOLEAN, type : {"cursor", "page", "offset"}, size : 1..2, cap : 1..3,
                    by : {"cursor", "more", "none"}, key : {"", "data", "prefixes"}, items : 0..5] :
             p.key = "" => p.by = "none"}

=============================================================================
