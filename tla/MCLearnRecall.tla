---------------------------- MODULE MCLearnRecall ----------------------------
(***************************************************************************)
(* Two commands at a time on a store with the questions that differ in     *)
(* capitals, synonyms, stopwords and entities only.                        *)
(***************************************************************************)
EXTENDS LearnRecall

CONSTANTS p1, p2

MCProcs == {p1, p2}
MCSymmetry == Permutations(MCProcs)

Say(w) == [w |-> w, cap |-> FALSE]
Big(w) == [w |-> w, cap |-> TRUE]

MCStop      == {"the", "from"}
MCQueryStop == {"the"}
MCNumbers   == {}
MCPieces(t) == <<t>>
MCSynonyms  == {[from |-> <<"academic", "year">>, to |-> <<"year">>]}
MCWithin    == {<<"math", "mathematics">>}
MCLikeMatches == {}
MCLikeBegins  == {<<"mathed", "math">>}

Res(val)  == [pre |-> "area", kind |-> "lowercase", val |-> val, suf |-> <<>>]
MathUnits == <<Say("the"), Say("units"), Say("from"), Big("math")>>
CalcUnits == <<Say("units"), Say("from"), Big("calc")>>
CsuUnits  == <<Say("units"), Say("from"), Say("csu")>>
MathYear  == <<Say("academic"), Say("year"), Big("math")>>

MCQuestions  == {MathUnits, CsuUnits, MathYear}
MCTeaches    == {[q |-> MathUnits, resources |-> <<Res("math")>>],
                 [q |-> CalcUnits, resources |-> <<Res("calc")>>],
                 [q |-> MathYear, resources |-> <<Res("calc"), Res("math")>>]}
MCSeeds      == {[kind |-> "area", canonical |-> "csuge", value |-> "csu", source |-> "seeded"]}
MCNewLookups == {[kind |-> "department", canonical |-> "math", value |-> "calc", source |-> "taught"]}
MCNewPatterns == {[structure |-> [t \in {"units"} |-> 1], pre |-> "area", kind |-> "lowercase",
                   suf |-> <<>>, prefix |-> TRUE]}
MCCatalog    == <<[id |-> Res("csu"), kind |-> "departments", entities |-> <<"mathematics">>],
                  [id |-> Res("mathed"), kind |-> "prefixes", entities |-> <<"math">>]>>
MCMaxOps == [teach |-> 2, recall |-> 2, forget |-> 1, sync |-> 2, other |-> 1]
=============================================================================
