-------------------------------- MODULE Json --------------------------------
(***************************************************************************)
(* JSON values.  A value is a record with one telling field.  A key, a     *)
(* pointer or a text is a sequence of pieces, so that what "/" and "~" do  *)
(* in a key is kept.  A number is a numeral, so that 3.0 is not 3.         *)
(***************************************************************************)
EXTENDS Integers, SequencesExt

CONSTANTS
    Lowered,  \* keys with upper-case letters, to their lower-case form
    Kebabed,  \* and to their kebab-case form
    Floats    \* numerals that a float64 spells otherwise, to its spelling

Null           == [null |-> TRUE]
True           == [bool |-> TRUE]
Num(n)         == [num |-> n]
Text(s)        == [text |-> s]
Coded(v, rest) == [coded |-> v, rest |-> rest] \* a string that holds v as JSON, and more text
Obj(f)         == [obj |-> f]
Arr(s)         == [arr |-> s]
Is(kind, v)    == kind \in DOMAIN v
K(name)        == <<name>>
Only(k, v)     == [x \in {K(k)} |-> v]

Lower(k) == IF k \in DOMAIN Lowered THEN Lowered[k] ELSE k
Kebab(k) == IF k \in DOMAIN Kebabed THEN Kebabed[k] ELSE k
Float(n) == IF n \in DOMAIN Floats THEN Floats[n] ELSE n
=============================================================================
