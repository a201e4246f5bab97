------------------------------ MODULE Positions ------------------------------
(***************************************************************************)
(* The elements of a sequence at some of its positions, in their order: the *)
(* rows a filter keeps of an ordered list.                                  *)
(***************************************************************************)
EXTENDS Integers, Sequences, FiniteSets

\* The k-th smallest of a finite set of positions.
Nth(at, k) == CHOOSE i \in at : Cardinality({j \in at : j <= i}) = k

Picked(s, at) == [k \in 1..Cardinality(at) |-> s[Nth(at, k)]]
=============================================================================
