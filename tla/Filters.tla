------------------------------ MODULE Filters ------------------------------
(***************************************************************************)
(* The loops of the application that copy what they want of a list.  The   *)
(* result is defined by counting: its k-th element is at the place that    *)
(* has k wanted places up to it.  Unlike SelectSeq this takes a set and no *)
(* operator, and needs no recursion, so that it can be reasoned about.     *)
(***************************************************************************)
EXTENDS Naturals, Sequences, FiniteSets

\* Where the elements of s are that belong to S.
Places(s, S) == {i \in DOMAIN s : s[i] \in S}

\* How many of the places are not after i.
Rank(places, i) == Cardinality({j \in places : j <= i})

\* The elements of s that belong to S, in their order.
Filter(s, S) ==
  LET places == Places(s, S)
  IN  [k \in 1..Cardinality(places) |-> s[CHOOSE i \in places : Rank(places, i) = k]]

=============================================================================
