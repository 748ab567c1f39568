------------------------------ MODULE Containers ------------------------------
(***************************************************************************)
(* The order in which a std::set or a std::map of integers is traversed,   *)
(* and what a filter leaves of a std::vector.                              *)
(***************************************************************************)
EXTENDS Integers, SequencesExt

Ascending(S) ==
  [i \in 1..Cardinality(S) |->
     CHOOSE x \in S : Cardinality({y \in S : y < x}) = i - 1]

\* The elements of s that are in K, in their order: SelectSeq with its recursion
\* spelled out, which TLAPS has no definition of.
Kept(s, K) ==
  LET kept[i \in 0..Len(s)] ==
        IF i = 0 THEN <<>>
        ELSE IF s[i] \in K THEN Append(kept[i - 1], s[i]) ELSE kept[i - 1]
  IN  kept[Len(s)]

=============================================================================
