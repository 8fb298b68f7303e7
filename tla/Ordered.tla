------------------------------- MODULE Ordered ------------------------------
(***************************************************************************)
(* A finite set of numbers as a list, which is what a loop over the        *)
(* numbers makes of those that it keeps.                                   *)
(***************************************************************************)
EXTENDS Integers, FiniteSets

\* The elements of a finite set of numbers, the smallest first.
InOrder(S) ==
  CHOOSE s \in [1 .. Cardinality(S) -> S] : \A i, j \in DOMAIN s : i < j => s[i] < s[j]

=============================================================================
