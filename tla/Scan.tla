-------------------------------- MODULE Scan --------------------------------
(***************************************************************************)
(* The program keeps its tables in arrays and looks things up by scanning  *)
(* them from the start: the first index that matches, counted from 1, or 0 *)
(* for NULL / -1 when none does.                                           *)
(***************************************************************************)
EXTENDS Naturals, FiniteSets, FiniteSetsExt

NoSlot == 0

FirstOr0(S) == IF S = {} THEN NoSlot ELSE Min(S)

(* What is left of array s when the entries at the indices I are moved up  *)
(* in their order and the others dropped (SelectSeq, by index).            *)
Selected(s, I) ==
    LET KthOf(k) == CHOOSE i \in I : Cardinality({j \in I : j <= i}) = k
    IN [k \in 1..Cardinality(I) |-> s[KthOf(k)]]

=============================================================================
