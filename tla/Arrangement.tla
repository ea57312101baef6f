----------------------------- MODULE Arrangement ----------------------------
(***************************************************************************)
(* Sorted lists and sublists as functions of the position.  SetToSortSeq   *)
(* and SelectSeq say the same, but the provers cannot unfold them; that    *)
(* they agree is checked in MCLibrary.                                     *)
(***************************************************************************)
EXTENDS Integers, FiniteSets

\* The members of S in the order R, a set of pairs <<earlier, later>>.
Arranged(S, R) ==
    [k \in 1..Cardinality(S) |->
        CHOOSE x \in S : Cardinality({y \in S : <<y, x>> \in R}) = k - 1]

\* What a list has at the positions in K.
Picked(list, K) ==
    LET position == Arranged(K, {p \in K \X K : p[1] < p[2]})
    IN  [k \in DOMAIN position |-> list[position[k]]]
=============================================================================
