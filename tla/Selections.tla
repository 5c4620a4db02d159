------------------------------ MODULE Selections ------------------------------
(***************************************************************************)
(* Parts of a sequence, chosen by their places.  What SelectSeq and        *)
(* SetToSortSeq give, without a recursive definition, so that what they    *)
(* return can be proved.                                                   *)
(***************************************************************************)
EXTENDS Integers, Sequences, FiniteSets

\* The k-th of a set of integers in their order.
Nth(I, k) == CHOOSE x \in I : Cardinality({y \in I : y < x}) = k - 1

\* The elements of s at the places in I, in the order of s.
Picked(s, I) == [k \in 1 .. Cardinality(I) |-> s[Nth(I, k)]]

\* The last of the places in B that lies before e.
LastBefore(B, e) == CHOOSE b \in B : b < e /\ \A c \in B : c < e => c <= b

=============================================================================
