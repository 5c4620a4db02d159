---------------------------- MODULE MCMaskState ------------------------------
(* Small instances of MaskState, and of the functions on masks.              *)
EXTENDS MaskState, MasksetChecks

\* SET_ALL stores 0 and 3 as they are, and 1 as 3.
PrefixOr == [l \in Levels |-> IF l = 0 THEN 0 ELSE 3]

NoNoise == {}

=============================================================================
