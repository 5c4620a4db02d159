----------------------------- MODULE LossyStream -----------------------------
(***************************************************************************)
(* What a DGE1 receiver promises the reader of its byte stream: payloads   *)
(* may be missing, but those it hands over come in the order they were     *)
(* sent, and none comes twice ("dropped rather than appended, to avoid     *)
(* corrupting the byte stream").                                           *)
(***************************************************************************)
EXTENDS Integers, Sequences

VARIABLES
    count,      \* payloads sent so far: they are numbered 1 .. count
    got         \* the payloads handed over, in order

Init == count = 0 /\ got = <<>>

Send == count' = count + 1 /\ UNCHANGED got

\* A call hands over one payload or several, all newer than the last one.
Deliver ==
    /\ UNCHANGED count
    /\ Len(got') > Len(got)
    /\ SubSeq(got', 1, Len(got)) = got
    /\ \A i \in Len(got) + 1 .. Len(got') :
          /\ got'[i] \in 1 .. count
          /\ i > 1 => got'[i - 1] < got'[i]

Next == Send \/ Deliver

Spec == Init /\ [][Next]_<<count, got>>

=============================================================================
