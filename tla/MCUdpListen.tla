---------------------------- MODULE MCUdpListen ------------------------------
(* Small instances of UdpListen.                                             *)
EXTENDS UdpListen

Dge1(p, s) == [dgram |-> "dge1", payload |-> p, seq |-> s, restart |-> FALSE]

\* Four consecutive datagrams around the wrap of the sequence space, to be
\* taken in any order and more than once.
SomeDge1 == {Dge1("part", 8), Dge1("frame", 9), Dge1("junk", 0), Dge1("bare", 1)}

EveryKind == SomeDge1 \cup {Malformed, Zero, Dge1("none", 0)}

=============================================================================
