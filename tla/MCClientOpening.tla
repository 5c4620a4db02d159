--------------------------- MODULE MCClientOpening ----------------------------
(* Small instances of ClientOpening.                                         *)
EXTENDS ClientOpening, TLC

LogNoise == {Frame("LOG", "", <<>>)}

Shape(proto, sub, ein, eout) ==
    [vendor |-> TRUE, sub |-> sub, proto |-> proto, ein |-> ein, eout |-> eout]

\* An LE gadget: a descriptor-only function, ipc, DIAG, and an odd one.
Gadget ==
    1 :> Shape(255, TRUE, 129, None) @@ 2 :> Shape(48, TRUE, 130, 3)
        @@ 3 :> Shape(255, TRUE, 131, 4) @@ 4 :> Shape(7, FALSE, 133, 5)

SomeArgs ==
    [iface : {None, 1, 3, 9}, ein : {None, 131}, eout : {None, 2}, probe : BOOLEAN, readable : BOOLEAN]

=============================================================================
