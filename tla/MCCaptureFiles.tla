---------------------------- MODULE MCCaptureFiles ----------------------------
(* Small instances of CaptureFiles.                                          *)
EXTENDS CaptureFiles

Item(what, crc) == [what |-> what, crc |-> crc]

Raw(items, anchored) ==
    [readable |-> TRUE, dlf |-> FALSE, anchors |-> anchored, items |-> items]

\* A capture with everything, one of noise with an old F3 frame in it, one that
\* does not decompress.
ThreeCaptures ==
    [drive |-> Raw(<<Item("lte", TRUE), Item("f3", TRUE), Item("nr", TRUE), Item("lte", FALSE)>>, TRUE),
     noise |-> Raw(<<Item("other", FALSE), Item("qsr", TRUE)>>, TRUE),
     packed |-> [Raw(<<>>, FALSE) EXCEPT !.readable = FALSE]]

\* Of the jobs that come to the same thing, one.
FewJobs ==
    {j \in Jobs :
        /\ j.stdin \/ j.allow \/ ~j.root => j.in = "drive" /\ j.out = "corpus.dlf"
        /\ ~j.root => ~j.stdin /\ ~j.allow
        /\ j.in = "packed" => j.verify /\ j.out = "corpus.dlf"
        /\ j.out = "-" => j.in = "noise"}

=============================================================================
