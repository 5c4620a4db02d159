------------------------------ MODULE CaptureDir ------------------------------
(***************************************************************************)
(* The files hdlc_to_dlf and dlf_to_pcap read and leave behind.  They      *)
(* outlive a program, so a later run finds what an earlier one left, also  *)
(* of a run that was killed.                                               *)
(***************************************************************************)
EXTENDS Integers, Sequences, FiniteSets, SequencesExt

CONSTANTS
    Captures,       \* the raw captures there are
    Shape,          \* what is in each: see ShapeAssumption
    Outputs,        \* the DLF files that may be written
    Archived        \* those of them under CAPTURES_ROOT

\* An item of a capture is a frame: an LTE, NR or other log record, an F3
\* message (0x79, 0x99) or one of the older kind (0x92), with a good CRC or not.
FrameKinds == {"lte", "nr", "other", "f3", "qsr"}

ShapeAssumption ==
    \A c \in Captures :
        /\ {Shape[c].readable, Shape[c].dlf, Shape[c].anchors} \subseteq BOOLEAN
        /\ Shape[c].items \in Seq([what : FrameKinds, crc : BOOLEAN])

ASSUME DirAssumption ==
    /\ ShapeAssumption
    /\ Captures # {} /\ Outputs # {} /\ Archived \subseteq Outputs

VARIABLES
    dlf,            \* each output, and "-" for what went to stdout
    anchors,        \* the capture whose anchor sidecar stands beside an
                    \* output; "none"; "cut" for a copy that failed half way
    f3,             \* the .f3.jsonl of a capture: how much of it there is
    pcap, nr,       \* <output>.pcap and <output>.nr.pcap
    pc              \* where the running program is; "off" when none is

dir == <<dlf, anchors, f3, pcap, nr>>

\* A file holds records; of the last one a part may be left.
NoFile     == [there |-> FALSE, recs |-> <<>>, torn |-> FALSE]
File(recs) == [there |-> TRUE, recs |-> recs, torn |-> FALSE]

DirInit ==
    /\ dlf = [o \in Outputs \cup {"-"} |-> NoFile]
    /\ anchors = [o \in Outputs |-> "none"]
    /\ f3 = [c \in Captures |-> "none"]
    /\ pcap = [o \in Outputs |-> NoFile] /\ nr = [o \in Outputs |-> NoFile]
    /\ pc = "off"

At(from, to) == pc = from /\ pc' = to

AddTo(files, o, rec) == [files EXCEPT ![o].recs = Append(@, rec)]

\* What may be on the disk of a file whose writer was not closed.
CutShort(file) ==
    {file} \cup {[there |-> TRUE, recs |-> SubSeq(file.recs, 1, n), torn |-> t] :
                    n \in 0 .. Len(file.recs) - 1, t \in BOOLEAN}

DirTypeOK ==
    /\ anchors \in [Outputs -> Captures \cup {"none", "cut"}]
    /\ f3 \in [Captures -> {"none", "empty", "part", "full"}]
    /\ \A files \in {dlf, pcap, nr} : \A o \in DOMAIN files :
          ~files[o].there => files[o] = NoFile

=============================================================================
