------------------------------ MODULE PcapExport ------------------------------
(***************************************************************************)
(* munge/dlf_to_pcap.py: the records of one DLF file, LTE ones to a GSMTAP *)
(* pcap and NR ones to its .nr.pcap sibling.                               *)
(***************************************************************************)
EXTENDS CaptureDir

VARIABLES
    source,         \* the file that is exported
    data,           \* the records that were read from it
    place,          \* how many of them have been looked at
    calibrated,     \* frames get wall-clock time as far as the calibrator knows
    result,         \* the exit code of the last run; -1 when it was killed
    outputs,        \* history: pcap and nr when it was started
    framed          \* history: the records it has made frames of

export == <<source, data, place, calibrated, result, outputs, framed>>

ExportInit ==
    /\ source \in {CHOOSE o \in Outputs : TRUE} /\ data = <<>> /\ place = 0
    /\ calibrated = FALSE /\ result = -1
    /\ outputs = <<pcap, nr>> /\ framed = {}

Result(code) == pc' = "off" /\ result' = code

\* main() up to the reading of the whole file.
Export(o) ==
    /\ pc = "off"
    /\ source' = o /\ place' = 0 /\ data' = dlf[o].recs
    /\ outputs' = <<pcap, nr>> /\ framed' = {}
    /\ IF dlf[o].there THEN pc' = "export" /\ UNCHANGED result ELSE Result(2)
    /\ UNCHANGED <<dir, calibrated>>

\* The file cannot be read, or the calibration pass meets a format error.
CannotRead ==
    /\ pc = "export" /\ Result(1)
    /\ UNCHANGED <<dir, source, data, place, calibrated, outputs, framed>>

OpenPcap ==
    /\ At("export", "open nr")
    /\ calibrated' \in BOOLEAN
    /\ pcap' = [pcap EXCEPT ![source] = File(<<>>)]
    /\ UNCHANGED <<dlf, anchors, f3, nr, source, data, place, result, outputs, framed>>

OpenNr ==
    /\ At("open nr", "encode")
    /\ nr' = [nr EXCEPT ![source] = File(<<>>)]
    /\ UNCHANGED <<dlf, anchors, f3, pcap, export>>

What(rec) == Shape[rec[1]].items[rec[2]].what

\* _frame_ts(): without a wall-clock time, the frames of the file count as steps.
Stamp(file) == Len(file.recs)

Stamps(file) == {Stamp(file)} \cup (IF calibrated THEN {-1} ELSE {})

Frame(rec, stamp) == [rec |-> rec, stamp |-> stamp]

Into(files) ==
    /\ framed' = framed \cup {data[place + 1]}
    /\ \E t \in Stamps(files[source]) :
          files' = AddTo(files, source, Frame(data[place + 1], t))

\* A record that is not wanted, not parsed or declined by its encoder is passed.
Encode ==
    /\ pc = "encode" /\ place < Len(data)
    /\ place' = place + 1
    /\ \/ UNCHANGED <<pcap, nr, framed>>
       \/ What(data[place']) = "lte" /\ Into(pcap) /\ UNCHANGED nr
       \/ What(data[place']) = "nr"  /\ Into(nr) /\ UNCHANGED pcap
    /\ UNCHANGED <<dlf, anchors, f3, pc, source, data, calibrated, result, outputs>>

\* Mutant: it goes by the frames of the other pcap.
FinalizeByOther(written) ==
    \/ UNCHANGED nr
    \/ pcap[source].recs = <<>> /\ nr' = [nr EXCEPT ![source] = NoFile]

\* _finalize_outputs().  That the sibling cannot be removed is passed over.
Finalize(written) ==
    \/ UNCHANGED nr
    \/ written = 0 /\ nr' = [nr EXCEPT ![source] = NoFile]

Finish ==
    /\ pc = "encode" /\ place = Len(data) /\ Result(0)
    /\ Finalize(Len(nr[source].recs))
    /\ UNCHANGED <<dlf, anchors, f3, pcap, source, data, place, calibrated, outputs, framed>>

\* A format error in the middle: the sibling goes, whatever is in it.
FormatError ==
    /\ pc = "encode" /\ Result(1)
    /\ Finalize(0)
    /\ UNCHANGED <<dlf, anchors, f3, pcap, source, data, place, calibrated, outputs, framed>>

\* Killed, or raising anything else: the second open(), write(), a parser.
ExportKilled ==
    /\ pc \in {"export", "open nr", "encode"} /\ Result(-1)
    /\ IF pc = "encode"
       THEN \E p \in CutShort(pcap[source]), n \in CutShort(nr[source]) :
                /\ pcap' = [pcap EXCEPT ![source] = p]
                /\ nr' = [nr EXCEPT ![source] = n]
       ELSE UNCHANGED <<pcap, nr>>
    /\ UNCHANGED <<dlf, anchors, f3, source, data, place, calibrated, outputs, framed>>

ExportStep ==
    \/ CannotRead \/ OpenPcap \/ OpenNr \/ Encode \/ Finish \/ FormatError

-----------------------------------------------------------------------------
(* Properties.                                                             *)

\* Frames in the order of the records, each record once, of one kind; and the
\* time of those that have none of their own only goes up.
WellOrdered(frames, kind) ==
    /\ \A k \in DOMAIN frames : What(frames[k].rec) = kind
    /\ \A j, k \in DOMAIN frames : j < k =>
          /\ frames[j].rec[2] < frames[k].rec[2]
          /\ frames[j].stamp # -1 /\ frames[k].stamp # -1 => frames[j].stamp < frames[k].stamp

\* All of the frames of one kind that this run made, and no others.
HoldsFrames(file, kind) ==
    /\ ~file.torn /\ WellOrdered(file.recs, kind)
    /\ {file.recs[k].rec : k \in DOMAIN file.recs} = {rec \in framed : What(rec) = kind}

\* After exit 0 the two pcaps hold between them every frame the run has made, of
\* the file that was given: a sibling that goes had nothing in it.  After exit 1
\* they are as they were, or the first holds the frames up to the error and the
\* sibling is gone, or could not be removed and does too.  Exit 2 has touched
\* nothing.  No other output is touched.
PcapsMatchRecords ==
    LET untouched(o) == pcap[o] = outputs[1][o] /\ nr[o] = outputs[2][o]
        whole == pcap[source].there /\ HoldsFrames(pcap[source], "lte")
    IN  /\ framed \subseteq ToSet(data)
        /\ \A o \in Outputs \ {source} : untouched(o)
        /\ pc = "off" =>
              /\ result = 0 => whole /\ HoldsFrames(nr[source], "nr")
              /\ result = 1 =>
                    \/ untouched(source)
                    \/ whole /\ (nr[source] = NoFile \/ HoldsFrames(nr[source], "nr"))
              /\ result = 2 => untouched(source)

=============================================================================
