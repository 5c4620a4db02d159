------------------------------ MODULE Conversion ------------------------------
(***************************************************************************)
(* munge/hdlc_to_dlf.py, main(): what it refuses, what it writes, and what *)
(* each of its exits leaves in the directory.                              *)
(***************************************************************************)
EXTENDS CaptureDir

CONSTANT
    RefusePercent   \* _CRC_BAD_REFUSE_FRACTION, in percent; 99 in the code

ASSUME ConversionAssumption == RefusePercent \in 1 .. 100

VARIABLES
    job,            \* its arguments, and whether it finds CAPTURES_ROOT
    pos,            \* the items of the capture walked so far
    stop,           \* _STOP_REQUESTED
    stopped,        \* the walk was broken off
    exit,           \* the exit code of the last run; -1 when it was killed
    told,           \* what it said of the F3 that its output does not have
    before,         \* history: dlf and anchors when it was started
    made            \* history: the conversion that last opened each output

conversion == <<job, pos, stop, stopped, exit, told, before, made>>

Jobs == [in : Captures, stdin : BOOLEAN, out : Outputs \cup {"-"},
         verify : BOOLEAN, allow : BOOLEAN, root : BOOLEAN]

Snapshot == [dlf |-> dlf, anchors |-> anchors]

ConversionInit ==
    /\ job \in {CHOOSE j \in Jobs : TRUE}
    /\ pos = 0 /\ stop = FALSE /\ stopped = FALSE /\ exit = -1
    /\ told = "nothing" /\ before = Snapshot
    /\ made = [o \in Outputs \cup {"-"} |-> {}]

Convert(j) ==
    /\ At("off", "check")
    /\ job' = j /\ before' = Snapshot
    /\ pos' = 0 /\ stop' = FALSE /\ stopped' = FALSE /\ told' = "nothing"
    /\ UNCHANGED <<dir, exit, made>>

Exit(code) ==
    /\ pc' = "off" /\ exit' = code
    /\ UNCHANGED <<job, pos, stop, stopped, before, made>>

-----------------------------------------------------------------------------
(* What iter_log_records() of diaggrok yields and counts.                  *)

Items == Shape[job.in].items

\* With --verify-crc a frame with a bad CRC is skipped.
Good(i) == job.verify => Items[i].crc

IsRecord(i) == Items[i].what \notin {"f3", "qsr"} /\ Good(i)

\* A checked walk without one record, in which so many frames fail.
AllBad ==
    /\ job.verify /\ Items # <<>> /\ \A i \in DOMAIN Items : ~IsRecord(i)
    /\ Cardinality({i \in DOMAIN Items : ~Items[i].crc}) * 100 >= RefusePercent * Len(Items)

\* _dropped_f3_frame_count(): 0x92 is not among them.
DroppedF3(j) ==
    {i \in DOMAIN Shape[j.in].items :
        Shape[j.in].items[i].what = "f3" /\ (j.verify => Shape[j.in].items[i].crc)}

-----------------------------------------------------------------------------
(* Before a byte is written.                                               *)

\* Mutant: an empty one will do.
AnySidecar == ~job.stdin /\ f3[job.in] # "none"

Sidecar == ~job.stdin /\ f3[job.in] \notin {"none", "empty"}

\* Without CAPTURES_ROOT nothing is archival.
Archival == job.out \in Archived /\ job.root

Unreadable == ~Shape[job.in].readable \/ Shape[job.in].dlf

Gate0 == Archival /\ ~job.allow /\ DroppedF3(job) # {} /\ ~Sidecar

RefuseInput ==
    /\ pc = "check" /\ Unreadable /\ Exit(2)
    /\ UNCHANGED <<dir, told>>

RefuseF3 ==
    /\ pc = "check" /\ ~Unreadable /\ Gate0 /\ Exit(3)
    /\ UNCHANGED <<dir, told>>

\* Mutant: the file is opened for appending.
OpenForAppending ==
    /\ ~Unreadable /\ ~Gate0 /\ At("check", "walk")
    /\ dlf' = [dlf EXCEPT ![job.out].there = TRUE]
    /\ made' = [made EXCEPT ![job.out] = {job}]
    /\ UNCHANGED <<anchors, f3, pcap, nr, job, pos, stop, stopped, exit, told, before>>

OpenOutput ==
    /\ ~Unreadable /\ ~Gate0 /\ At("check", "walk")
    /\ dlf' = [dlf EXCEPT ![job.out] = File(<<>>)]
    /\ made' = [made EXCEPT ![job.out] = {job}]
    /\ UNCHANGED <<anchors, f3, pcap, nr, job, pos, stop, stopped, exit, told, before>>

-----------------------------------------------------------------------------
(* The walk, and what follows it.                                          *)

\* The stop is looked at between two records.
Walk ==
    /\ pc = "walk" /\ pos < Len(Items)
    /\ IF IsRecord(pos + 1) /\ stop
       THEN /\ pc' = "carry" /\ stopped' = TRUE
            /\ UNCHANGED <<dlf, pos>>
       ELSE /\ pos' = pos + 1
            /\ dlf' = IF IsRecord(pos') THEN AddTo(dlf, job.out, <<job.in, pos'>>) ELSE dlf
            /\ UNCHANGED <<pc, stopped>>
    /\ UNCHANGED <<anchors, f3, pcap, nr, job, stop, exit, told, before, made>>

WalkEnds ==
    /\ pos = Len(Items) /\ At("walk", "carry")
    /\ UNCHANGED <<dir, conversion>>

\* _carry_anchor_sidecar() never overwrites.  An error of copy2() is reported,
\* and what was copied stays.
Carry ==
    /\ At("carry", "report")
    /\ IF ~job.stdin /\ job.out # "-" /\ Shape[job.in].anchors /\ anchors[job.out] = "none"
       THEN \E s \in {job.in, "cut", "none"} : anchors' = [anchors EXCEPT ![job.out] = s]
       ELSE UNCHANGED anchors
    /\ UNCHANGED <<dlf, f3, pcap, nr, conversion>>

Refused4 == ~stopped /\ AllBad

\* The F3 passed by on the way, and whether it is banked; nothing of what went
\* to stdout or was removed.
Loss ==
    IF Refused4 \/ job.out = "-" \/ DroppedF3(job) \cap (1 .. pos) = {} THEN "nothing"
    ELSE IF Sidecar THEN "saved" ELSE "lost"

Report ==
    /\ pc = "report" /\ told' = Loss
    /\ Exit(IF Refused4 THEN 4 ELSE IF stopped THEN 130 ELSE 0)
    /\ dlf' = IF Refused4 /\ job.out # "-" THEN [dlf EXCEPT ![job.out] = NoFile] ELSE dlf
    /\ UNCHANGED <<anchors, f3, pcap, nr>>

ConversionStep ==
    \/ RefuseInput \/ RefuseF3 \/ OpenOutput \/ Walk \/ WalkEnds \/ Carry \/ Report

Converting == pc \in {"walk", "carry", "report"}

\* SIGINT once the handler is there.
Interrupt ==
    /\ Converting /\ ~stop
    /\ stop' = TRUE
    /\ UNCHANGED <<dir, pc, job, pos, stopped, exit, told, before, made>>

\* Killed, or an error of write(); before the handler is there SIGINT too.
ConversionKilled ==
    /\ Converting \/ pc = "check"
    /\ Exit(-1)
    /\ IF pc = "walk"
       THEN \E left \in CutShort(dlf[job.out]) : dlf' = [dlf EXCEPT ![job.out] = left]
       ELSE UNCHANGED dlf
    /\ UNCHANGED <<anchors, f3, pcap, nr, told>>

\* The F3 extractor, another program, is at work on a capture or has died.
ExtractF3(c) ==
    /\ \E i \in DOMAIN Shape[c].items : Shape[c].items[i] = [what |-> "f3", crc |-> TRUE]
    /\ f3' = [f3 EXCEPT ![c] = CASE @ = "none"  -> "empty"
                                 [] @ = "empty" -> "part"
                                 [] OTHER       -> "full"]
    /\ UNCHANGED <<dlf, anchors, pcap, nr, pc, conversion>>

-----------------------------------------------------------------------------
(* Properties.                                                             *)

\* The log records among the first n items, each once and in their order.
Holds(file, n) ==
    /\ file.there /\ ~file.torn
    /\ ToSet(file.recs) = {<<job.in, k>> : k \in {i \in 1 .. n : IsRecord(i)}}
    /\ \A i, j \in DOMAIN file.recs : i < j => file.recs[i][2] < file.recs[j][2]

Untouched(o) == dlf[o] = before.dlf[o] /\ (o # "-" => anchors[o] = before.anchors[o])

\* What each exit leaves.  A refusal (2, 3) comes before the first byte; 4 keeps
\* no output; 0 means every record, 130 some first ones, and neither a part of
\* one; a sidecar that was there is kept, and no other file is touched.
ExitsLeaveWhatTheySay ==
    LET file == dlf[job.out]
    IN  /\ DirTypeOK
        /\ \A o \in Outputs \ {job.out} : Untouched(o)
        /\ job.out # "-" /\ before.anchors[job.out] # "none"
              => anchors[job.out] = before.anchors[job.out]
        /\ pc = "off" =>
              /\ exit \in {2, 3} => Untouched(job.out)
              /\ exit = 4 => ~file.there \/ job.out = "-"
              /\ exit = 0 => Holds(file, Len(Items))
              /\ exit = 130 => \E n \in DOMAIN Items : Holds(file, n - 1)

\* No F3 gets lost unsaid, whatever was converted before and whatever the
\* extractor does meanwhile.  A DLF of the corpus was made of a capture with F3
\* that counts only with the flag, without a CAPTURES_ROOT, or beside a sidecar
\* that has something in it (not: one that has everything in it).  A run that
\* ends names what it passed by, calls it saved only beside such a sidecar, and
\* lost never in the corpus unless the flag allowed it.
F3LossIsTold ==
    LET saved(j) == ~j.stdin /\ f3[j.in] \in {"part", "full"}
    IN  /\ \A o \in Archived : \A j \in made[o] :
              dlf[o].there /\ j.root /\ ~j.allow /\ DroppedF3(j) # {} => saved(j)
        /\ pc = "off" /\ exit \in {0, 130} =>
              /\ told = "nothing" <=> job.out = "-" \/ DroppedF3(job) \cap (1 .. pos) = {}
              /\ told = "saved" => saved(job)
              /\ told = "lost"  => job.allow \/ ~Archival

=============================================================================
