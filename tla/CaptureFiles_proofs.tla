-------------------------- MODULE CaptureFiles_proofs --------------------------
(***************************************************************************)
(* Proofs about CaptureFiles, for any captures, any number of conversions  *)
(* and exports of any of them, kills and interrupts, and the F3 extractor  *)
(* at work meanwhile.                                                      *)
(***************************************************************************)
EXTENDS CaptureFiles, SequenceTheorems, TLAPS

-----------------------------------------------------------------------------
(* Files.                                                                  *)

FileOf(S) ==
    {file \in [there : BOOLEAN, recs : Seq(S), torn : BOOLEAN] : ~file.there => file = NoFile}

Recs == Captures \X Nat

Increasing(recs) == \A i, j \in DOMAIN recs : i < j => recs[i][2] < recs[j][2]

\* An empty file, and none, are files.
LEMMA EmptyFiles ==
    ASSUME NEW S
    PROVE  /\ NoFile \in FileOf(S) /\ File(<<>>) \in FileOf(S)
           /\ NoFile.there = FALSE /\ NoFile.recs = <<>> /\ NoFile.torn = FALSE
           /\ File(<<>>).there = TRUE /\ File(<<>>).recs = <<>> /\ File(<<>>).torn = FALSE
           /\ Increasing(<<>>)
<1>1. <<>> \in Seq(S) /\ DOMAIN <<>> = {}
  OBVIOUS
<1>2. QED
  BY <1>1 DEF NoFile, File, FileOf, Increasing

\* A record is added at the end of one file and no other.
LEMMA AddToAppends ==
    ASSUME NEW D, NEW S, NEW files \in [D -> FileOf(S)], NEW o \in D, NEW rec \in S,
           files[o].there
    PROVE  LET new == AddTo(files, o, rec)
           IN  /\ new \in [D -> FileOf(S)]
               /\ \A p \in D \ {o} : new[p] = files[p]
               /\ new[o].there /\ new[o].torn = files[o].torn
               /\ new[o].recs = Append(files[o].recs, rec)
<1> DEFINE new == AddTo(files, o, rec)
           file == [files[o] EXCEPT !.recs = Append(@, rec)]
<1>1. files[o] \in [there : BOOLEAN, recs : Seq(S), torn : BOOLEAN]
  BY DEF FileOf
<1>2. Append(files[o].recs, rec) \in Seq(S)
  BY <1>1, AppendProperties
<1>3. /\ file \in [there : BOOLEAN, recs : Seq(S), torn : BOOLEAN]
      /\ file.there = files[o].there /\ file.torn = files[o].torn
      /\ file.recs = Append(files[o].recs, rec)
  BY <1>1, <1>2
<1>4. new = [files EXCEPT ![o] = file]
  BY DEF AddTo
<1> HIDE DEF file
<1>5. file \in FileOf(S)
  BY <1>3 DEF FileOf
<1>6. new \in [D -> FileOf(S)] /\ new[o] = file /\ \A p \in D \ {o} : new[p] = files[p]
  BY <1>4, <1>5
<1>7. QED
  BY <1>3, <1>6

\* What a kill may leave is a first part of the file.
LEMMA CutShortIsFront ==
    ASSUME NEW S, NEW file \in FileOf(S), NEW cut \in CutShort(file)
    PROVE  /\ cut \in FileOf(S)
           /\ \E n \in 0 .. Len(file.recs) : cut.recs = SubSeq(file.recs, 1, n)
<1>1. /\ file \in [there : BOOLEAN, recs : Seq(S), torn : BOOLEAN]
      /\ ~file.there => file = NoFile
  BY DEF FileOf
<1>2. Len(file.recs) \in Nat /\ file.recs \in Seq(S)
  BY <1>1
<1>3. CASE cut = file
  <2>1. file.recs = SubSeq(file.recs, 1, Len(file.recs))
    BY <1>2, SubSeqFull
  <2>2. QED
    BY <1>2, <1>3, <2>1
<1>4. CASE \E n \in 0 .. Len(file.recs) - 1, t \in BOOLEAN :
              cut = [there |-> TRUE, recs |-> SubSeq(file.recs, 1, n), torn |-> t]
  <2>1. PICK n \in 0 .. Len(file.recs) - 1, t \in BOOLEAN :
              cut = [there |-> TRUE, recs |-> SubSeq(file.recs, 1, n), torn |-> t]
    BY <1>4
  <2>3. SubSeq(file.recs, 1, n) \in Seq(S)
    BY <1>2, <2>1, SubSeqProperties
  <2>4. /\ cut \in [there : BOOLEAN, recs : Seq(S), torn : BOOLEAN]
        /\ cut.there /\ cut.recs = SubSeq(file.recs, 1, n)
    BY <1>1, <2>1, <2>3
  <2>5. n \in 0 .. Len(file.recs)
    BY <1>2, <2>1
  <2>6. QED
    BY <2>4, <2>5 DEF FileOf
<1>5. QED
  BY <1>3, <1>4 DEF CutShort

LEMMA FrontIncreases ==
    ASSUME NEW S, NEW recs \in Seq(S), Increasing(recs), NEW n \in 0 .. Len(recs)
    PROVE  Increasing(SubSeq(recs, 1, n))
<1>1. /\ DOMAIN SubSeq(recs, 1, n) = 1 .. n
      /\ \A i \in 1 .. n : SubSeq(recs, 1, n)[i] = recs[i]
  BY SubSeqProperties
<1>2. \A i \in 1 .. n : i \in DOMAIN recs
  OBVIOUS
<1> DEFINE front == SubSeq(recs, 1, n)
<1>3. DOMAIN front = 1 .. n /\ \A i \in 1 .. n : front[i] = recs[i]
  BY <1>1
<1> HIDE DEF front
<1>4. Increasing(front)
  BY <1>2, <1>3 DEF Increasing
<1>5. QED
  BY <1>4 DEF front

\* A sequence that goes up still does with a later record at its end.
LEMMA LaterIncreases ==
    ASSUME NEW recs \in Seq(Recs), Increasing(recs), NEW rec \in Recs,
           \A i \in DOMAIN recs : recs[i][2] < rec[2]
    PROVE  Increasing(Append(recs, rec))
<1> DEFINE new == Append(recs, rec)
<1>1. /\ Len(recs) \in Nat /\ DOMAIN recs = 1 .. Len(recs)
      /\ DOMAIN new = 1 .. Len(recs) + 1
      /\ \A i \in 1 .. Len(recs) : new[i] = recs[i]
      /\ new[Len(recs) + 1] = rec
  BY AppendProperties
<1> HIDE DEF new
<1>2. SUFFICES ASSUME NEW i \in DOMAIN new, NEW j \in DOMAIN new, i < j
               PROVE  new[i][2] < new[j][2]
  BY DEF Increasing, new
<1>3. i \in 1 .. Len(recs) /\ (j \in 1 .. Len(recs) \/ j = Len(recs) + 1)
  BY <1>1, <1>2
<1>4. QED
  BY <1>1, <1>2, <1>3 DEF Increasing

-----------------------------------------------------------------------------
(* The inductive invariants.                                               *)

Frames == [rec : Recs, stamp : Int]

FilesTypeOK ==
    /\ DirTypeOK
    /\ dlf \in [Outputs \cup {"-"} -> FileOf(Recs)]
    /\ pcap \in [Outputs -> FileOf(Frames)]
    /\ nr \in [Outputs -> FileOf(Frames)]

Increases(files) == \A o \in DOMAIN files : Increasing(files[o].recs)

\* What a conversion with arguments j holds once it has walked n items.
ItemsOf(j) == Shape[j.in].items

IsRecordOf(j, i) == ItemsOf(j)[i].what \notin {"f3", "qsr"} /\ (j.verify => ItemsOf(j)[i].crc)

HasAll(j, file, n) ==
    /\ file.there /\ ~file.torn /\ Increasing(file.recs)
    /\ ToSet(file.recs) = {<<j.in, k>> : k \in {i \in 1 .. n : IsRecordOf(j, i)}}

\* What an exit has left.
Left ==
    /\ exit \in {2, 3} => Untouched(job.out)
    /\ exit = 4 => ~dlf[job.out].there \/ job.out = "-"
    /\ exit = 0 => HasAll(job, dlf[job.out], Len(Items))
    /\ exit = 130 => \E n \in 1 .. Len(Items) : HasAll(job, dlf[job.out], n - 1)

OthersUntouched == \A o \in Outputs \ {job.out} : Untouched(o)

SidecarKept ==
    job.out # "-" /\ before.anchors[job.out] # "none"
        => anchors[job.out] = before.anchors[job.out]

\* The walk is at item pos, and was broken off only before the last.
Walked ==
    /\ pos \in 0 .. Len(Items) /\ HasAll(job, dlf[job.out], pos)
    /\ pc = "walk" => ~stopped
    /\ pc # "walk" => IF stopped THEN pos < Len(Items) ELSE pos = Len(Items)

ConversionInv ==
    /\ job \in Jobs
    /\ OthersUntouched /\ SidecarKept
    /\ pc = "check" => Untouched(job.out) /\ pos = 0 /\ ~stopped
    /\ Converting => Walked
    /\ ~Converting /\ pc # "check" => Left

\* The decision of Gate 0 holds on: it was made for good, and the extractor
\* never takes back what it has saved.
Saved(j) == ~j.stdin /\ f3[j.in] \in {"part", "full"}

NeedsSidecar(j) == j.root /\ ~j.allow /\ DroppedF3(j) # {}

SaidRight ==
    /\ told = "nothing" <=> job.out = "-" \/ DroppedF3(job) \cap (1 .. pos) = {}
    /\ told = "saved" => Saved(job)
    /\ told = "lost"  => job.allow \/ ~Archival

ArchiveInv ==
    /\ made \in [Outputs \cup {"-"} -> SUBSET Jobs]
    /\ \A o \in Archived : \A j \in made[o] : NeedsSidecar(j) => Saved(j)
    /\ Converting /\ job.out \in Archived /\ NeedsSidecar(job) => Saved(job)
    /\ ~Converting /\ pc # "check" /\ exit \in {0, 130} => SaidRight

CIInv == FilesTypeOK /\ Increases(dlf) /\ ConversionInv /\ ArchiveInv

-----------------------------------------------------------------------------
(* A conversion.                                                           *)

LEMMA JobTypes ==
    ASSUME NEW j \in Jobs
    PROVE  /\ j.in \in Captures /\ j.out \in Outputs \cup {"-"}
           /\ ItemsOf(j) \in Seq([what : FrameKinds, crc : BOOLEAN])
           /\ Len(ItemsOf(j)) \in Nat /\ DOMAIN ItemsOf(j) = 1 .. Len(ItemsOf(j))
<1>1. j.in \in Captures /\ j.out \in Outputs \cup {"-"}
  BY DEF Jobs
<1>2. ItemsOf(j) \in Seq([what : FrameKinds, crc : BOOLEAN])
  BY <1>1, DirAssumption DEF ShapeAssumption, ItemsOf
<1>3. QED
  BY <1>1, <1>2

LEMMA HasAllOfNone ==
    ASSUME NEW j PROVE HasAll(j, File(<<>>), 0)
<1>1. /\ File(<<>>).there /\ ~File(<<>>).torn /\ File(<<>>).recs = <<>>
      /\ Increasing(<<>>)
  BY EmptyFiles
<1>2. ToSet(<<>>) = {}
  BY DEF ToSet
<1>3. QED
  BY <1>1, <1>2 DEF HasAll

LEMMA HasAllOfNext ==
    ASSUME NEW j \in Jobs, NEW file \in FileOf(Recs), NEW n \in Nat, HasAll(j, file, n)
    PROVE  /\ ~IsRecordOf(j, n + 1) => HasAll(j, file, n + 1)
           /\ \A new : /\ IsRecordOf(j, n + 1) /\ new.there = file.there /\ new.torn = file.torn
                       /\ new.recs = Append(file.recs, <<j.in, n + 1>>)
                       => HasAll(j, new, n + 1)
<1> DEFINE rec == <<j.in, n + 1>>
           R(m) == {<<j.in, k>> : k \in {i \in 1 .. m : IsRecordOf(j, i)}}
<1>1. 1 .. n + 1 = (1 .. n) \cup {n + 1}
  OBVIOUS
<1>2. CASE ~IsRecordOf(j, n + 1)
  <2>1. {i \in 1 .. n + 1 : IsRecordOf(j, i)} = {i \in 1 .. n : IsRecordOf(j, i)}
    BY <1>1, <1>2
  <2>2. QED
    BY <1>2, <2>1 DEF HasAll
<1>3. CASE IsRecordOf(j, n + 1)
  <2>1. /\ file.there /\ ~file.torn /\ Increasing(file.recs) /\ file.recs \in Seq(Recs)
        /\ ToSet(file.recs) = R(n)
    BY DEF HasAll, FileOf
  <2>2. rec \in Recs /\ rec[2] = n + 1
    BY JobTypes DEF Recs
  <2>3. R(n + 1) = R(n) \cup {rec}
    <3>1. {i \in 1 .. n + 1 : IsRecordOf(j, i)} = {i \in 1 .. n : IsRecordOf(j, i)} \cup {n + 1}
      BY <1>1, <1>3
    <3>2. QED
      BY <3>1
  <2>4. \A i \in DOMAIN file.recs : file.recs[i][2] < n + 1
    <3> SUFFICES ASSUME NEW i \in DOMAIN file.recs PROVE file.recs[i][2] < n + 1
      OBVIOUS
    <3>1. file.recs[i] \in R(n)
      BY <2>1 DEF ToSet
    <3>2. PICK k \in 1 .. n : file.recs[i] = <<j.in, k>>
      BY <3>1
    <3>3. QED
      BY <3>2
  <2> HIDE DEF rec, R
  <2>5. Increasing(Append(file.recs, rec))
    BY <2>1, <2>2, <2>4, LaterIncreases
  <2>6. ToSet(Append(file.recs, rec)) = ToSet(file.recs) \cup {rec}
    <3>1. /\ Len(file.recs) \in Nat /\ DOMAIN file.recs = 1 .. Len(file.recs)
          /\ DOMAIN Append(file.recs, rec) = 1 .. Len(file.recs) + 1
          /\ \A i \in 1 .. Len(file.recs) : Append(file.recs, rec)[i] = file.recs[i]
          /\ Append(file.recs, rec)[Len(file.recs) + 1] = rec
      BY <2>1, <2>2, AppendProperties
    <3>2. 1 .. Len(file.recs) + 1 = (1 .. Len(file.recs)) \cup {Len(file.recs) + 1}
      BY <3>1
    <3>3. QED
      BY <3>1, <3>2 DEF ToSet
  <2>7. ToSet(Append(file.recs, rec)) = R(n + 1)
    BY <2>1, <2>3, <2>6
  <2>8. QED
    BY <1>3, <2>1, <2>5, <2>7 DEF HasAll, R, rec
<1>4. QED
  BY <1>2, <1>3

\* What a step that leaves dlf and the arguments alone keeps of the types.
LEMMA TypesStay ==
    ASSUME FilesTypeOK, Increases(dlf), UNCHANGED <<dlf, anchors, f3, pcap, nr>>
    PROVE  FilesTypeOK' /\ Increases(dlf')
  BY DEF FilesTypeOK, DirTypeOK

LEMMA ConvertKeeps ==
    ASSUME CIInv, NEW j \in Jobs, Convert(j)
    PROVE  CIInv'
<1>1. /\ pc' = "check" /\ job' = j /\ before' = Snapshot /\ pos' = 0 /\ stopped' = FALSE
      /\ UNCHANGED <<dlf, anchors, f3, pcap, nr, made>>
  BY DEF Convert, At, dir
<1>2. FilesTypeOK' /\ Increases(dlf')
  BY <1>1, TypesStay DEF CIInv
<1>3. before'.dlf = dlf /\ before'.anchors = anchors
  BY <1>1 DEF Snapshot
<1>4. \A o : dlf'[o] = before'.dlf[o] /\ anchors'[o] = before'.anchors[o]
  BY <1>1, <1>3
<1>5. ConversionInv'
  BY <1>1, <1>4 DEF ConversionInv, OthersUntouched, SidecarKept, Untouched, Converting
<1>6. ArchiveInv'
  BY <1>1 DEF CIInv, ArchiveInv, Converting, Saved
<1>7. QED
  BY <1>2, <1>5, <1>6 DEF CIInv

\* The step leaves f3, the arguments and the archive alone, so Gate 0's decision
\* stands.
LEMMA ArchiveStays ==
    ASSUME ArchiveInv, UNCHANGED <<f3, job, made>>, Converting' => Converting,
           ~Converting' /\ pc' # "check" => exit' \notin {0, 130}
    PROVE  ArchiveInv'
  BY DEF ArchiveInv, Saved

\* A refusal, with nothing written.
LEMMA RefuseKeeps == CIInv /\ (RefuseInput \/ RefuseF3) => CIInv'
<1> SUFFICES ASSUME CIInv, RefuseInput \/ RefuseF3 PROVE CIInv'
  OBVIOUS
<1>1. /\ pc = "check" /\ pc' = "off" /\ exit' \in {2, 3}
      /\ UNCHANGED <<dlf, anchors, f3, pcap, nr, job, pos, stop, stopped, before, made>>
  BY DEF RefuseInput, RefuseF3, Exit, dir
<1>2. FilesTypeOK' /\ Increases(dlf')
  BY <1>1, TypesStay DEF CIInv
<1>3. ConversionInv'
  BY <1>1 DEF CIInv, ConversionInv, OthersUntouched, SidecarKept, Untouched, Converting, Left
<1>4. ArchiveInv'
  BY <1>1, ArchiveStays DEF CIInv, Converting
<1>5. QED
  BY <1>2, <1>3, <1>4 DEF CIInv

\* Only the output of the conversion changes.
LEMMA OnlyOutputChanges ==
    ASSUME CIInv, NEW file \in FileOf(Recs), Increasing(file.recs),
           dlf' = [dlf EXCEPT ![job.out] = file],
           UNCHANGED <<anchors, f3, pcap, nr, job, before>>
    PROVE  /\ FilesTypeOK' /\ Increases(dlf') /\ OthersUntouched' /\ SidecarKept'
           /\ dlf'[job'.out] = file
<1>1. job.out \in Outputs \cup {"-"}
  BY JobTypes DEF CIInv, ConversionInv
<1>2. dlf \in [Outputs \cup {"-"} -> FileOf(Recs)] /\ DirTypeOK
  BY DEF CIInv, FilesTypeOK
<1>3. /\ dlf' \in [Outputs \cup {"-"} -> FileOf(Recs)] /\ dlf'[job.out] = file
      /\ \A o \in Outputs \cup {"-"} : o # job.out => dlf'[o] = dlf[o]
  BY <1>1, <1>2
<1>4. Increases(dlf')
  BY <1>2, <1>3 DEF CIInv, Increases
<1>5. DirTypeOK'
  <2>1. \A o \in DOMAIN dlf' : ~dlf'[o].there => dlf'[o] = NoFile
    BY <1>3 DEF FileOf
  <2>2. QED
    BY <1>2, <2>1 DEF DirTypeOK
<1>6. FilesTypeOK'
  BY <1>3, <1>5 DEF CIInv, FilesTypeOK
<1>7. OthersUntouched' /\ SidecarKept'
  BY <1>3 DEF CIInv, ConversionInv, OthersUntouched, SidecarKept, Untouched
<1>8. QED
  BY <1>3, <1>4, <1>6, <1>7

\* Past Gate 0: nothing with F3 in it goes on without a sidecar.
LEMMA OpenKeeps == CIInv /\ OpenOutput => CIInv'
<1> SUFFICES ASSUME CIInv, OpenOutput PROVE CIInv'
  OBVIOUS
<1>1. /\ pc = "check" /\ pc' = "walk" /\ ~Gate0
      /\ dlf' = [dlf EXCEPT ![job.out] = File(<<>>)]
      /\ made' = [made EXCEPT ![job.out] = {job}]
      /\ UNCHANGED <<anchors, f3, pcap, nr, job, pos, stop, stopped, exit, before>>
  BY DEF OpenOutput, At
<1>2. job \in Jobs /\ Len(Items) \in Nat /\ pos = 0 /\ ~stopped
  BY <1>1, JobTypes DEF CIInv, ConversionInv, Items, ItemsOf
<1>3. /\ FilesTypeOK' /\ Increases(dlf') /\ OthersUntouched' /\ SidecarKept'
      /\ dlf'[job'.out] = File(<<>>)
  BY <1>1, EmptyFiles, OnlyOutputChanges
<1>4. Walked'
  <2>1. HasAll(job', dlf'[job'.out], pos')
    BY <1>1, <1>2, <1>3, HasAllOfNone
  <2>2. QED
    BY <1>1, <1>2, <2>1 DEF Walked, Items
<1>5. ConversionInv'
  BY <1>1, <1>2, <1>3, <1>4 DEF ConversionInv, Converting
<1>6. job.out \in Archived /\ NeedsSidecar(job) => Saved(job)
  <2>1. f3[job.in] \in {"none", "empty", "part", "full"}
    BY <1>2, JobTypes DEF CIInv, FilesTypeOK, DirTypeOK
  <2>2. QED
    BY <1>1, <2>1 DEF Gate0, Archival, NeedsSidecar, Sidecar, Saved
<1>7. ArchiveInv'
  <2>1. job.out \in Outputs \cup {"-"} /\ Archived \subseteq Outputs
    BY <1>2, JobTypes, DirAssumption
  <2>2. made \in [Outputs \cup {"-"} -> SUBSET Jobs]
    BY DEF CIInv, ArchiveInv
  <2>3. /\ made' \in [Outputs \cup {"-"} -> SUBSET Jobs] /\ made'[job.out] = {job}
        /\ \A o \in Outputs : o # job.out => made'[o] = made[o]
    BY <1>1, <1>2, <2>1, <2>2
  <2>4. ASSUME NEW o \in Archived, NEW j \in made'[o], NeedsSidecar(j)
        PROVE  Saved(j)
    <3>1. CASE o = job.out
      BY <1>6, <2>3, <2>4, <3>1
    <3>2. CASE o # job.out
      BY <2>1, <2>3, <2>4, <3>2 DEF CIInv, ArchiveInv
    <3>3. QED
      BY <3>1, <3>2
  <2>5. Converting' /\ \A j : Saved(j)' <=> Saved(j)
    BY <1>1 DEF Converting, Saved
  <2>6. QED
    BY <1>1, <1>6, <2>3, <2>4, <2>5 DEF ArchiveInv
<1>8. QED
  BY <1>3, <1>5, <1>7 DEF CIInv

LEMMA WalkKeeps == CIInv /\ Walk => CIInv'
<1> SUFFICES ASSUME CIInv, Walk PROVE CIInv'
  OBVIOUS
<1> DEFINE file == dlf[job.out]
           rec == <<job.in, pos + 1>>
<1>1. /\ pc = "walk" /\ pos < Len(Items)
      /\ UNCHANGED <<anchors, f3, pcap, nr, job, stop, exit, before, made>>
  BY DEF Walk
<1>2. job \in Jobs /\ Walked /\ Converting
  BY <1>1 DEF CIInv, ConversionInv, Converting
<1>3. /\ Len(Items) \in Nat /\ pos \in Nat /\ ~stopped /\ pos + 1 \in 0 .. Len(Items)
      /\ HasAll(job, file, pos)
  BY <1>1, <1>2, JobTypes DEF Walked, Items, ItemsOf
<1>4. /\ dlf \in [Outputs \cup {"-"} -> FileOf(Recs)] /\ job.out \in Outputs \cup {"-"}
      /\ file \in FileOf(Recs)
  BY <1>2, JobTypes DEF CIInv, FilesTypeOK
<1>5. IsRecord(pos + 1) <=> IsRecordOf(job, pos + 1)
  BY DEF IsRecord, IsRecordOf, Good, Items, ItemsOf
<1>6. CASE IsRecord(pos + 1) /\ stop
  <2>1. pc' = "carry" /\ stopped' = TRUE /\ UNCHANGED <<dlf, pos>>
    BY <1>6 DEF Walk
  <2>2. FilesTypeOK' /\ Increases(dlf')
    BY <1>1, <2>1, TypesStay DEF CIInv
  <2>3. Walked'
    BY <1>1, <1>2, <2>1 DEF Walked, Items
  <2>4. ConversionInv'
    BY <1>1, <2>1, <2>3
       DEF CIInv, ConversionInv, OthersUntouched, SidecarKept, Untouched, Converting
  <2>5. ArchiveInv'
    BY <1>1, <1>2, <2>1, ArchiveStays DEF CIInv, Converting
  <2>6. QED
    BY <2>2, <2>4, <2>5 DEF CIInv
<1>7. CASE ~(IsRecord(pos + 1) /\ stop)
  <2>1. /\ pos' = pos + 1 /\ UNCHANGED <<pc, stopped>>
        /\ dlf' = IF IsRecord(pos') THEN AddTo(dlf, job.out, <<job.in, pos'>>) ELSE dlf
    BY <1>7 DEF Walk
  <2>2. FilesTypeOK' /\ Increases(dlf') /\ OthersUntouched' /\ SidecarKept'
        /\ HasAll(job', dlf'[job'.out], pos')
    <3>1. CASE ~IsRecord(pos + 1)
      <4>1. dlf' = dlf
        BY <2>1, <3>1
      <4>2. HasAll(job, file, pos + 1)
        BY <1>2, <1>3, <1>4, <1>5, <3>1, HasAllOfNext
      <4>3. FilesTypeOK' /\ Increases(dlf')
        BY <1>1, <4>1, TypesStay DEF CIInv
      <4>4. OthersUntouched' /\ SidecarKept'
        BY <1>1, <4>1 DEF CIInv, ConversionInv, OthersUntouched, SidecarKept, Untouched
      <4>5. QED
        BY <1>1, <2>1, <4>1, <4>2, <4>3, <4>4
    <3>2. CASE IsRecord(pos + 1)
      <4> DEFINE new == AddTo(dlf, job.out, rec)
      <4>1. dlf' = new
        BY <2>1, <3>2
      <4>2. rec \in Recs /\ file.there
        BY <1>2, <1>3, JobTypes DEF Recs, HasAll
      <4> HIDE DEF rec
      <4>3. /\ new \in [Outputs \cup {"-"} -> FileOf(Recs)]
            /\ new[job.out].there /\ new[job.out].torn = file.torn
            /\ new[job.out].recs = Append(file.recs, rec)
        BY <1>4, <4>2, AddToAppends
      <4>4. HasAll(job, new[job.out], pos + 1)
        <5>1. new[job.out].there = file.there
          BY <4>2, <4>3 DEF HasAll, FileOf
        <5>2. QED
          BY <1>2, <1>3, <1>4, <1>5, <3>2, <4>3, <5>1, HasAllOfNext DEF rec
      <4>5. dlf' = [dlf EXCEPT ![job.out] = new[job.out]]
        BY <1>4, <4>1, <4>3 DEF AddTo
      <4> HIDE DEF new
      <4>6. new[job.out] \in FileOf(Recs) /\ Increasing(new[job.out].recs)
        BY <1>4, <4>3, <4>4 DEF HasAll
      <4>7. QED
        BY <1>1, <2>1, <4>1, <4>4, <4>5, <4>6, OnlyOutputChanges
    <3>3. QED
      BY <3>1, <3>2
  <2>3. Walked'
    BY <1>1, <1>3, <2>1, <2>2 DEF Walked, Items
  <2>4. ConversionInv'
    BY <1>1, <1>2, <2>1, <2>2, <2>3 DEF ConversionInv, Converting
  <2>5. ArchiveInv'
    BY <1>1, <1>2, <2>1, ArchiveStays DEF CIInv, Converting
  <2>6. QED
    BY <2>2, <2>4, <2>5 DEF CIInv
<1>8. QED
  BY <1>6, <1>7

LEMMA WalkEndKeeps == CIInv /\ WalkEnds => CIInv'
<1> SUFFICES ASSUME CIInv, WalkEnds PROVE CIInv'
  OBVIOUS
<1>1. /\ pc = "walk" /\ pc' = "carry" /\ pos = Len(Items)
      /\ UNCHANGED <<dlf, anchors, f3, pcap, nr, job, pos, stop, stopped, exit, before, made>>
  BY DEF WalkEnds, At, dir, conversion
<1>2. FilesTypeOK' /\ Increases(dlf')
  BY <1>1, TypesStay DEF CIInv
<1>3. Walked'
  BY <1>1 DEF CIInv, ConversionInv, Converting, Walked, Items
<1>4. ConversionInv'
  BY <1>1, <1>3 DEF CIInv, ConversionInv, OthersUntouched, SidecarKept, Untouched, Converting
<1>5. ArchiveInv'
  BY <1>1, ArchiveStays DEF CIInv, Converting
<1>6. QED
  BY <1>2, <1>4, <1>5 DEF CIInv

\* A sidecar is copied only where there is none.
LEMMA CarryKeeps == CIInv /\ Carry => CIInv'
<1> SUFFICES ASSUME CIInv, Carry PROVE CIInv'
  OBVIOUS
<1>1. /\ pc = "carry" /\ pc' = "report"
      /\ UNCHANGED <<dlf, f3, pcap, nr, job, pos, stop, stopped, exit, before, made>>
  BY DEF Carry, At, conversion
<1>2. job.in \in Captures /\ job.out \in Outputs \cup {"-"}
  BY JobTypes DEF CIInv, ConversionInv
<1>3. anchors \in [Outputs -> Captures \cup {"none", "cut"}]
  BY DEF CIInv, FilesTypeOK, DirTypeOK
<1>4. /\ anchors' \in [Outputs -> Captures \cup {"none", "cut"}]
      /\ \A o \in Outputs \ {job.out} : anchors'[o] = anchors[o]
      /\ anchors' # anchors => job.out # "-" /\ anchors[job.out] = "none"
  <2>1. CASE UNCHANGED anchors
    BY <1>3, <2>1
  <2>2. CASE /\ job.out # "-" /\ anchors[job.out] = "none"
             /\ \E s \in {job.in, "cut", "none"} : anchors' = [anchors EXCEPT ![job.out] = s]
    BY <1>2, <1>3, <2>2
  <2>3. QED
    BY <2>1, <2>2 DEF Carry
<1>5. FilesTypeOK' /\ Increases(dlf')
  BY <1>1, <1>4 DEF CIInv, FilesTypeOK, DirTypeOK
<1>6. Walked'
  BY <1>1 DEF CIInv, ConversionInv, Converting, Walked, Items
<1>7. OthersUntouched' /\ SidecarKept'
  BY <1>1, <1>4 DEF CIInv, ConversionInv, OthersUntouched, SidecarKept, Untouched
<1>8. ConversionInv'
  BY <1>1, <1>6, <1>7 DEF CIInv, ConversionInv, Converting
<1>9. ArchiveInv'
  BY <1>1, ArchiveStays DEF CIInv, Converting
<1>10. QED
  BY <1>5, <1>8, <1>9 DEF CIInv

LEMMA ReportKeeps == CIInv /\ Report => CIInv'
<1> SUFFICES ASSUME CIInv, Report PROVE CIInv'
  OBVIOUS
<1>1. /\ pc = "report" /\ pc' = "off"
      /\ exit' = IF Refused4 THEN 4 ELSE IF stopped THEN 130 ELSE 0
      /\ dlf' = IF Refused4 /\ job.out # "-" THEN [dlf EXCEPT ![job.out] = NoFile] ELSE dlf
      /\ told' = Loss
      /\ UNCHANGED <<anchors, f3, pcap, nr, job, pos, stop, stopped, before, made>>
  BY DEF Report, Exit
<1>2. job \in Jobs /\ Walked /\ Converting
  BY <1>1 DEF CIInv, ConversionInv, Converting
<1>3. ArchiveInv'
  <2>1. ASSUME ~Refused4 PROVE SaidRight'
    <3>1. f3[job.in] \in {"none", "empty", "part", "full"}
      BY <1>2, JobTypes DEF CIInv, FilesTypeOK, DirTypeOK
    <3>2. Sidecar => Saved(job)
      BY <3>1 DEF Sidecar, Saved
    <3>3. CASE job.out = "-" \/ DroppedF3(job) \cap (1 .. pos) = {}
      <4>1. told' = "nothing"
        BY <1>1, <3>3 DEF Loss
      <4>2. QED
        BY <1>1, <3>3, <4>1 DEF SaidRight
    <3>4. CASE ~(job.out = "-" \/ DroppedF3(job) \cap (1 .. pos) = {}) /\ Sidecar
      <4>1. told' = "saved"
        BY <1>1, <2>1, <3>4 DEF Loss
      <4>2. Saved(job)'
        BY <1>1, <3>2, <3>4 DEF Saved
      <4>3. QED
        BY <1>1, <3>4, <4>1, <4>2 DEF SaidRight
    <3>5. CASE ~(job.out = "-" \/ DroppedF3(job) \cap (1 .. pos) = {}) /\ ~Sidecar
      <4>1. told' = "lost"
        BY <1>1, <2>1, <3>5 DEF Loss
      <4>2. ~Saved(job) /\ DroppedF3(job) # {}
        BY <3>5 DEF Sidecar, Saved
      <4>3. job.allow \/ ~Archival
        BY <1>2, <4>2 DEF CIInv, ArchiveInv, NeedsSidecar, Archival
      <4>4. QED
        BY <1>1, <3>5, <4>1, <4>3 DEF SaidRight, Archival
    <3>6. QED
      BY <3>3, <3>4, <3>5
  <2>2. Refused4 => exit' = 4
    BY <1>1
  <2>3. ~Converting' /\ \A j : Saved(j)' <=> Saved(j)
    BY <1>1 DEF Converting, Saved
  <2>4. exit' = 4 => exit' \notin {0, 130}
    OBVIOUS
  <2>5. QED
    BY <1>1, <2>1, <2>2, <2>3, <2>4 DEF CIInv, ArchiveInv
<1>4. CASE Refused4 /\ job.out # "-"
  <2>1. /\ FilesTypeOK' /\ Increases(dlf') /\ OthersUntouched' /\ SidecarKept'
        /\ dlf'[job'.out] = NoFile
    BY <1>1, <1>4, EmptyFiles, OnlyOutputChanges
  <2>2. Left'
    <3>1. exit' = 4
      BY <1>1, <1>4
    <3>2. ~dlf'[job'.out].there
      BY <2>1, EmptyFiles
    <3>3. QED
      BY <3>1, <3>2 DEF Left
  <2>3. ConversionInv'
    BY <1>1, <1>2, <2>1, <2>2 DEF ConversionInv, Converting
  <2>4. QED
    BY <1>3, <2>1, <2>3 DEF CIInv
<1>5. CASE ~(Refused4 /\ job.out # "-")
  <2>1. dlf' = dlf
    BY <1>1, <1>5
  <2>2. FilesTypeOK' /\ Increases(dlf')
    BY <1>1, <2>1, TypesStay DEF CIInv
  <2>3. /\ pos \in 0 .. Len(Items) /\ HasAll(job, dlf[job.out], pos)
        /\ IF stopped THEN pos < Len(Items) ELSE pos = Len(Items)
    BY <1>1, <1>2 DEF Walked
  <2>4. exit' = 130 => \E n \in 1 .. Len(Items) : HasAll(job, dlf[job.out], n - 1)
    <3>1. exit' = 130 => stopped
      BY <1>1
    <3>2. stopped => pos + 1 \in 1 .. Len(Items) /\ (pos + 1) - 1 = pos
      BY <1>2, <2>3, JobTypes DEF Items, ItemsOf
    <3>3. QED
      BY <2>3, <3>1, <3>2
  <2>5. exit' = 0 => HasAll(job, dlf[job.out], Len(Items))
    BY <1>1, <2>3
  <2>6. Left'
    BY <1>1, <1>5, <2>1, <2>4, <2>5 DEF Left, Items
  <2>7. ConversionInv'
    BY <1>1, <2>1, <2>6
       DEF CIInv, ConversionInv, OthersUntouched, SidecarKept, Untouched, Converting
  <2>8. QED
    BY <1>3, <2>2, <2>7 DEF CIInv
<1>6. QED
  BY <1>4, <1>5

LEMMA InterruptKeeps == CIInv /\ Interrupt => CIInv'
<1> SUFFICES ASSUME CIInv, Interrupt PROVE CIInv'
  OBVIOUS
<1>1. /\ Converting
      /\ UNCHANGED <<dlf, anchors, f3, pcap, nr, pc, job, pos, stopped, exit, before, made>>
  BY DEF Interrupt, dir
<1>2. FilesTypeOK' /\ Increases(dlf')
  BY <1>1, TypesStay DEF CIInv
<1>3. Walked' /\ Converting' /\ pc # "check"
  BY <1>1 DEF CIInv, ConversionInv, Converting, Walked, Items
<1>4. ConversionInv'
  BY <1>1, <1>3 DEF CIInv, ConversionInv, OthersUntouched, SidecarKept, Untouched
<1>5. ArchiveInv'
  BY <1>1, <1>3, ArchiveStays DEF CIInv
<1>6. QED
  BY <1>2, <1>4, <1>5 DEF CIInv

LEMMA ConversionKilledKeeps == CIInv /\ ConversionKilled => CIInv'
<1> SUFFICES ASSUME CIInv, ConversionKilled PROVE CIInv'
  OBVIOUS
<1>1. /\ pc' = "off" /\ exit' = -1
      /\ UNCHANGED <<anchors, f3, pcap, nr, job, pos, stop, stopped, before, made>>
  BY DEF ConversionKilled, Exit
<1>2. ArchiveInv'
  <2>1. ~Converting' /\ exit' \notin {0, 130}
    BY <1>1 DEF Converting
  <2>2. QED
    BY <1>1, <2>1, ArchiveStays DEF CIInv
<1>3. Left'
  BY <1>1 DEF Left
<1>4. job \in Jobs /\ job.out \in Outputs \cup {"-"}
  BY JobTypes DEF CIInv, ConversionInv
<1>5. CASE UNCHANGED dlf
  <2>1. FilesTypeOK' /\ Increases(dlf')
    BY <1>1, <1>5, TypesStay DEF CIInv
  <2>2. ConversionInv'
    BY <1>1, <1>3, <1>5
       DEF CIInv, ConversionInv, OthersUntouched, SidecarKept, Untouched, Converting
  <2>3. QED
    BY <1>2, <2>1, <2>2 DEF CIInv
<1>6. CASE \E left \in CutShort(dlf[job.out]) : dlf' = [dlf EXCEPT ![job.out] = left]
  <2>1. PICK left \in CutShort(dlf[job.out]) : dlf' = [dlf EXCEPT ![job.out] = left]
    BY <1>6
  <2>2. dlf[job.out] \in FileOf(Recs) /\ Increasing(dlf[job.out].recs)
    BY <1>4 DEF CIInv, FilesTypeOK, Increases
  <2>3. /\ left \in FileOf(Recs)
        /\ \E n \in 0 .. Len(dlf[job.out].recs) : left.recs = SubSeq(dlf[job.out].recs, 1, n)
    BY <2>2, CutShortIsFront
  <2>4. Increasing(left.recs)
    <3>1. dlf[job.out].recs \in Seq(Recs)
      BY <2>2 DEF FileOf
    <3>2. QED
      BY <2>2, <2>3, <3>1, FrontIncreases
  <2>5. FilesTypeOK' /\ Increases(dlf') /\ OthersUntouched' /\ SidecarKept'
    BY <1>1, <2>1, <2>3, <2>4, OnlyOutputChanges
  <2>6. ConversionInv'
    BY <1>1, <1>3, <1>4, <2>5 DEF ConversionInv, Converting
  <2>7. QED
    BY <1>2, <2>5, <2>6 DEF CIInv
<1>7. QED
  BY <1>5, <1>6 DEF ConversionKilled

-----------------------------------------------------------------------------
(* Whatever else goes on in the directory.                                 *)

\* The extractor goes forward only.
LEMMA ExtractionKeeps == \A c \in Captures : CIInv /\ ExtractF3(c) => CIInv'
<1> SUFFICES ASSUME NEW c \in Captures, CIInv, ExtractF3(c) PROVE CIInv'
  OBVIOUS
<1>1. /\ UNCHANGED <<dlf, anchors, pcap, nr, pc, job, pos, stop, stopped, exit, before>>
      /\ UNCHANGED <<told, made>>
      /\ f3' = [f3 EXCEPT ![c] = CASE @ = "none"  -> "empty"
                                   [] @ = "empty" -> "part"
                                   [] OTHER       -> "full"]
  BY DEF ExtractF3, conversion
<1>2. f3 \in [Captures -> {"none", "empty", "part", "full"}]
  BY DEF CIInv, FilesTypeOK, DirTypeOK
<1>3. /\ f3' \in [Captures -> {"none", "empty", "part", "full"}]
      /\ \A d \in Captures : f3[d] \in {"part", "full"} => f3'[d] \in {"part", "full"}
  BY <1>1, <1>2
<1>4. FilesTypeOK' /\ Increases(dlf')
  BY <1>1, <1>3 DEF CIInv, FilesTypeOK, DirTypeOK
<1>5. Walked' = Walked /\ Converting' = Converting /\ Left' = Left
  BY <1>1 DEF Walked, Items, Converting, Left, Untouched
<1>6. ConversionInv'
  BY <1>1, <1>5 DEF CIInv, ConversionInv, OthersUntouched, SidecarKept, Untouched
<1>7. \A j \in Jobs : Saved(j) => Saved(j)'
  BY <1>3, JobTypes DEF Saved
<1>8. ArchiveInv'
  <2>1. job \in Jobs /\ Archived \subseteq Outputs
    BY DirAssumption DEF CIInv, ConversionInv
  <2>2. /\ made' \in [Outputs \cup {"-"} -> SUBSET Jobs]
        /\ \A o \in Archived : \A j \in made'[o] : j \in Jobs /\ (NeedsSidecar(j) => Saved(j))
    BY <1>1, <2>1 DEF CIInv, ArchiveInv
  <2>3. SaidRight => SaidRight'
    <3>1. UNCHANGED <<told, job, pos>> /\ Archival' = Archival
      BY <1>1 DEF Archival
    <3>2. Saved(job) => Saved(job)'
      BY <1>1, <1>7, <2>1
    <3>3. QED
      BY <3>1, <3>2 DEF SaidRight
  <2>4. Saved(job) => Saved(job)'
    BY <1>1, <1>7, <2>1
  <2>5. UNCHANGED <<pc, exit, job>>
    BY <1>1
  <2>6. /\ Converting /\ job.out \in Archived /\ NeedsSidecar(job) => Saved(job)
        /\ ~Converting /\ pc # "check" /\ exit \in {0, 130} => SaidRight
    BY DEF CIInv, ArchiveInv
  <2>7. \A o \in Archived : \A j \in made'[o] : NeedsSidecar(j) => Saved(j)'
    BY <1>7, <2>2
  <2>8. QED
    BY <1>5, <2>2, <2>3, <2>4, <2>5, <2>6, <2>7 DEF ArchiveInv
<1>9. QED
  BY <1>4, <1>6, <1>8 DEF CIInv

\* An export leaves what a conversion has left.
LEMMA ExportKeepsConversion ==
    ASSUME CIInv, UNCHANGED <<dlf, anchors, f3, conversion>>,
           pc \notin {"check", "walk", "carry", "report"},
           pc' \notin {"check", "walk", "carry", "report"},
           pcap' \in [Outputs -> FileOf(Frames)], nr' \in [Outputs -> FileOf(Frames)]
    PROVE  CIInv'
<1>1. UNCHANGED <<dlf, anchors, f3, job, pos, stop, stopped, exit, told, before, made>>
  BY DEF conversion
<1>2. FilesTypeOK' /\ Increases(dlf')
  <2>1. \A files \in {pcap', nr'} : \A o \in DOMAIN files : ~files[o].there => files[o] = NoFile
    BY DEF FileOf
  <2>2. QED
    BY <1>1, <2>1 DEF CIInv, FilesTypeOK, DirTypeOK
<1>3. Left' = Left
  BY <1>1 DEF Items, Left, Untouched
<1>4. ConversionInv'
  BY <1>1, <1>3 DEF CIInv, ConversionInv, OthersUntouched, SidecarKept, Untouched, Converting
<1>5. ArchiveInv'
  <2>1. ~Converting /\ ~Converting' /\ SaidRight' = SaidRight /\ \A j : Saved(j)' <=> Saved(j)
    BY <1>1 DEF Converting, SaidRight, Archival, Saved
  <2>2. QED
    BY <1>1, <2>1 DEF CIInv, ArchiveInv
<1>6. QED
  BY <1>2, <1>4, <1>5 DEF CIInv

-----------------------------------------------------------------------------
(* An export.  The frames of a pcap are of the records in the order of the *)
(* file; a frame without a time of its own has the number of those before  *)
(* it as its stamp.                                                        *)

FramesOf(frames, kind, d, n) ==
    /\ \A k \in DOMAIN frames :
          /\ What(frames[k].rec) = kind
          /\ frames[k].stamp \in {-1, k - 1}
          /\ \E i \in 1 .. n : frames[k].rec = d[i]
    /\ \A j, k \in DOMAIN frames : j < k => frames[j].rec[2] < frames[k].rec[2]

RecordsOf(frames) == {frames[k].rec : k \in DOMAIN frames}

\* All of the frames of a kind that were made, of the first n records.
HasFramed(frames, kind) ==
    RecordsOf(frames) = {rec \in framed : What(rec) = kind}

Kept(file, kind, n) ==
    ~file.torn /\ FramesOf(file.recs, kind, data, n) /\ HasFramed(file.recs, kind)

Encoded ==
    /\ place \in 0 .. Len(data)
    /\ pcap[source].there /\ Kept(pcap[source], "lte", place)
    /\ nr[source].there /\ Kept(nr[source], "nr", place)

AsBefore(o) == pcap[o] = outputs[1][o] /\ nr[o] = outputs[2][o]

\* What an exit has left.
PcapKept == pcap[source].there /\ Kept(pcap[source], "lte", Len(data))

NrKept == Kept(nr[source], "nr", Len(data))

Exported ==
    /\ result = 0 => PcapKept /\ NrKept
    /\ result = 1 => AsBefore(source) \/ (PcapKept /\ (nr[source] = NoFile \/ NrKept))
    /\ result = 2 => AsBefore(source)

ExportInv ==
    /\ source \in Outputs /\ data \in Seq(Recs) /\ Increasing(data)
    /\ framed \subseteq ToSet(data)
    /\ \A o \in Outputs \ {source} : AsBefore(o)
    /\ pc \in {"export", "open nr"} => place = 0 /\ framed = {}
    /\ pc = "export" => AsBefore(source)
    /\ pc = "open nr" => pcap[source] = File(<<>>)
    /\ pc = "encode" => Encoded
    /\ pc \notin {"export", "open nr", "encode"} => Exported

LEMMA NoFrames == \A kind, d, n : FramesOf(<<>>, kind, d, n)
<1>1. DOMAIN <<>> = {}
  OBVIOUS
<1>2. QED
  BY <1>1 DEF FramesOf

LEMMA PassedRecord ==
    ASSUME NEW frames, NEW kind, NEW d, NEW n \in Nat, FramesOf(frames, kind, d, n)
    PROVE  FramesOf(frames, kind, d, n + 1)
<1>1. \A i \in 1 .. n : i \in 1 .. n + 1
  OBVIOUS
<1>2. QED
  BY <1>1 DEF FramesOf

LEMMA FewerRecords ==
    ASSUME NEW frames, NEW kind, NEW d, NEW n \in Nat, NEW m \in Nat, n <= m,
           FramesOf(frames, kind, d, n)
    PROVE  FramesOf(frames, kind, d, m)
<1>1. \A i \in 1 .. n : i \in 1 .. m
  OBVIOUS
<1>2. QED
  BY <1>1 DEF FramesOf

LEMMA AppendCases ==
    ASSUME NEW S, NEW s \in Seq(S), NEW e \in S
    PROVE  LET new == Append(s, e)
           IN  /\ \A k \in DOMAIN new : \/ k \in DOMAIN s /\ new[k] = s[k]
                                        \/ k - 1 = Len(s) /\ new[k] = e
               /\ \A j, k \in DOMAIN new : j < k => j \in DOMAIN s /\ new[j] = s[j]
<1> DEFINE new == Append(s, e)
<1>1. /\ Len(s) \in Nat /\ DOMAIN s = 1 .. Len(s) /\ DOMAIN new = 1 .. Len(s) + 1
      /\ \A i \in 1 .. Len(s) : new[i] = s[i]
      /\ new[Len(s) + 1] = e
  BY AppendProperties
<1> HIDE DEF new
<1>2. \A k \in DOMAIN new : \/ k \in DOMAIN s /\ new[k] = s[k]
                            \/ k - 1 = Len(s) /\ new[k] = e
  BY <1>1
<1>3. \A j, k \in DOMAIN new : j < k => j \in DOMAIN s /\ new[j] = s[j]
  BY <1>1
<1>4. QED
  BY <1>2, <1>3 DEF new

LEMMA AddedFrame ==
    ASSUME NEW frames \in Seq(Frames), NEW kind, NEW d \in Seq(Recs), Increasing(d),
           NEW n \in Nat, n < Len(d), FramesOf(frames, kind, d, n),
           What(d[n + 1]) = kind, NEW t \in Int, t = -1 \/ t = Len(frames)
    PROVE  FramesOf(Append(frames, Frame(d[n + 1], t)), kind, d, n + 1)
<1> DEFINE frame == Frame(d[n + 1], t)
           new == Append(frames, frame)
<1>1. n + 1 \in 1 .. Len(d) /\ n + 1 \in 1 .. n + 1 /\ \A i \in 1 .. n : i < n + 1
  OBVIOUS
<1>2. frame \in Frames /\ frame.rec = d[n + 1] /\ frame.stamp = t
  BY <1>1 DEF Frame, Frames
<1> HIDE DEF frame
<1>3. /\ \A k \in DOMAIN new : \/ k \in DOMAIN frames /\ new[k] = frames[k]
                               \/ k - 1 = Len(frames) /\ new[k] = frame
      /\ \A j, k \in DOMAIN new : j < k => j \in DOMAIN frames /\ new[j] = frames[j]
  BY <1>2, AppendCases
<1> HIDE DEF new
<1>4. FramesOf(frames, kind, d, n + 1)
  BY PassedRecord
<1>5. ASSUME NEW k \in DOMAIN new
      PROVE  /\ What(new[k].rec) = kind /\ new[k].stamp \in {-1, k - 1}
             /\ \E i \in 1 .. n + 1 : new[k].rec = d[i]
  <2>1. CASE k \in DOMAIN frames /\ new[k] = frames[k]
    BY <1>4, <2>1 DEF FramesOf
  <2>2. CASE k - 1 = Len(frames) /\ new[k] = frame
    BY <1>1, <1>2, <2>2
  <2>3. QED
    BY <1>3, <2>1, <2>2
<1>6. ASSUME NEW j \in DOMAIN new, NEW k \in DOMAIN new, j < k
      PROVE  new[j].rec[2] < new[k].rec[2]
  <2>1. j \in DOMAIN frames /\ new[j] = frames[j]
    BY <1>3, <1>6
  <2>2. CASE k \in DOMAIN frames /\ new[k] = frames[k]
    BY <1>6, <2>1, <2>2 DEF FramesOf
  <2>3. CASE new[k] = frame
    <3>1. PICK i \in 1 .. n : frames[j].rec = d[i]
      BY <2>1 DEF FramesOf
    <3>2. d[i][2] < d[n + 1][2]
      BY <1>1, <3>1 DEF Increasing
    <3>3. QED
      BY <1>2, <2>1, <2>3, <3>1, <3>2
  <2>4. QED
    BY <1>3, <2>2, <2>3
<1>7. FramesOf(new, kind, d, n + 1)
  BY <1>5, <1>6 DEF FramesOf
<1>8. QED
  BY <1>7 DEF new, frame

LEMMA AppendedRecord ==
    ASSUME NEW frames \in Seq(Frames), NEW frame \in Frames
    PROVE  RecordsOf(Append(frames, frame)) = RecordsOf(frames) \cup {frame.rec}
<1>1. /\ Len(frames) \in Nat /\ DOMAIN frames = 1 .. Len(frames)
      /\ DOMAIN Append(frames, frame) = 1 .. Len(frames) + 1
      /\ \A i \in 1 .. Len(frames) : Append(frames, frame)[i] = frames[i]
      /\ Append(frames, frame)[Len(frames) + 1] = frame
  BY AppendProperties
<1>2. 1 .. Len(frames) + 1 = (1 .. Len(frames)) \cup {Len(frames) + 1}
  BY <1>1
<1>3. QED
  BY <1>1, <1>2 DEF RecordsOf

\* One record becomes a frame at the end of one of the two files.
LEMMA IntoAdds ==
    ASSUME NEW files \in [Outputs -> FileOf(Frames)], NEW new, NEW kind, ExportInv, Encoded,
           place < Len(data), files[source].there, Kept(files[source], kind, place),
           What(data[place + 1]) = kind,
           framed' = framed \cup {data[place + 1]}, UNCHANGED data, place' = place + 1,
           NEW t \in Stamps(files[source]),
           new = AddTo(files, source, Frame(data[place + 1], t))
    PROVE  /\ new \in [Outputs -> FileOf(Frames)] /\ new[source].there
           /\ ~new[source].torn
           /\ FramesOf(new[source].recs, kind, data, place + 1)
           /\ RecordsOf(new[source].recs) = {rec \in framed' : What(rec) = kind}
           /\ \A o \in Outputs \ {source} : new[o] = files[o]
<1> DEFINE frame == Frame(data[place + 1], t)
<1>1. source \in Outputs /\ data \in Seq(Recs) /\ Increasing(data)
  BY DEF ExportInv
<1>2. place \in Nat
  BY DEF Encoded
<1>3. files[source].recs \in Seq(Frames) /\ Len(files[source].recs) \in Nat
  BY <1>1 DEF FileOf
<1>4. (t = -1 \/ t = Len(files[source].recs)) /\ t \in Int
  BY <1>3 DEF Stamps, Stamp
<1>5. frame \in Frames /\ frame.rec = data[place + 1]
  <2>1. data[place + 1] \in Recs
    BY <1>1, <1>2
  <2>2. QED
    BY <1>4, <2>1 DEF Frame, Frames
<1>6. FramesOf(Append(files[source].recs, frame), kind, data, place + 1)
  BY <1>1, <1>2, <1>3, <1>4, AddedFrame DEF Kept
<1> HIDE DEF frame
<1>7. /\ AddTo(files, source, frame) \in [Outputs -> FileOf(Frames)]
      /\ \A o \in Outputs \ {source} : AddTo(files, source, frame)[o] = files[o]
      /\ AddTo(files, source, frame)[source].there
      /\ AddTo(files, source, frame)[source].torn = files[source].torn
      /\ AddTo(files, source, frame)[source].recs = Append(files[source].recs, frame)
  BY <1>1, <1>5, AddToAppends
<1>8. new = AddTo(files, source, frame)
  BY DEF frame
<1>9. RecordsOf(new[source].recs) = RecordsOf(files[source].recs) \cup {data[place + 1]}
  <2>1. new[source].recs = Append(files[source].recs, frame)
    BY <1>7, <1>8
  <2>2. QED
    BY <1>3, <1>5, <2>1, AppendedRecord
<1>10. {rec \in framed \cup {data[place + 1]} : What(rec) = kind}
         = {rec \in framed : What(rec) = kind} \cup {data[place + 1]}
  OBVIOUS
<1>11. RecordsOf(new[source].recs) = {rec \in framed' : What(rec) = kind}
  BY <1>9, <1>10 DEF Kept, HasFramed
<1>12. QED
  BY <1>6, <1>7, <1>8, <1>11 DEF Kept

FIInv == CIInv /\ ExportInv

LEMMA ExportStarts ==
    ASSUME FIInv, NEW o \in Outputs, Export(o), UNCHANGED conversion
    PROVE  FIInv'
<1>1. /\ pc = "off" /\ source' = o /\ place' = 0 /\ data' = dlf[o].recs
      /\ outputs' = <<pcap, nr>> /\ framed' = {} /\ UNCHANGED <<dlf, anchors, f3, pcap, nr>>
      /\ IF dlf[o].there THEN pc' = "export" /\ UNCHANGED result ELSE pc' = "off" /\ result' = 2
  BY DEF Export, Result, dir
<1>2. dlf[o] \in FileOf(Recs) /\ Increasing(dlf[o].recs)
  BY DEF FIInv, CIInv, FilesTypeOK, Increases
<1>3. dlf[o].recs \in Seq(Recs)
  BY <1>2 DEF FileOf
<1>4. pcap' \in [Outputs -> FileOf(Frames)] /\ nr' \in [Outputs -> FileOf(Frames)]
  BY <1>1 DEF FIInv, CIInv, FilesTypeOK
<1>5. CIInv'
  BY <1>1, <1>4, ExportKeepsConversion DEF FIInv
<1>6. \A p : AsBefore(p)'
  BY <1>1 DEF AsBefore
<1>7. pc' = "off" => Exported'
  BY <1>1, <1>6 DEF Exported
<1>8. ExportInv'
  BY <1>1, <1>2, <1>3, <1>6, <1>7 DEF ExportInv
<1>9. QED
  BY <1>5, <1>8 DEF FIInv

\* What a step of an export keeps whatever it does.
LEMMA ExportGoesOn ==
    ASSUME FIInv, UNCHANGED <<dlf, anchors, f3, source, data, outputs, conversion>>,
           pc \in {"export", "open nr", "encode"},
           pc' \in {"off", "open nr", "encode"},
           framed' \subseteq ToSet(data),
           pcap' \in [Outputs -> FileOf(Frames)], nr' \in [Outputs -> FileOf(Frames)],
           \A o \in Outputs \ {source} : pcap'[o] = pcap[o] /\ nr'[o] = nr[o],
           pc' = "open nr" => place' = 0 /\ framed' = {} /\ pcap'[source] = File(<<>>),
           pc' = "encode" => Encoded',
           pc' = "off" => Exported'
    PROVE  FIInv'
<1>1. CIInv'
  BY ExportKeepsConversion DEF FIInv
<1>2. \A o \in Outputs \ {source} : AsBefore(o)'
  BY DEF FIInv, ExportInv, AsBefore
<1>3. ExportInv'
  BY <1>2 DEF FIInv, ExportInv
<1>4. QED
  BY <1>1, <1>3 DEF FIInv

LEMMA PcapTypes ==
    ASSUME FIInv
    PROVE  /\ source \in Outputs /\ data \in Seq(Recs) /\ Len(data) \in Nat
           /\ framed \subseteq ToSet(data)
           /\ pcap \in [Outputs -> FileOf(Frames)] /\ nr \in [Outputs -> FileOf(Frames)]
<1>1. /\ source \in Outputs /\ data \in Seq(Recs) /\ framed \subseteq ToSet(data)
      /\ pcap \in [Outputs -> FileOf(Frames)] /\ nr \in [Outputs -> FileOf(Frames)]
  BY DEF FIInv, ExportInv, CIInv, FilesTypeOK
<1>2. Len(data) \in Nat
  BY <1>1
<1>3. QED
  BY <1>1, <1>2

LEMMA OpeningKeeps ==
    ASSUME FIInv, CannotRead \/ OpenPcap \/ OpenNr, UNCHANGED conversion
    PROVE  FIInv'
<1>1. CASE CannotRead
  <2>1. /\ pc = "export" /\ pc' = "off" /\ result' = 1
        /\ UNCHANGED <<dlf, anchors, f3, pcap, nr, source, data, place, outputs, framed>>
    BY <1>1 DEF CannotRead, Result, dir
  <2>2. AsBefore(source)'
    BY <2>1 DEF FIInv, ExportInv, AsBefore
  <2>3. Exported'
    BY <2>1, <2>2 DEF Exported
  <2>4. QED
    BY <2>1, <2>3, PcapTypes, ExportGoesOn
<1>2. CASE OpenPcap
  <2>1. /\ pc = "export" /\ pc' = "open nr" /\ pcap' = [pcap EXCEPT ![source] = File(<<>>)]
        /\ UNCHANGED <<dlf, anchors, f3, nr, source, data, place, outputs, framed>>
    BY <1>2 DEF OpenPcap, At
  <2>2. /\ pcap' \in [Outputs -> FileOf(Frames)] /\ pcap'[source] = File(<<>>)
        /\ \A o \in Outputs \ {source} : pcap'[o] = pcap[o]
    BY <2>1, PcapTypes, EmptyFiles
  <2>3. place = 0 /\ framed = {}
    BY <2>1 DEF FIInv, ExportInv
  <2>4. QED
    BY <2>1, <2>2, <2>3, PcapTypes, ExportGoesOn
<1>3. CASE OpenNr
  <2>1. /\ pc = "open nr" /\ pc' = "encode" /\ nr' = [nr EXCEPT ![source] = File(<<>>)]
        /\ UNCHANGED <<dlf, anchors, f3, pcap, source, data, place, outputs, framed>>
    BY <1>3 DEF OpenNr, At, export
  <2>2. /\ nr' \in [Outputs -> FileOf(Frames)] /\ nr'[source] = File(<<>>)
        /\ \A o \in Outputs \ {source} : nr'[o] = nr[o]
    BY <2>1, PcapTypes, EmptyFiles
  <2>3. place = 0 /\ pcap[source] = File(<<>>) /\ framed = {}
    BY <2>1 DEF FIInv, ExportInv
  <2>4. /\ File(<<>>).there /\ ~File(<<>>).torn /\ File(<<>>).recs = <<>>
    BY EmptyFiles
  <2>5. Encoded'
    <3>1. /\ pcap'[source].there /\ ~pcap'[source].torn /\ pcap'[source].recs = <<>>
          /\ nr'[source].there /\ ~nr'[source].torn /\ nr'[source].recs = <<>>
          /\ source' = source /\ data' = data /\ framed' = {}
      BY <2>1, <2>2, <2>3, <2>4
    <3>2. place' \in 0 .. Len(data')
      <4>1. place' = 0 /\ data' = data /\ Len(data) \in Nat
        BY <2>1, <2>3, PcapTypes
      <4>2. QED
        BY <4>1
    <3>3. HasFramed(pcap[source].recs, "lte")' /\ HasFramed(nr[source].recs, "nr")'
      <4>1. DOMAIN <<>> = {}
        OBVIOUS
      <4>2. QED
        BY <3>1, <4>1 DEF HasFramed, RecordsOf
    <3>4. QED
      BY <3>1, <3>2, <3>3, NoFrames DEF Encoded, Kept
  <2>6. QED
    BY <2>1, <2>2, <2>5, PcapTypes, ExportGoesOn
<1>4. QED
  BY <1>1, <1>2, <1>3

LEMMA EncodeKeeps ==
    ASSUME FIInv, Encode, UNCHANGED conversion
    PROVE  FIInv'
<1> DEFINE Of(kind) == {rec \in framed' : What(rec) = kind}
           rec0 == data[place + 1]
<1>1. /\ pc = "encode" /\ pc' = pc /\ place < Len(data) /\ place' = place + 1
      /\ UNCHANGED <<dlf, anchors, f3, source, data, outputs>>
  BY DEF Encode
<1>2. Encoded /\ ExportInv
  BY <1>1 DEF FIInv, ExportInv
<1>3. place \in Nat /\ place' \in 0 .. Len(data) /\ place + 1 \in 1 .. Len(data)
  <2>1. place \in 0 .. Len(data) /\ Len(data) \in Nat
    BY <1>2, PcapTypes DEF Encoded
  <2>2. QED
    BY <1>1, <2>1
<1>4. /\ ~pcap[source].torn /\ ~nr[source].torn
      /\ pcap[source].there /\ nr[source].there
      /\ FramesOf(pcap[source].recs, "lte", data, place + 1)
      /\ FramesOf(nr[source].recs, "nr", data, place + 1)
      /\ RecordsOf(pcap[source].recs) = {rec \in framed : What(rec) = "lte"}
      /\ RecordsOf(nr[source].recs) = {rec \in framed : What(rec) = "nr"}
  BY <1>2, <1>3, PassedRecord DEF Encoded, Kept, HasFramed
<1>5. rec0 \in ToSet(data)
  BY <1>3, PcapTypes DEF ToSet
<1> DEFINE Next1(new, kind) ==
              /\ new \in [Outputs -> FileOf(Frames)] /\ new[source].there /\ ~new[source].torn
              /\ FramesOf(new[source].recs, kind, data, place + 1)
              /\ RecordsOf(new[source].recs) = Of(kind)
<1>6. /\ framed' \subseteq ToSet(data)
      /\ \A o \in Outputs \ {source} : pcap'[o] = pcap[o] /\ nr'[o] = nr[o]
      /\ Next1(pcap', "lte") /\ Next1(nr', "nr")
  <2>1. CASE UNCHANGED <<pcap, nr, framed>>
    BY <1>4, <2>1, PcapTypes
  <2>2. CASE What(data[place']) = "lte" /\ Into(pcap) /\ UNCHANGED nr
    <3>1. PICK t \in Stamps(pcap[source]) :
              pcap' = AddTo(pcap, source, Frame(data[place + 1], t))
      BY <2>2 DEF Into
    <3>2. framed' = framed \cup {rec0} /\ What(rec0) = "lte"
      BY <1>1, <2>2 DEF Into
    <3>3. /\ Next1(pcap', "lte") /\ \A o \in Outputs \ {source} : pcap'[o] = pcap[o]
      BY <1>1, <1>2, <3>1, <3>2, PcapTypes, IntoAdds DEF Encoded
    <3>4. Of("nr") = {rec \in framed : What(rec) = "nr"}
      BY <3>2
    <3>5. Next1(nr', "nr")
      BY <1>4, <2>2, <3>4, PcapTypes
    <3>6. framed' \subseteq ToSet(data)
      BY <1>5, <3>2, PcapTypes
    <3>7. QED
      BY <2>2, <3>3, <3>5, <3>6
  <2>3. CASE What(data[place']) = "nr" /\ Into(nr) /\ UNCHANGED pcap
    <3>1. PICK t \in Stamps(nr[source]) :
              nr' = AddTo(nr, source, Frame(data[place + 1], t))
      BY <2>3 DEF Into
    <3>2. framed' = framed \cup {rec0} /\ What(rec0) = "nr"
      BY <1>1, <2>3 DEF Into
    <3>3. /\ Next1(nr', "nr") /\ \A o \in Outputs \ {source} : nr'[o] = nr[o]
      BY <1>1, <1>2, <3>1, <3>2, PcapTypes, IntoAdds DEF Encoded
    <3>4. Of("lte") = {rec \in framed : What(rec) = "lte"}
      BY <3>2
    <3>5. Next1(pcap', "lte")
      BY <1>4, <2>3, <3>4, PcapTypes
    <3>6. framed' \subseteq ToSet(data)
      BY <1>5, <3>2, PcapTypes
    <3>7. QED
      BY <2>3, <3>3, <3>5, <3>6
  <2>4. QED
    BY <2>1, <2>2, <2>3 DEF Encode
<1>7. Encoded'
  BY <1>1, <1>3, <1>6 DEF Encoded, Kept, HasFramed
<1>8. QED
  BY <1>1, <1>6, <1>7, ExportGoesOn

\* A sibling that goes after the last record has no frame in it; one that cannot
\* be removed has those that were made.
LEMMA FinishKeeps ==
    ASSUME FIInv, Finish \/ FormatError, UNCHANGED conversion
    PROVE  FIInv'
<1>1. /\ pc = "encode" /\ pc' = "off"
      /\ UNCHANGED <<dlf, anchors, f3, pcap, source, data, place, outputs, framed>>
  BY DEF Finish, FormatError, Result
<1>2. Encoded
  BY <1>1 DEF FIInv, ExportInv
<1>3. PcapKept /\ NrKept
  <2>1. place \in Nat /\ Len(data) \in Nat /\ place <= Len(data)
    BY <1>2, PcapTypes DEF Encoded
  <2>2. QED
    BY <1>2, <2>1, FewerRecords DEF Encoded, PcapKept, NrKept, Kept
<1>4. nr' = nr \/ nr' = [nr EXCEPT ![source] = NoFile]
  BY DEF Finish, FormatError, Finalize
<1>5. /\ nr' \in [Outputs -> FileOf(Frames)]
      /\ \A o \in Outputs \ {source} : nr'[o] = nr[o]
      /\ nr' = nr \/ nr'[source] = NoFile
  BY <1>4, PcapTypes, EmptyFiles
<1>6. PcapKept' /\ (nr' = nr => NrKept')
  BY <1>1, <1>3 DEF PcapKept, NrKept, Kept, HasFramed
<1>7. CASE Finish
  <2>1. NrKept'
    <3>1. CASE nr' = nr
      BY <1>6, <3>1
    <3>2. CASE nr' # nr
      <4>1. Len(nr[source].recs) = 0 /\ nr'[source] = NoFile
        BY <1>5, <1>7, <3>2 DEF Finish, Finalize
      <4>2. nr[source].recs \in Seq(Frames)
        BY PcapTypes DEF FileOf
      <4>3. nr[source].recs = <<>>
        BY <4>1, <4>2
      <4>4. ~nr'[source].torn /\ nr'[source].recs = nr[source].recs
        BY <4>1, <4>3, EmptyFiles
      <4>5. HasFramed(nr[source].recs, "nr")'
        BY <1>1, <1>3, <4>4 DEF NrKept, Kept, HasFramed
      <4>6. QED
        BY <1>1, <1>3, <4>4, <4>5 DEF NrKept, Kept
    <3>3. QED
      BY <3>1, <3>2
  <2>2. result' = 0
    BY <1>7 DEF Finish, Result
  <2>3. Exported'
    BY <1>6, <2>1, <2>2 DEF Exported
  <2>4. QED
    BY <1>1, <1>5, <2>3, PcapTypes, ExportGoesOn
<1>8. CASE FormatError
  <2>1. result' = 1
    BY <1>8 DEF FormatError, Result
  <2>2. nr'[source'] = NoFile \/ NrKept'
    BY <1>1, <1>5, <1>6
  <2>3. Exported'
    BY <1>6, <2>1, <2>2 DEF Exported
  <2>4. QED
    BY <1>1, <1>5, <2>3, PcapTypes, ExportGoesOn
<1>9. QED
  BY <1>7, <1>8

LEMMA ExportKilledKeeps ==
    ASSUME FIInv, ExportKilled, UNCHANGED conversion
    PROVE  FIInv'
<1>1. /\ pc \in {"export", "open nr", "encode"} /\ pc' = "off" /\ result' = -1
      /\ UNCHANGED <<dlf, anchors, f3, source, data, outputs, framed>>
  BY DEF ExportKilled, Result
<1>2. /\ pcap' \in [Outputs -> FileOf(Frames)] /\ nr' \in [Outputs -> FileOf(Frames)]
      /\ \A o \in Outputs \ {source} : pcap'[o] = pcap[o] /\ nr'[o] = nr[o]
  <2>1. CASE UNCHANGED <<pcap, nr>>
    BY <2>1, PcapTypes
  <2>2. CASE \E p \in CutShort(pcap[source]), n \in CutShort(nr[source]) :
                  /\ pcap' = [pcap EXCEPT ![source] = p]
                  /\ nr' = [nr EXCEPT ![source] = n]
    <3>1. PICK p \in CutShort(pcap[source]), n \in CutShort(nr[source]) :
                  /\ pcap' = [pcap EXCEPT ![source] = p]
                  /\ nr' = [nr EXCEPT ![source] = n]
      BY <2>2
    <3>2. pcap[source] \in FileOf(Frames) /\ nr[source] \in FileOf(Frames)
      BY PcapTypes
    <3>3. p \in FileOf(Frames) /\ n \in FileOf(Frames)
      BY <3>2, CutShortIsFront
    <3>4. QED
      BY <3>1, <3>3, PcapTypes
  <2>3. QED
    BY <2>1, <2>2 DEF ExportKilled
<1>3. Exported'
  <2>1. result' = -1
    BY <1>1
  <2>2. \A r : r = -1 => r # 0 /\ r # 1 /\ r # 2
    OBVIOUS
  <2>3. QED
    BY <2>1, <2>2 DEF Exported
<1>4. QED
  BY <1>1, <1>2, <1>3, PcapTypes, ExportGoesOn

\* A conversion, and the extractor, leave the pcaps alone.
LEMMA ConversionKeepsExport ==
    ASSUME ExportInv, UNCHANGED <<pcap, nr, export>>,
           \/ UNCHANGED pc
           \/ /\ pc \notin {"export", "open nr", "encode"}
              /\ pc' \notin {"export", "open nr", "encode"}
    PROVE  ExportInv'
<1>1. UNCHANGED <<source, data, place, result, outputs, framed>>
  BY DEF export
<1>2. \A o : AsBefore(o)' <=> AsBefore(o)
  BY <1>1 DEF AsBefore
<1>3. AsBefore(source)' <=> AsBefore(source)
  BY <1>1 DEF AsBefore
<1>4. Encoded' = Encoded /\ PcapKept' = PcapKept /\ NrKept' = NrKept
  BY <1>1 DEF Encoded, PcapKept, NrKept, Kept, HasFramed
<1>5. Exported' <=> Exported
  BY <1>1, <1>3, <1>4 DEF Exported
<1>6. QED
  BY <1>1, <1>2, <1>3, <1>4, <1>5 DEF ExportInv

-----------------------------------------------------------------------------
(* The invariant.                                                          *)

LEMMA InitHolds == FilesInit => FIInv
<1> SUFFICES ASSUME FilesInit PROVE FIInv
  OBVIOUS
<1>1. /\ dlf = [o \in Outputs \cup {"-"} |-> NoFile]
      /\ anchors = [o \in Outputs |-> "none"] /\ f3 = [c \in Captures |-> "none"]
      /\ pcap = [o \in Outputs |-> NoFile] /\ nr = [o \in Outputs |-> NoFile]
      /\ pc = "off"
  BY DEF FilesInit, DirInit
<1>2. /\ job \in {CHOOSE j \in Jobs : TRUE} /\ exit = -1 /\ before = Snapshot
      /\ made = [o \in Outputs \cup {"-"} |-> {}]
      /\ source \in {CHOOSE o \in Outputs : TRUE} /\ data = <<>> /\ result = -1
      /\ outputs = <<pcap, nr>> /\ framed = {}
  BY DEF FilesInit, ConversionInit, ExportInit
<1>3. job \in Jobs /\ source \in Outputs
  <2>1. PICK c \in Captures : TRUE
    BY DirAssumption
  <2>2. [in |-> c, stdin |-> FALSE, out |-> "-", verify |-> FALSE, allow |-> FALSE,
         root |-> FALSE] \in Jobs
    BY DEF Jobs
  <2>3. QED
    BY <1>2, <2>2, DirAssumption
<1>4. \A r : r = -1 => r \notin {0, 1, 2, 3, 4, 130}
  OBVIOUS
<1>5. FilesTypeOK
  BY <1>1, EmptyFiles DEF FilesTypeOK, DirTypeOK
<1>6. Increases(dlf)
  BY <1>1, EmptyFiles DEF Increases
<1>7. Left
  BY <1>2, <1>4 DEF Left
<1>8. before.dlf = dlf /\ before.anchors = anchors
  BY <1>2 DEF Snapshot
<1>9. ConversionInv
  BY <1>1, <1>3, <1>7, <1>8
     DEF ConversionInv, OthersUntouched, SidecarKept, Untouched, Converting
<1>10. ArchiveInv
  <2>1. exit \notin {0, 130} /\ ~Converting /\ Archived \subseteq Outputs
    BY <1>1, <1>2, <1>4, DirAssumption DEF Converting
  <2>2. QED
    BY <1>2, <2>1 DEF ArchiveInv
<1>11. Exported
  BY <1>2, <1>4 DEF Exported
<1>12. ExportInv
  <2>1. data \in Seq(Recs) /\ Increasing(data)
    <3>1. data = <<>>
      BY DEF FilesInit, ExportInit
    <3>2. <<>> \in Seq(Recs)
      OBVIOUS
    <3>3. Increasing(<<>>)
      BY EmptyFiles
    <3>4. QED
      BY <3>1, <3>2, <3>3
  <2>2. \A o : AsBefore(o)
    BY <1>2 DEF AsBefore
  <2>3. QED
    BY <1>1, <1>2, <1>3, <1>11, <2>1, <2>2 DEF ExportInv
<1>13. QED
  BY <1>5, <1>6, <1>9, <1>10, <1>12 DEF FIInv, CIInv

LEMMA StepHolds == FIInv /\ [FilesNext]_filesVars => FIInv'
<1> SUFFICES ASSUME FIInv, [FilesNext]_filesVars PROVE FIInv'
  OBVIOUS
<1> USE DEF FIInv
<1>1. CASE UNCHANGED export /\ \E j \in SomeJobs : Convert(j)
  <2>1. PICK j \in SomeJobs : Convert(j)
    BY <1>1
  <2>2. CIInv'
    BY <2>1, FilesAssumption, ConvertKeeps
  <2>3. pc = "off" /\ pc' = "check" /\ UNCHANGED <<pcap, nr>>
    BY <2>1 DEF Convert, At, dir
  <2>4. QED
    BY <1>1, <2>2, <2>3, ConversionKeepsExport
<1>2. CASE UNCHANGED conversion /\ \E o \in Outputs : Export(o)
  BY <1>2, ExportStarts
<1>3. CASE (ConversionStep \/ Interrupt \/ ConversionKilled) /\ UNCHANGED export
  <2>1. CIInv'
    BY <1>3, RefuseKeeps, OpenKeeps, WalkKeeps, WalkEndKeeps, CarryKeeps, ReportKeeps,
       InterruptKeeps, ConversionKilledKeeps DEF ConversionStep
  <2>2. /\ UNCHANGED <<pcap, nr>>
        /\ pc \in {"check", "walk", "carry", "report"}
        /\ pc' \in {"off", "check", "walk", "carry", "report"}
    <3>1. CASE RefuseInput \/ RefuseF3
      BY <3>1 DEF RefuseInput, RefuseF3, Exit, dir
    <3>2. CASE OpenOutput \/ WalkEnds \/ Carry
      BY <3>2 DEF OpenOutput, WalkEnds, Carry, At, dir
    <3>3. CASE Walk \/ Report
      BY <3>3 DEF Walk, Report, Exit
    <3>4. CASE Interrupt \/ ConversionKilled
      BY <3>4 DEF Interrupt, ConversionKilled, Converting, Exit, dir
    <3>5. QED
      BY <1>3, <3>1, <3>2, <3>3, <3>4 DEF ConversionStep
  <2>3. QED
    BY <1>3, <2>1, <2>2, ConversionKeepsExport
<1>4. CASE (ExportStep \/ ExportKilled) /\ UNCHANGED conversion
  BY <1>4, OpeningKeeps, EncodeKeeps, FinishKeeps, ExportKilledKeeps DEF ExportStep
<1>5. CASE (\E c \in Captures : f3[c] # "full" /\ ExtractF3(c)) /\ UNCHANGED export
  <2>1. PICK c \in Captures : ExtractF3(c)
    BY <1>5
  <2>2. CIInv' /\ UNCHANGED <<pcap, nr, pc>>
    BY <2>1, ExtractionKeeps DEF ExtractF3
  <2>3. QED
    BY <1>5, <2>2, ConversionKeepsExport
<1>6. CASE UNCHANGED filesVars
  <2>1. /\ UNCHANGED <<dlf, anchors, f3, pcap, nr, pc, conversion, export>>
        /\ UNCHANGED <<job, pos, stop, stopped, exit, told, before, made>>
    BY <1>6 DEF filesVars, dir, conversion
  <2>2. FilesTypeOK' /\ Increases(dlf')
    BY <2>1, TypesStay DEF CIInv
  <2>3. Walked' = Walked /\ Converting' = Converting /\ Left' = Left
    BY <2>1 DEF Walked, Items, Converting, Left, Untouched
  <2>4. ConversionInv'
    BY <2>1, <2>3 DEF CIInv, ConversionInv, OthersUntouched, SidecarKept, Untouched
  <2>5. ArchiveInv'
    <3>1. SaidRight' = SaidRight /\ \A j : Saved(j)' <=> Saved(j)
      BY <2>1 DEF SaidRight, Archival, Saved
    <3>2. QED
      BY <2>1, <2>3, <3>1 DEF CIInv, ArchiveInv
  <2>6. CIInv'
    BY <2>2, <2>4, <2>5 DEF CIInv
  <2>7. QED
    BY <2>1, <2>6, ConversionKeepsExport
<1>7. QED
  BY <1>1, <1>2, <1>3, <1>4, <1>5, <1>6 DEF FilesNext

\* Whatever order conversions and exports come in, whichever is killed and
\* whatever the extractor does meanwhile, the invariant holds.
THEOREM FilesInvariance == FilesSpec => []FIInv
<1>1. QED
  BY InitHolds, StepHolds, PTL DEF FilesSpec

\* "Gate 0" and the warning after it: an archived DLF was made of a capture with
\* 0x79 or 0x99 frames only beside a sidecar with something in it, or with the
\* flag, or where there was no CAPTURES_ROOT; and a run that ends says so if F3
\* went by, naming it lost in the corpus only under the flag.
THEOREM F3LossesAreTold == FilesSpec => []F3LossIsTold
<1>1. FIInv => F3LossIsTold
  <2> SUFFICES ASSUME FIInv PROVE F3LossIsTold
    OBVIOUS
  <2>1. pc = "off" => ~Converting /\ pc # "check"
    BY DEF Converting
  <2>2. ArchiveInv
    BY DEF FIInv, CIInv
  <2>3. \A o \in Archived : \A j \in made[o] :
            j.root /\ ~j.allow /\ DroppedF3(j) # {} => ~j.stdin /\ f3[j.in] \in {"part", "full"}
    BY <2>2 DEF ArchiveInv, NeedsSidecar, Saved
  <2>4. pc = "off" /\ exit \in {0, 130} => SaidRight
    BY <2>1, <2>2 DEF ArchiveInv
  <2>5. QED
    BY <2>3, <2>4 DEF F3LossIsTold, SaidRight, Saved
<1>2. QED
  BY <1>1, FilesInvariance, PTL

LEMMA HasAllHolds ==
    ASSUME NEW file, NEW n, HasAll(job, file, n)
    PROVE  Holds(file, n)
<1>1. \A i : IsRecord(i) <=> IsRecordOf(job, i)
  BY DEF IsRecord, IsRecordOf, Good, Items, ItemsOf
<1>2. {i \in 1 .. n : IsRecord(i)} = {i \in 1 .. n : IsRecordOf(job, i)}
  BY <1>1
<1>3. QED
  BY <1>2 DEF HasAll, Holds, Increasing

\* The exit code tells what is on the disk: 0, every record of the capture once
\* and in order; 130, the first ones of them; 4, no output; 2 and 3, what was
\* there before.  No other output is touched, and no anchor sidecar replaced.
THEOREM ExitsTellTheTruth == FilesSpec => []ExitsLeaveWhatTheySay
<1>1. FIInv => ExitsLeaveWhatTheySay
  <2> SUFFICES ASSUME FIInv PROVE ExitsLeaveWhatTheySay
    OBVIOUS
  <2>1. DirTypeOK /\ OthersUntouched /\ SidecarKept
    BY DEF FIInv, CIInv, FilesTypeOK, ConversionInv
  <2>2. pc = "off" => Left
    BY DEF FIInv, CIInv, ConversionInv, Converting
  <2>3. Left => /\ exit \in {2, 3} => Untouched(job.out)
                /\ exit = 4 => ~dlf[job.out].there \/ job.out = "-"
                /\ exit = 0 => Holds(dlf[job.out], Len(Items))
                /\ exit = 130 => \E n \in DOMAIN Items : Holds(dlf[job.out], n - 1)
    <3>1. DOMAIN Items = 1 .. Len(Items)
      BY JobTypes DEF FIInv, CIInv, ConversionInv, Items, ItemsOf
    <3>2. QED
      BY <3>1, HasAllHolds DEF Left
  <2>4. QED
    BY <2>1, <2>2, <2>3 DEF ExitsLeaveWhatTheySay, OthersUntouched, SidecarKept
<1>2. QED
  BY <1>1, FilesInvariance, PTL

LEMMA FramesAreOrdered ==
    ASSUME NEW frames \in Seq(Frames), NEW kind, NEW d \in Seq(Recs),
           FramesOf(frames, kind, d, Len(d))
    PROVE  /\ WellOrdered(frames, kind)
           /\ \A k \in DOMAIN frames : frames[k].rec \in ToSet(d)
<1>1. \A j, k \in DOMAIN frames : j < k => j - 1 < k - 1
  OBVIOUS
<1>2. \A k \in DOMAIN frames : frames[k].stamp = -1 \/ frames[k].stamp = k - 1
  BY DEF FramesOf
<1>3. WellOrdered(frames, kind)
  BY <1>1, <1>2 DEF FramesOf, WellOrdered
<1>4. DOMAIN d = 1 .. Len(d)
  OBVIOUS
<1>5. \A k \in DOMAIN frames : frames[k].rec \in ToSet(d)
  BY <1>4 DEF FramesOf, ToSet
<1>6. QED
  BY <1>3, <1>5

\* After exit 0 of an export its two pcaps hold every frame it has made, of the
\* records of the file that was given, in order and each once, the stamps of those
\* with no clock of their own going up.  After exit 1 they are as they were, or
\* the first holds the frames up to the error and the sibling is gone or, when
\* unlink() failed, does too.  Exit 2 and other outputs: nothing is touched.
THEOREM PcapsAreOfTheFile == FilesSpec => []PcapsMatchRecords
<1>1. FIInv => PcapsMatchRecords
  <2> SUFFICES ASSUME FIInv PROVE PcapsMatchRecords
    OBVIOUS
  <2>1. /\ pc = "off" => Exported
        /\ framed \subseteq ToSet(data) /\ \A o \in Outputs \ {source} : AsBefore(o)
    BY DEF FIInv, ExportInv
  <2>2. pcap[source].recs \in Seq(Frames) /\ nr[source].recs \in Seq(Frames)
    BY PcapTypes DEF FileOf
  <2>3. /\ PcapKept => pcap[source].there /\ HoldsFrames(pcap[source], "lte")
        /\ NrKept => HoldsFrames(nr[source], "nr")
    BY <2>2, PcapTypes, FramesAreOrdered DEF PcapKept, NrKept, Kept, HasFramed, HoldsFrames, RecordsOf
  <2>4. QED
    BY <2>1, <2>3 DEF PcapsMatchRecords, Exported, AsBefore
<1>2. QED
  BY <1>1, FilesInvariance, PTL

=============================================================================
