-------------------------- MODULE BroadcastRecords ---------------------------
(***************************************************************************)
(* _UdpBroadcastTransport: QMDL2 records that diag_udp_fwd broadcasts,     *)
(* whole or in pieces, under a 16-bit sequence number.                     *)
(*                                                                         *)
(* The path loses datagrams and lets one be overtaken.  The read side of   *)
(* the client is a thread inside read(): it blocks in the socket until a   *)
(* datagram leaves a log frame to return.                                  *)
(***************************************************************************)
EXTENDS HdlcUnits, Selections

CONSTANTS
    Cuts,           \* where in the stream of frames each datagram ends
    RecordEnds,     \* the datagrams that end a record
    LogFrames,      \* the frames with opcode 0x10
    Lookalikes,     \* frames of which a cut-off rest happens to start with 0x10
    Chunk,          \* the size recv() asks for
    NumMod,         \* 2^16
    GapMax,         \* the largest gap that is not taken for a restart: 1000
    FirstSeq,       \* where the numbers start
    Headers,        \* whether the datagrams have the header with the number
    Overtaking,     \* bounds of the model: how many may overtake a datagram,
    MaxLost         \* datagrams lost

\* The stream up to a datagram.  A datagram is a piece of a record, with the two
\* flags of a fragment; a record of one piece goes out without them.
Before(p)   == IF p = 1 THEN 0 ELSE Cuts[p - 1]
Data(p)     == Segment(Before(p) + 1, Cuts[p] - Before(p))
IsFirst(p)  == p = 1 \/ p - 1 \in RecordEnds
IsLast(p)   == p \in RecordEnds
Whole(p)    == IsFirst(p) /\ IsLast(p)

ASSUME BroadcastAssumption ==
    /\ NumMod \in Nat /\ GapMax \in Nat /\ GapMax < NumMod - 1
    /\ FirstSeq \in 0 .. NumMod - 1 /\ Headers \subseteq BOOLEAN
    /\ Chunk \in Nat \ {0}
    /\ Cuts \in Seq(Nat) /\ \A p \in DOMAIN Cuts : Before(p) < Cuts[p]
    /\ RecordEnds \subseteq DOMAIN Cuts /\ \A z \in RecordEnds : Cuts[z] % 3 = 0
    /\ Overtaking \in Nat /\ MaxLost \in Nat

VARIABLES
    numbered,       \* they have it in this behaviour
    flying,         \* the datagrams under way, by their place in Cuts
    nextOut,        \* the place of the next one to be sent
    expected,       \* _seq_expected; -1 for None
    drops, total,   \* _seq_drops, _seq_total
    fragBuf,        \* _frag_buf
    outBuf,         \* _out
    got,            \* history: the stream that read() returned
    received,       \* history: the places of the datagrams received, in order
    lost            \* history: the places of those lost

broadcastVars == <<numbered, flying, nextOut, expected, drops, total, fragBuf,
                   outBuf, got, received, lost>>

BroadcastInit ==
    /\ numbered \in Headers
    /\ flying = <<>> /\ nextOut = 1
    /\ expected = -1 /\ drops = 0 /\ total = 0
    /\ fragBuf = <<>> /\ outBuf = <<>> /\ got = <<>>
    /\ received = <<>> /\ lost = {}

-----------------------------------------------------------------------------
(* _track_seq().                                                           *)

NumberOf(place) == (FirstSeq + place - 1) % NumMod

\* Mutant: the gap is not reduced to 16 bits.
PlainGap(seq) == seq - expected

Gap(seq) == (seq - expected) % NumMod

TrackSeq(seq) ==
    /\ total' = total + 1
    /\ drops' = IF expected # -1 /\ Gap(seq) \in 0 .. GapMax THEN drops + Gap(seq) ELSE drops
    /\ expected' = (seq + 1) % NumMod

-----------------------------------------------------------------------------
(* _extract_from_record().                                                 *)

\* Between two delimiters, and after the last one: what starts with 0x10.
IsLog(f) ==
    /\ f # <<>>
    /\ \/ f[1] = Body(f[1][1]) /\ f[1][1] \in LogFrames
       \/ f[1] = Trailer(f[1][1]) /\ f[1][1] \in Lookalikes

\* bytes.split(b'\x7e'), of whose pieces the last has no delimiter, and those that
\* are logs.  The two last bytes make room for two dummy ones, which recv() strips:
\* a frame comes out under a trailer of no meaning, here its own.
Extracted(record) ==
    LET s    == Append(record, Flag)
        logs == {e \in Ends(s) : IsLog(FrameAt(s, e))}
    IN  Picked(s, {i \in DOMAIN s : \E e \in logs : i \in EndBefore(s, e) + 1 .. e})

-----------------------------------------------------------------------------
(* read().                                                                 *)

\* Mutant: a first fragment goes behind what is in the buffer.
Rejoined(p) == fragBuf \o Data(p)

Joined(p) == IF IsFirst(p) THEN Data(p) ELSE fragBuf \o Data(p)

\* The i-th datagram under way arrives, when there is nothing to return.
Receive(i) ==
    LET place == flying[i] IN
        /\ outBuf = <<>> /\ i <= Overtaking + 1
        /\ flying' = RemoveAt(flying, i)
        /\ received' = Append(received, place)
        /\ IF numbered THEN TrackSeq(NumberOf(place))
                       ELSE UNCHANGED <<expected, drops, total>>
        /\ IF Whole(place)
           THEN UNCHANGED fragBuf /\ outBuf' = Extracted(Data(place))
           ELSE IF IsLast(place)
           THEN fragBuf' = <<>> /\ outBuf' = Extracted(Joined(place))
           ELSE fragBuf' = Joined(place) /\ UNCHANGED outBuf
        /\ UNCHANGED <<numbered, nextOut, got, lost>>

Return ==
    LET n == IF Chunk < Len(outBuf) THEN Chunk ELSE Len(outBuf)
    IN  /\ outBuf # <<>>
        /\ got' = got \o SubSeq(outBuf, 1, n)
        /\ outBuf' = SubSeq(outBuf, n + 1, Len(outBuf))
        /\ UNCHANGED <<numbered, flying, nextOut, expected, drops, total, fragBuf, received, lost>>

-----------------------------------------------------------------------------
(* diag_udp_fwd and the path.                                              *)

SendNext ==
    /\ nextOut <= Len(Cuts)
    /\ flying' = Append(flying, nextOut)
    /\ nextOut' = nextOut + 1
    /\ UNCHANGED <<numbered, expected, drops, total, fragBuf, outBuf, got, received, lost>>

Lose(i) ==
    /\ Cardinality(lost) < MaxLost
    /\ lost' = lost \cup {flying[i]}
    /\ flying' = RemoveAt(flying, i)
    /\ UNCHANGED <<numbered, nextOut, expected, drops, total, fragBuf, outBuf, got, received>>

AllThrough ==
    /\ nextOut > Len(Cuts) /\ flying = <<>> /\ outBuf = <<>>
    /\ UNCHANGED broadcastVars

BroadcastNext ==
    \/ SendNext \/ Return \/ AllThrough
    \/ \E i \in DOMAIN flying : Receive(i) \/ Lose(i)

BroadcastSpec == BroadcastInit /\ [][BroadcastNext]_broadcastVars

-----------------------------------------------------------------------------
(* Properties.                                                             *)

BroadcastTypeOK ==
    /\ expected \in -1 .. NumMod - 1
    /\ drops \in Nat /\ total \in 0 .. Len(Cuts)
    /\ nextOut \in 1 .. Len(Cuts) + 1
    /\ ToSet(received) \cap lost = {}
    /\ total = IF numbered THEN Len(received) ELSE 0

\* The places in `received` of the datagrams that came behind a later one.
LateOnes == {i \in 2 .. Len(received) : received[i] < received[i - 1]}

\* The places passed over and not received.
Missing ==
    {n \in received[1] .. Max(ToSet(received)) : n \notin ToSet(received)}

\* Where one does not follow the datagram sent before it.
Seams ==
    {i \in DOMAIN received :
        received[i] # 1 + (IF i = 1 THEN 0 ELSE received[i - 1])}

\* What is counted again as the numbers go back to a datagram that comes late.
CountedAgain == UNION {{i} \X (received[i] .. received[i - 1]) : i \in LateOnes}

\* What is reported as dropped is never less than what is missing, across the
\* wrap of the number too.  A datagram that comes late moves the expected number
\* back, so the ones behind it are counted again: by no more than it was late.
\* Only a gap so wide that it is taken for a restart of the sender is not told,
\* nor a datagram so late that the wrap makes it look like one ahead.
NoRestart ==
    \A i \in 2 .. Len(received) : received[i] - received[i - 1] - 1 <= GapMax

NoneTooLate ==
    \A i \in 2 .. Len(received) : GapMax - NumMod < received[i] - received[i - 1] - 1

DropsSuffice ==
    numbered /\ received # <<>> /\ NoRestart => drops >= Cardinality(Missing)

DropsCoverLoss ==
    /\ BroadcastTypeOK
    /\ DropsSuffice
    /\ numbered /\ received # <<>> /\ NoRestart /\ NoneTooLate =>
          drops <= Cardinality(Missing) + Cardinality(CountedAgain)

Returned == got \o outBuf

\* A record is clean when its pieces come in a row.
Opening(p) == 1 + LastBefore({0} \cup RecordEnds, p)

CleanAt(p, i) ==
    \A k \in 0 .. p - Opening(p) : i - k \in DOMAIN received /\ received[i - k] = p - k

Clean(z) == \E i \in DOMAIN received : CleanAt(z, i)

FramesOf(z) == {k \in 1 .. Cuts[z] : Before(Opening(z)) < 3 * k /\ 3 * k <= Cuts[z]}

FromClean(f) == \E z \in RecordEnds : Clean(z) /\ \E k \in FramesOf(z) : f = Contents(k)

\* The frames of clean records come out in the order of the sender, each once.
CleanInOrder ==
    \A d, e \in Ends(Returned) :
        d < e /\ FromClean(FrameAt(Returned, d)) /\ FromClean(FrameAt(Returned, e))
            => FrameAt(Returned, d)[1][1] < FrameAt(Returned, e)[1][1]

\* A lost or late fragment joins pieces of different records, and the CRC is
\* stripped unread: where the pieces of two records or of one with a hole are
\* joined one log frame may come out mangled.  The log frames of a record whose
\* pieces come in a row come out whole, whatever becomes of the others, and in
\* order if no datagram is late.
DamageStaysInRecord ==
    /\ \A z \in RecordEnds : Clean(z) =>
          \A k \in FramesOf(z) \cap LogFrames : Contents(k) \in FramesIn(Returned)
    /\ Cardinality(Mangled(Returned)) <= Cardinality(Seams)
    /\ LateOnes = {} => CleanInOrder

=============================================================================
