------------------------------ MODULE HdlcUnits -------------------------------
(***************************************************************************)
(* An HDLC stream as the transports see it: bytes they pass on, cut up and *)
(* joined without looking.  A frame is three units, of which one is the    *)
(* delimiter; a connection or a datagram may end between any two.          *)
(***************************************************************************)
EXTENDS Integers, Sequences, FiniteSets, SequencesExt, FiniteSetsExt

Flag       == <<0, "flag">>
Body(k)    == <<k, "body">>         \* opcode, payload
Trailer(k) == <<k, "trailer">>      \* the two bytes that recv() strips

Contents(k) == <<Body(k), Trailer(k)>>
FrameOf(k)  == Append(Contents(k), Flag)

\* The stream of all frames, by its places, and k units of it from place a on.
UnitAt(p)     == FrameOf((p + 2) \div 3)[1 + ((p + 2) % 3)]
Segment(a, k) == [i \in 1 .. k |-> UnitAt(a + i - 1)]

\* The stream of the frames 1 .. n.
StreamOf(n) == [i \in 1 .. 3 * n |-> UnitAt(i)]

\* What stands before each delimiter, from the one before it on.
Ends(s)         == {e \in DOMAIN s : s[e] = Flag}
EndBefore(s, e) == Max({0} \cup {d \in Ends(s) : d < e})
FrameAt(s, e)   == SubSeq(s, 1 + EndBefore(s, e), e - 1)
FramesIn(s)     == {FrameAt(s, e) : e \in Ends(s)}

Intact(f) == f # <<>> /\ f = Contents(f[1][1])

\* Where the frames are that are not what their sender framed.
Mangled(s) == {e \in Ends(s) : FrameAt(s, e) # <<>> /\ ~Intact(FrameAt(s, e))}

\* The intact ones are those the sender sent, each once, in its order.
IntactInOrder(s) ==
    \A d, e \in Ends(s) :
        d < e /\ Intact(FrameAt(s, d)) /\ Intact(FrameAt(s, e))
            => FrameAt(s, d)[1][1] < FrameAt(s, e)[1][1]

=============================================================================
