------------------------------- MODULE TcpLink --------------------------------
(***************************************************************************)
(* _TcpTransport under DiagClient.recv() and send(), its three ways to get *)
(* a connection, and the handshake with a diagbroker.                      *)
(*                                                                         *)
(* The peer may end or reset a connection at any unit, and what was under  *)
(* way is lost from some unit on.  A peer that connects again starts with  *)
(* the next frame, or with what remains of the one it was sending.  The    *)
(* modem behind it keeps an unfinished frame over connections, as the      *)
(* docstring of resync_frame_boundary says.                                *)
(***************************************************************************)
EXTENDS HdlcUnits

CONSTANTS
    Roles,          \* of "server", "client", "broker"
    LineMax,        \* BROKER_LINE_MAX
    MaxFrames,      \* bounds of the model: frames, of both directions together,
    MaxBreaks       \* connections that end

ASSUME TcpAssumption ==
    /\ Roles \subseteq {"server", "client", "broker"}
    /\ {LineMax, MaxFrames, MaxBreaks} \subseteq Nat

VARIABLES
    role,           \* how the client was made
    conn,           \* "up", "ended" (its FIN came), "reset"
    wire,           \* what recv() of the socket would return
    resume,         \* what a new connection starts with
    out,            \* what send() took and the peer has not read
    pc,             \* where the calling thread is
    late,           \* the deadline of its recv() has passed
    pend,           \* _pend
    tail,           \* what write() has still to send
    line,           \* bytes of the broker's reply so far
    taken,          \* history: the stream of the frames recv() took off _pend
    read,           \* history: the stream that was read from sockets
    reached,        \* history: the stream that reached the modem
    offered, wrote,    \* frames of the peer, and of the client
    breaks          \* connections that have ended

net  == <<conn, wire, resume, out, reached, offered, breaks>>
host == <<pc, late, pend, tail, line, taken, read, wrote>>
tcpVars == <<role, net, host>>

Serving == role = "server"      \* _srv is kept

\* The units of the broker's reply: a byte of its line, and the newline, which
\* here carries what the line says.
Text     == <<0, "text">>
Accepted == <<0, "OK">>
Refused  == <<0, "ERR">>

TcpInit ==
    /\ role \in Roles
    /\ conn = "up" /\ wire = <<>> /\ resume = <<>> /\ out = <<>>
    /\ pc = IF role = "broker" THEN "subscribe" ELSE "idle"
    /\ late = FALSE /\ pend = <<>> /\ tail = <<>> /\ line = 0
    /\ taken = <<>> /\ read = <<>> /\ reached = <<>>
    /\ offered = 0 /\ wrote = 0 /\ breaks = 0

At(from, to) == pc = from /\ pc' = to

-----------------------------------------------------------------------------
(* broker_subscribe().                                                     *)

Subscribe ==
    /\ At("subscribe", IF conn = "up" THEN "reply" ELSE "over")
    /\ UNCHANGED <<role, net, late, pend, tail, line, taken, read, wrote>>

\* Mutant: the line may go on for ever.
AnyLength(n) == FALSE

TooLong(n) == n > LineMax

\* Mutant: what came with the reply is taken along, and lost.
TakeAll == wire' = <<>>

TakeOne == wire' = Tail(wire)

ReplyByte ==
    /\ wire # <<>> /\ conn # "reset" /\ TakeOne
    /\ CASE Head(wire) = Text ->
              /\ line' = IF line > LineMax THEN line ELSE line + 1
              /\ At("reply", IF TooLong(line + 1) THEN "over" ELSE "reply")
         [] Head(wire) = Accepted -> At("reply", "idle") /\ UNCHANGED line
         [] OTHER -> At("reply", "over") /\ UNCHANGED line
    /\ UNCHANGED <<role, conn, resume, out, reached, offered, breaks,
                   late, pend, tail, taken, read, wrote>>

\* No byte within the timeout, or the connection has gone.
NoReply ==
    /\ wire = <<>> \/ conn = "reset"
    /\ At("reply", "over")
    /\ UNCHANGED <<role, net, late, pend, tail, line, taken, read, wrote>>

-----------------------------------------------------------------------------
(* DiagClient.recv().                                                      *)

Recv ==
    /\ At("idle", "recv") /\ late' = FALSE
    /\ UNCHANGED <<role, net, pend, tail, line, taken, read, wrote>>

HasFrame == Contains(pend, Flag)

\* The first frame: an empty one is skipped, one that is nothing but a trailer
\* raises an IndexError, any other is returned.
TakeFrame ==
    LET n == SelectInSeq(pend, LAMBDA u : u = Flag)
        f == SubSeq(pend, 1, n - 1)
    IN  /\ HasFrame
        /\ At("recv", CASE f = <<>> -> "recv"
                        [] Len(f) = 1 /\ f[1][2] = "trailer" -> "over"
                        [] OTHER -> "idle")
        /\ taken' = taken \o Append(f, Flag)
        /\ pend' = SubSeq(pend, n + 1, Len(pend))
        /\ UNCHANGED <<role, net, late, tail, line, read, wrote>>

\* A partial frame stays in the buffer.
RecvTimesOut ==
    /\ ~HasFrame /\ late /\ At("recv", "idle")
    /\ UNCHANGED <<role, net, late, pend, tail, line, taken, read, wrote>>

\* A socket gives any part of what is there.
SocketRead ==
    \E n \in 1 .. Len(wire) :
        /\ conn # "reset"
        /\ pend' = pend \o SubSeq(wire, 1, n)
        /\ read' = read \o SubSeq(wire, 1, n)
        /\ wire' = SubSeq(wire, n + 1, Len(wire))
        /\ UNCHANGED <<role, conn, resume, out, reached, offered, breaks,
                       late, tail, line, taken, wrote>>

Reading == pc = "recv" /\ ~HasFrame /\ ~late

ReadMore == Reading /\ SocketRead /\ UNCHANGED pc

AtEnd == conn = "ended" /\ wire = <<>>

\* b'' at the end: the server accepts again, the others raise EOFError.  A
\* ConnectionResetError is not caught.
ReadFails ==
    /\ Reading /\ (AtEnd \/ conn = "reset")
    /\ pc' = IF AtEnd /\ Serving THEN "accept to read" ELSE "over"
    /\ UNCHANGED <<role, net, late, pend, tail, line, taken, read, wrote>>

\* The new connection is read at once, without select() and without a timeout.
FreshRead == pc = "fresh" /\ pc' = "recv" /\ SocketRead

\* One that ends before its first byte is the EOFError after all.
FreshFails ==
    /\ AtEnd \/ conn = "reset"
    /\ At("fresh", "over")
    /\ UNCHANGED <<role, net, late, pend, tail, line, taken, read, wrote>>

-----------------------------------------------------------------------------
(* _reconnect() and write().                                               *)

\* The peer connects within thirty seconds.
Accept ==
    /\ \/ At("accept to read", "fresh") \/ At("accept to write", "write")
    /\ conn' = "up" /\ wire' = resume /\ resume' = <<>>
    /\ UNCHANGED <<role, out, reached, offered, breaks,
                   late, pend, tail, line, taken, read, wrote>>

\* Mutant: the listening socket has no timeout.
AcceptForEver == FALSE /\ UNCHANGED tcpVars

\* EOFError, out of read() and out of write().
AcceptTimesOut ==
    /\ pc \in {"accept to read", "accept to write"} /\ pc' = "over"
    /\ UNCHANGED <<role, net, late, pend, tail, line, taken, read, wrote>>

StartWrite ==
    /\ offered + wrote < MaxFrames /\ At("idle", "write")
    /\ wrote' = wrote + 1
    /\ tail' = FrameOf(wrote')
    /\ UNCHANGED <<role, net, late, pend, line, taken, read>>

\* Mutant: what send() did not take is forgotten.
NoLoop(n) == <<>>

Unsent(n) == SubSeq(tail, n + 1, Len(tail))

\* send() takes a part.  After the peer's FIN it still does, for nothing.
Send ==
    /\ conn # "reset"
    /\ \E n \in 1 .. Len(tail) :
          /\ out' = IF conn = "up" THEN out \o SubSeq(tail, 1, n) ELSE out
          /\ tail' = Unsent(n)
          /\ At("write", IF tail' = <<>> THEN "idle" ELSE "write")
    /\ UNCHANGED <<role, conn, wire, resume, reached, offered, breaks,
                   late, pend, line, taken, read, wrote>>

\* BrokenPipeError or ConnectionResetError.
SendFails ==
    /\ conn # "up"
    /\ At("write", IF Serving THEN "accept to write" ELSE "over")
    /\ UNCHANGED <<role, net, late, pend, tail, line, taken, read, wrote>>

ClientStep ==
    \/ Subscribe \/ ReplyByte \/ NoReply
    \/ TakeFrame \/ RecvTimesOut \/ ReadMore \/ ReadFails \/ FreshRead \/ FreshFails
    \/ AcceptTimesOut \/ Send \/ SendFails

-----------------------------------------------------------------------------
(* The clock and the peer.                                                 *)

DeadlinePasses ==
    /\ pc \in {"recv", "accept to read", "fresh"} /\ ~late
    /\ late' = TRUE
    /\ UNCHANGED <<role, net, pc, pend, tail, line, taken, read, wrote>>

\* A broker sends nothing but its reply until that is out.
Replying == role = "broker" /\ pc \in {"subscribe", "reply"}
                /\ ~Contains(wire, Accepted) /\ ~Contains(wire, Refused)

\* One byte at a time, so that the line may come as slowly as it likes.
PeerReplies ==
    /\ conn = "up" /\ Replying /\ pc = "reply" /\ wire = <<>>
    /\ \E u \in {Text, Accepted, Refused} : wire' = <<u>>
    /\ UNCHANGED <<role, conn, resume, out, reached, offered, breaks, host>>

PeerSends ==
    /\ conn = "up" /\ ~Replying /\ ~Contains(wire, Refused)
    /\ offered + wrote < MaxFrames
    /\ offered' = offered + 1
    /\ wire' = wire \o FrameOf(offered')
    /\ UNCHANGED <<role, conn, resume, out, reached, breaks, host>>

PeerReads ==
    /\ conn = "up" /\ out # <<>>
    /\ reached' = reached \o out /\ out' = <<>>
    /\ UNCHANGED <<role, conn, wire, resume, offered, breaks, host>>

\* Both directions lose what is under way from some unit on.
Break ==
    /\ conn = "up" /\ breaks < MaxBreaks
    /\ breaks' = breaks + 1
    /\ \E i \in 0 .. Len(wire), j \in 0 .. Len(out) :
          LET gone == SubSeq(wire, i + 1, Len(wire))
          IN  /\ wire' = SubSeq(wire, 1, i)
              /\ \E k \in 0 .. 3 :
                    /\ k <= Len(gone)
                    /\ resume' = SubSeq(gone, Len(gone) - k + 1, Len(gone))
              /\ reached' = reached \o SubSeq(out, 1, j)
    /\ out' = <<>>
    /\ conn' \in {"ended", "reset"}
    /\ UNCHANGED <<role, offered, host>>

PeerStep == Accept \/ PeerReplies \/ PeerSends \/ PeerReads \/ Break

Over == pc = "over" /\ UNCHANGED tcpVars

TcpNext == Recv \/ StartWrite \/ ClientStep \/ DeadlinePasses \/ PeerStep \/ Over

\* The calling thread runs and the clock advances.  The peer owes nothing.
TcpFairness == WF_tcpVars(ClientStep) /\ WF_tcpVars(DeadlinePasses)

TcpSpec == TcpInit /\ [][TcpNext]_tcpVars /\ TcpFairness

-----------------------------------------------------------------------------
(* Properties.                                                             *)

TcpTypeOK ==
    /\ role \in Roles /\ conn \in {"up", "ended", "reset"}
    /\ pc \in {"subscribe", "reply", "idle", "recv", "fresh", "write",
               "accept to read", "accept to write", "over"}
    /\ late \in BOOLEAN /\ line \in 0 .. LineMax + 1
    /\ offered \in 0 .. MaxFrames /\ wrote \in 0 .. MaxFrames - offered
    /\ breaks \in 0 .. MaxBreaks
    /\ tail # <<>> => pc \in {"write", "accept to write", "over"}

\* No frame is checked by its CRC here, _pend is carried from connection to
\* connection, and write() sends the tail of a frame on the new one although its
\* head may be lost: even so, a connection that ends spoils at most one frame of
\* each direction, and every other frame is as it was sent, in order.
OneMangledPerBreak ==
    \A stream \in {taken, reached} :
        Cardinality(Mangled(stream)) <= breaks /\ IntactInOrder(stream)

\* Between the sockets and the caller nothing is lost, doubled or left out: not
\* what came in one segment with the broker's reply, not what was in _pend when
\* a recv() timed out.
NothingLostInClient ==
    /\ TcpTypeOK
    /\ taken \o pend = read
    /\ breaks = 0 /\ pc \notin {"subscribe", "reply", "over"}
          => read \o wire = StreamOf(offered)

\* The timeout of broker_subscribe is for each byte, but the line is bounded: a
\* broker that drips it, or sends none, cannot keep the caller.
HandshakeEnds == (pc = "reply") ~> (pc # "reply")

\* A recv() with a timeout comes back, through any number of connections that
\* end, unless it is in the read of a new connection that stays silent.
SilentFresh == pc = "fresh" /\ conn = "up" /\ wire = <<>>

RecvComesBack == late ~> (pc \in {"idle", "over"} \/ SilentFresh)

=============================================================================
