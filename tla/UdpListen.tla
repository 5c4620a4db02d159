------------------------------ MODULE UdpListen ------------------------------
(***************************************************************************)
(* _UdpListenTransport under DiagClient: the socket, the queue _ready of   *)
(* payloads the tracker released, the byte buffer _pend, and the reading   *)
(* calls recv() and read_raw() of the one thread that uses the client.     *)
(*                                                                         *)
(* A call is many steps: select() watches the socket, read() may block in  *)
(* sock.recv(), and between two steps datagrams arrive, the deadline       *)
(* passes or another thread sets the stop event.                           *)
(*                                                                         *)
(* A payload is a slice of the HDLC stream with at most one delimiter, at  *)
(* its end; its kind says what the client makes of it.                     *)
(***************************************************************************)
EXTENDS Dge1Tracker

CONSTANTS
    Arrivals,       \* the datagrams the socket may receive
    SockCap         \* datagrams the kernel keeps for the socket

\* "part" has no delimiter.  The others end a frame: one that decapsulates,
\* one that recv() skips ("junk", say an empty one), or one with nothing left
\* once its two trailer bytes are stripped ("bare").  "none" is zero bytes.
Kinds == {"part", "frame", "junk", "bare", "none"}

\* parse_dge1_header() returns None for Malformed.  Zero is the datagram with
\* no bytes at all, which sock.recv() returns as b''.
Malformed == [dgram |-> "malformed"]
Zero      == [dgram |-> "zero"]

ASSUME ListenAssumption ==
    /\ Payload \subseteq Kinds
    /\ SockCap \in Nat \ {0}
    /\ Arrivals \subseteq {Malformed, Zero} \cup
          [dgram : {"dge1"}, payload : Payload, seq : SeqNo, restart : BOOLEAN]

VARIABLES
    sock,       \* the datagrams waiting in the kernel
    ready,      \* _ready
    eof,        \* _eof
    pend,       \* DiagClient._pend, slice by slice
    pc,         \* where the calling thread is
    call,       \* the call it makes, "recv" or "read_raw"
    timed,      \* the call has a timeout
    late,       \* and it has passed
    stop,       \* the stop event is set
    result,     \* how the last call ended
    taken       \* history: slices the caller has consumed

reader == <<sock, ready, eof, pend, pc, call, timed, late, stop, result, taken>>
listenVars == <<vars, reader>>

\* "empty" is the EOFError raised for a payload of zero bytes.
Results == {"none", "frame", "data", "nothing", "TimeoutError",
            "InterruptedError", "EOFError", "empty", "IndexError"}

ListenInit ==
    /\ Init
    /\ sock = <<>> /\ ready = <<>> /\ eof = FALSE /\ pend = <<>>
    /\ pc = "idle" /\ call = "recv" /\ timed = FALSE
    /\ late = FALSE /\ stop = FALSE
    /\ result = "none" /\ taken = 0

-----------------------------------------------------------------------------
(* The surroundings.                                                       *)

Arrived ==
    fed + Len(SelectSeq(sock, LAMBDA d : d # Malformed)) + (IF eof THEN 1 ELSE 0)

\* MaxFed bounds the datagrams of the stream.  Of those that are none of it, and
\* release nothing, any number may come.
KernelQueues ==
    /\ Len(sock) < SockCap
    /\ \E d \in Arrivals :
          /\ d = Malformed \/ Arrived < MaxFed
          /\ sock' = Append(sock, d)
    /\ UNCHANGED <<vars, ready, eof, pend, pc, call, timed, late, stop, result, taken>>

DeadlinePasses ==
    /\ pc # "idle" /\ timed /\ ~late
    /\ late' = TRUE
    /\ UNCHANGED <<vars, sock, ready, eof, pend, pc, call, timed, stop, result, taken>>

SetStop ==
    /\ ~stop
    /\ stop' = TRUE
    /\ UNCHANGED <<vars, sock, ready, eof, pend, pc, call, timed, late, result, taken>>

\* No caller reads on after an EOFError.
Call ==
    /\ pc = "idle" /\ result \notin {"EOFError", "empty"}
    /\ pc' = "check"
    /\ call' \in {"recv", "read_raw"}
    /\ timed' \in BOOLEAN
    /\ late' = FALSE
    /\ result' = "none"
    /\ UNCHANGED <<vars, sock, ready, eof, pend, stop, taken>>

-----------------------------------------------------------------------------
(* recv() and read_raw(), up to select().                                  *)

Goto(l) == pc' = l /\ UNCHANGED result

Return(r) == pc' = "idle" /\ result' = r

HasDelimiter(slices) == \E i \in 1 .. Len(slices) : slices[i] # "part"

FirstEnd(slices) ==
    CHOOSE i \in 1 .. Len(slices) :
        slices[i] # "part" /\ \A j \in 1 .. i - 1 : slices[j] = "part"

\* recv() splits the first frame off _pend.  Decapsulation refuses a malformed
\* one with an AssertionError, and the loop goes on; payload[0] of an empty
\* one is an IndexError.
TakeFrame ==
    LET end == FirstEnd(pend)
    IN  /\ pc = "check" /\ call = "recv" /\ HasDelimiter(pend)
        /\ pend' = SubSeq(pend, end + 1, Len(pend))
        /\ taken' = taken + end
        /\ CASE pend[end] = "frame" -> Return("frame")
             [] pend[end] = "junk"  -> Goto("check")
             [] pend[end] = "bare"  -> Return("IndexError")
        /\ UNCHANGED <<vars, sock, ready, eof, call, timed, late, stop>>

\* read_raw() returns what _pend holds before it asks the socket.
TakePending ==
    /\ pc = "check" /\ call = "read_raw" /\ pend # <<>>
    /\ pend' = <<>>
    /\ taken' = taken + Len(pend)
    /\ Return("data")
    /\ UNCHANGED <<vars, sock, ready, eof, call, timed, late, stop>>

\* Mutant: the deadline is not looked at again.
CheckStopOnly ==
    /\ pc = "check"
    /\ IF call = "recv"
       THEN /\ ~HasDelimiter(pend)
            /\ IF stop THEN Return("InterruptedError") ELSE Goto("select")
       ELSE pend = <<>> /\ Goto("select")
    /\ UNCHANGED <<vars, sock, ready, eof, pend, call, timed, late, stop, taken>>

\* No frame buffered: recv() looks at the stop event, then at its deadline,
\* then selects; read_raw() selects.
CheckLimits ==
    /\ pc = "check"
    /\ IF call = "recv"
       THEN /\ ~HasDelimiter(pend)
            /\ CASE stop -> Return("InterruptedError")
                 [] ~stop /\ late -> Return("TimeoutError")
                 [] ~stop /\ ~late -> Goto("select")
       ELSE pend = <<>> /\ Goto("select")
    /\ UNCHANGED <<vars, sock, ready, eof, pend, call, timed, late, stop, taken>>

\* select() waits on the socket: at most a second in recv(), which then loops,
\* and the whole timeout in read_raw(), which then returns b''.
SelectReady ==
    /\ pc = "select" /\ sock # <<>>
    /\ Goto("read")
    /\ UNCHANGED <<vars, sock, ready, eof, pend, call, timed, late, stop, taken>>

SelectExpires ==
    /\ pc = "select" /\ sock = <<>>
    /\ \/ call = "recv" /\ Goto("check")
       \/ call = "read_raw" /\ late /\ Return("nothing")
    /\ UNCHANGED <<vars, sock, ready, eof, pend, call, timed, late, stop, taken>>

-----------------------------------------------------------------------------
(* read() of the transport.                                                *)

\* What the caller does with the bytes read() returned: none is taken for the
\* end of the stream.
Receive(slice) ==
    IF slice = "none"
    THEN Return("empty") /\ taken' = taken + 1 /\ UNCHANGED pend
    ELSE IF call = "recv"
         THEN Goto("check") /\ pend' = Append(pend, slice) /\ UNCHANGED taken
         ELSE Return("data") /\ taken' = taken + 1 /\ UNCHANGED pend

PopReady ==
    /\ pc = "read" /\ ready # <<>>
    /\ ready' = Tail(ready)
    /\ Receive(Head(ready))
    /\ UNCHANGED <<vars, sock, eof, call, timed, late, stop>>

\* Mutant: the EOF is raised before the queue is drained.
RaiseEofFirst ==
    /\ pc = "read" /\ eof
    /\ Return("EOFError")
    /\ UNCHANGED <<vars, sock, ready, eof, pend, call, timed, late, stop, taken>>

RaiseEof ==
    /\ pc = "read" /\ ready = <<>> /\ eof
    /\ Return("EOFError")
    /\ UNCHANGED <<vars, sock, ready, eof, pend, call, timed, late, stop, taken>>

\* Mutant: the socket is asked while payloads wait.
EnterSockRecvAlways ==
    /\ pc = "read" /\ ~eof
    /\ Goto("recv")
    /\ UNCHANGED <<vars, sock, ready, eof, pend, call, timed, late, stop, taken>>

\* sock.recv() blocks until there is a datagram.
EnterSockRecv ==
    /\ pc = "read" /\ ready = <<>> /\ ~eof
    /\ Goto("recv")
    /\ UNCHANGED <<vars, sock, ready, eof, pend, call, timed, late, stop, taken>>

\* note_malformed(); past MaxBad of them the model counts no further.
CountMalformed ==
    \/ stats.bad < MaxBad /\ NoteMalformed
    \/ /\ stats.bad >= MaxBad /\ out' = <<>>
       /\ UNCHANGED <<window, expected, stats, seen, seenSet, pending, fed, discarded>>

SockRecv ==
    /\ pc = "recv" /\ sock # <<>>
    /\ sock' = Tail(sock)
    /\ LET d == Head(sock)
       IN  \/ d = Zero /\ eof' = TRUE /\ Flush
           \/ d = Malformed /\ CountMalformed /\ UNCHANGED eof
           \/ d.dgram = "dge1" /\ Feed(d.payload, d.seq, d.restart) /\ UNCHANGED eof
    /\ ready' = ready \o out'
    /\ Goto("read")
    /\ UNCHANGED <<pend, call, timed, late, stop, taken>>

ReaderStep ==
    \/ TakeFrame \/ TakePending \/ CheckLimits \/ SelectReady \/ SelectExpires
    \/ PopReady \/ RaiseEof \/ EnterSockRecv \/ SockRecv

ListenNext == KernelQueues \/ DeadlinePasses \/ SetStop \/ Call \/ ReaderStep

\* The thread runs, time passes and the caller calls again; nothing says that
\* a datagram arrives.
ListenFairness ==
    /\ WF_listenVars(ReaderStep)
    /\ WF_listenVars(DeadlinePasses)
    /\ WF_listenVars(Call)

ListenSpec == ListenInit /\ [][ListenNext]_listenVars /\ ListenFairness

-----------------------------------------------------------------------------
(* Properties.                                                             *)

\* _ready holds one burst at most, because read() asks the socket only when it
\* is empty: a run of the reorder buffer and the datagram before it.
ListenTypeOK ==
    /\ TypeOK
    /\ sock \in Seq(Arrivals) /\ Len(sock) <= SockCap
    /\ ready \in Seq(Payload) /\ Len(ready) <= window + 1
    /\ pend \in Seq(Payload \ {"none"})
    /\ pc \in {"idle", "check", "select", "read", "recv"}
    /\ call \in {"recv", "read_raw"}
    /\ {eof, timed, late, stop} \subseteq BOOLEAN
    /\ result \in Results
    /\ taken \in Nat

\* Between the tracker and the caller no payload is lost or doubled: what
\* gap_report() counts as received is consumed, in _pend or in _ready.  "Flush
\* any datagrams still held ... then signal EOF once the queue is exhausted":
\* nothing is left behind an EOF.
ReceivedReachesCaller ==
    /\ stats.received = taken + Len(pend) + Len(ready)
    /\ eof /\ result = "EOFError" => ready = <<>> /\ Held = {}

Overdue == pc # "idle" /\ (late \/ (stop /\ call = "recv"))

Inside == pc \in {"read", "recv"}

\* A call past its deadline, or stopped, comes back, or is caught inside read(),
\* which looks at neither: blocked in sock.recv(), because the datagram select()
\* saw released no payload, or going round over datagrams that release none,
\* though the docstring of recv() promises a hard deadline.  Only that holds it:
\* the first payload that is released brings it back.
LimitsHonouredOutsideRead ==
    /\ [](Overdue => <>(pc = "idle") \/ <>[](Inside /\ ready = <<>>))
    /\ (Overdue /\ ready # <<>>) ~> (pc = "idle")

=============================================================================
