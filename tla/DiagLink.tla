------------------------------ MODULE DiagLink -------------------------------
(***************************************************************************)
(* DiagClient's request/response primitive _send_recv over a byte stream   *)
(* to a modem, as the operations built on it see it.                       *)
(*                                                                         *)
(* Both directions keep their order, but a reply may take longer than the  *)
(* caller waits, and the modem mixes in frames nobody asked for.  A frame  *)
(* is atomic here: bytes of an unfinished one are a frame that has not     *)
(* arrived.  What is in the frame is kept only as far as some operation    *)
(* looks at it.                                                            *)
(*                                                                         *)
(* The module has no Next: an operation starts with SendRecv(r) when pc is *)
(* "ready" and goes on from the answer when pc is "ready" again.  A module *)
(* that EXTENDS this one adds the operations and the modem.                *)
(***************************************************************************)
EXTENDS Integers, Sequences, FiniteSets

CONSTANTS
    Noise,          \* frames the modem sends unasked
    WireCap         \* bound of the model: frames between modem and client

ASSUME LinkAssumption == WireCap \in Nat \ {0}

VARIABLES
    toModem,        \* requests on their way to the modem
    toHost,         \* frames on their way to the client, or in the kernel
    pend,           \* the frames of DiagClient._pend
    dead,           \* the transport is closed
    pc,             \* "ready", or "wait" inside _send_recv
    req,            \* the request of the last _send_recv
    late,           \* its timeout has passed
    answer          \* what the last _send_recv returned or raised

link == <<toModem, toHost, pend, dead, pc, req, late, answer>>

\* What a request or a frame is: its opcode; the sub-operation in its body;
\* and as a sequence what else of the body some operation looks at.
Frame(op, sub, body) == [op |-> op, sub |-> sub, body |-> body]

\* A request that names a sub-operation in `match` takes only its replies.
Request(op, sub, body, match) ==
    [op |-> op, sub |-> sub, body |-> body, match |-> match]

Junk    == Frame("junk", "", <<>>)        \* decapsulation refuses it
NoReply == Frame("none", "", <<>>)        \* _send_recv returned None
Eof     == Frame("eof", "", <<>>)         \* it raised EOFError

NoRequest == Request("none", "", <<>>, FALSE)

LinkInit(requests) ==
    /\ toModem \in requests
    /\ toHost = <<>> /\ pend = <<>>
    /\ dead = FALSE
    /\ pc = "ready"
    /\ req = NoRequest
    /\ late = FALSE
    /\ answer = NoReply

-----------------------------------------------------------------------------
(* _send_recv.                                                             *)

SendRecv(r) ==
    /\ toModem' = Append(toModem, r)
    /\ req' = r
    /\ late' = FALSE
    /\ pc' = "wait"
    /\ UNCHANGED <<toHost, pend, dead, answer>>

Answer(f) == pc' = "ready" /\ answer' = f

\* Mutant: the deadline is looked at only when there is nothing to read.
FillPastDeadline ==
    /\ pc = "wait" /\ pend = <<>> /\ toHost # <<>>
    /\ pend' = toHost
    /\ toHost' = <<>>
    /\ UNCHANGED <<toModem, dead, pc, req, late, answer>>

\* The buffer is filled only when it holds no frame, before the deadline, and
\* with all there is.
Fill ==
    /\ pc = "wait" /\ pend = <<>> /\ ~late /\ toHost # <<>>
    /\ pend' = toHost
    /\ toHost' = <<>>
    /\ UNCHANGED <<toModem, dead, pc, req, late, answer>>

\* The deadline is looked at there, and nowhere else.
GiveUp ==
    /\ pc = "wait" /\ pend = <<>> /\ late
    /\ Answer(NoReply)
    /\ UNCHANGED <<toModem, toHost, pend, dead, req, late>>

\* The empty read of a closed transport.
ReadEof ==
    /\ pc = "wait" /\ pend = <<>> /\ ~late /\ toHost = <<>> /\ dead
    /\ Answer(Eof)
    /\ UNCHANGED <<toModem, toHost, pend, dead, req, late>>

\* Mutant: the opcode alone makes a reply.
MatchesOpcode(f) == f.op = req.op

Matches(f) == f.op = req.op /\ (req.match => f.sub = req.sub)

\* One frame of the buffer: the reply, a rejection of this or of any earlier
\* request, or a frame to discard.
Dispatch ==
    /\ pc = "wait" /\ pend # <<>>
    /\ pend' = Tail(pend)
    /\ IF Matches(Head(pend)) \/ Head(pend).op = "BAD_CMD"
       THEN Answer(Head(pend))
       ELSE UNCHANGED <<pc, answer>>
    /\ UNCHANGED <<toModem, toHost, dead, req, late>>

ClientStep == Fill \/ GiveUp \/ ReadEof \/ Dispatch

-----------------------------------------------------------------------------
(* The surroundings.                                                       *)

TimeoutPasses ==
    /\ pc = "wait" /\ ~late
    /\ late' = TRUE
    /\ UNCHANGED <<toModem, toHost, pend, dead, pc, req, answer>>

Unsolicited ==
    /\ ~dead /\ Len(toHost) < WireCap
    /\ \E f \in Noise : toHost' = Append(toHost, f)
    /\ UNCHANGED <<toModem, pend, dead, pc, req, late, answer>>

Hangup ==
    /\ ~dead
    /\ dead' = TRUE
    /\ UNCHANGED <<toModem, toHost, pend, pc, req, late, answer>>

\* The modem takes the oldest request, and answers it or not.
ModemTakes(r) == ~dead /\ toModem # <<>> /\ r = Head(toModem)

ModemAnswers(frames) ==
    /\ toModem' = Tail(toModem)
    /\ toHost' = toHost \o frames
    /\ UNCHANGED <<pend, dead, pc, req, late, answer>>

\* DIAG_BAD_CMD_F echoes the request.
Rejection(r) == Frame("BAD_CMD", r.op, r.body)

=============================================================================
