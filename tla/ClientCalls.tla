----------------------------- MODULE ClientCalls ------------------------------
(***************************************************************************)
(* What a client does before and between captures, one call after another: *)
(* resync_frame_boundary, emit_version_anchor, the two OEM DRE requests    *)
(* and wait_for_log_codes.  A timeout of one is not fatal: the caller goes *)
(* on with the next.  (A transport that closes raises EOFError out of any, *)
(* and is left out.)                                                       *)
(***************************************************************************)
EXTENDS DiagLink

CONSTANTS
    MaxDrain,       \* max_frames of the resync
    MaxCalls        \* bound of the model: calls of a client

\* Unasked, the modem sends no replies.
ASSUME CallsAssumption ==
    /\ MaxDrain \in Nat \ {0} /\ MaxCalls \in Nat
    /\ \A f \in Noise : f.op \notin {"NV_WRITE", "SUBSYS_CMD", "VERNO", "BAD_CMD"}

VARIABLES
    resynced,       \* resync_frame_boundary() was called
    drained,        \* the frames it has discarded, until it returns
    rx,             \* what the modem keeps of an unfinished frame: "" or "stale"
    calls,          \* history: each call with what it made of its answer
    modem           \* history: what the modem did with the request of each

callsVars == <<link, resynced, drained, rx, calls, modem>>

\* The opcodes of enable_oemdre_nv, enable_oemdre_session, emit_version_anchor.
Ops == {"NV_WRITE", "SUBSYS_CMD", "VERNO"}

\* Stale bytes start with no opcode of these.
Delimiter == Request("", "", <<0>>, FALSE)

Call(op) == [op |-> op, verdict |-> "open", hint |-> "none"]

CallsInit ==
    /\ LinkInit({<<>>})
    /\ resynced = FALSE /\ drained = 0
    /\ rx \in {"", "stale"}
    /\ calls = <<>> /\ modem = <<>>

-----------------------------------------------------------------------------
(* resync_frame_boundary() and wait_for_log_codes(), which take what comes *)
(* until their time is over.                                               *)

Draining == pc \in {"resync", "logs"}

Resync ==
    /\ pc = "ready" /\ calls = <<>> /\ ~resynced
    /\ toModem' = Append(toModem, Delimiter)
    /\ pc' = "resync" /\ resynced' = TRUE /\ late' = FALSE
    /\ UNCHANGED <<toHost, pend, dead, req, answer, drained, rx, calls, modem>>

\* Mutant: the deadline is looked at when there is nothing more to take.
WhenQuiet == late /\ pend = <<>> /\ toHost = <<>>

TimeIsUp == late

DrainFill ==
    /\ Draining /\ pend = <<>> /\ toHost # <<>> /\ ~TimeIsUp
    /\ pend' = toHost /\ toHost' = <<>>
    /\ UNCHANGED <<toModem, dead, pc, req, late, answer, resynced, drained, rx, calls, modem>>

DrainFrame ==
    /\ Draining /\ pend # <<>> /\ ~TimeIsUp
    /\ IF pc = "resync" THEN drained < MaxDrain /\ drained' = drained + 1
                        ELSE UNCHANGED drained
    /\ pend' = Tail(pend)
    /\ UNCHANGED <<toModem, toHost, dead, pc, req, late, answer, resynced, rx, calls, modem>>

\* Its time is over, it has taken its number, or nothing came for a while; what
\* is left in the buffer goes.
ResyncEnds ==
    /\ pc = "resync"
    /\ TimeIsUp \/ drained = MaxDrain \/ (pend = <<>> /\ toHost = <<>>)
    /\ pc' = "ready" /\ pend' = <<>> /\ drained' = 0 /\ late' = FALSE
    /\ UNCHANGED <<toModem, toHost, dead, req, answer, resynced, rx, calls, modem>>

\* Nobody waits for an answer any more.
Judged == calls # <<>> => calls[Len(calls)].verdict # "open"

Start(call) == pc = "ready" /\ Len(calls) < MaxCalls /\ calls' = Append(calls, call)

WaitForLogCodes ==
    /\ Judged /\ Start([Call("wait") EXCEPT !.verdict = "ok"])
    /\ pc' = "logs" /\ late' = FALSE
    /\ modem' = Append(modem, "none")
    /\ UNCHANGED <<toModem, toHost, pend, dead, req, answer, resynced, drained, rx>>

\* Frames in the buffer stay there.
WaitEnds ==
    /\ pc = "logs" /\ TimeIsUp
    /\ pc' = "ready" /\ late' = FALSE
    /\ UNCHANGED <<toModem, toHost, pend, dead, req, answer,
                   resynced, drained, rx, calls, modem>>

-----------------------------------------------------------------------------
(* The requests.                                                           *)

Ask(op) ==
    /\ Judged /\ Start(Call(op))
    /\ SendRecv(Request(op, "", <<Len(calls')>>, FALSE))
    /\ modem' = Append(modem, "none")
    /\ UNCHANGED <<resynced, drained, rx>>

\* Mutant: whatever comes back is an ACK.
LightVerdict(op) == IF answer = NoReply THEN "timed out" ELSE "ok"

\* None is a timeout, DIAG_BAD_CMD_F a rejection, anything else the ACK; but a
\* rejection too makes an anchor.
Verdict(op) ==
    CASE answer = NoReply -> "timed out"
      [] answer.op = "BAD_CMD" /\ op # "VERNO" -> "rejected"
      [] OTHER -> "ok"

\* Mutant: the echo is compared with nothing.
HintUnread(op) == IF answer.op = "BAD_CMD" THEN "gated" ELSE "none"

\* A rejection whose echo is empty.
EmptyEcho == Frame("BAD_CMD", "", <<>>)

\* bad_cmd_hint(): there is no echo, or it starts with the opcode that was sent,
\* or with another.
Hint(op) ==
    IF answer.op # "BAD_CMD" THEN "none"
    ELSE IF answer = EmptyEcho THEN "no echo; gated"
    ELSE IF answer.sub = op THEN "gated" ELSE "stale"

\* The call returns, and what it had in hand is gone.
Judge ==
    /\ pc = "ready" /\ ~Judged
    /\ calls' = [calls EXCEPT ![Len(calls)].verdict = Verdict(req.op),
                              ![Len(calls)].hint = Hint(req.op)]
    /\ answer' = NoReply /\ late' = FALSE
    /\ UNCHANGED <<toModem, toHost, pend, dead, pc, req, resynced, drained, rx, modem>>

CallStep ==
    \/ DrainFill \/ DrainFrame \/ ResyncEnds \/ WaitEnds \/ Judge
    \/ ClientStep /\ UNCHANGED <<resynced, drained, rx, calls, modem>>

-----------------------------------------------------------------------------
(* The modem.                                                              *)

\* A delimiter ends the unfinished frame; a request that comes first is glued
\* to it.  The modem rejects the result, with or without an echo of it, or says
\* nothing.
ModemEndsStale ==
    /\ rx = "stale" /\ ModemTakes(Head(toModem))
    /\ \E said \in {<<>>, <<Frame("BAD_CMD", "stale", <<0>>)>>, <<EmptyEcho>>} :
          ModemAnswers(said)
    /\ rx' = ""
    /\ modem' = IF Head(toModem) = Delimiter THEN modem
                ELSE [modem EXCEPT ![Head(toModem).body[1]] = "glued"]
    /\ UNCHANGED <<resynced, drained, calls>>

ModemSkipsDelimiter ==
    /\ rx = "" /\ ModemTakes(Delimiter)
    /\ ModemAnswers(<<>>)
    /\ UNCHANGED <<resynced, drained, rx, calls, modem>>

ModemDecides ==
    /\ rx = "" /\ toModem # <<>> /\ Head(toModem) # Delimiter
    /\ ModemTakes(Head(toModem))
    /\ LET r == Head(toModem)
       IN  \/ /\ ModemAnswers(<<Frame(r.op, "", r.body)>>)
              /\ modem' = [modem EXCEPT ![r.body[1]] = "ok"]
           \/ /\ \E no \in {Rejection(r), EmptyEcho} : ModemAnswers(<<no>>)
              /\ modem' = [modem EXCEPT ![r.body[1]] = "rejected"]
    /\ UNCHANGED <<resynced, drained, rx, calls>>

\* Frames nobody asked for.
Stream == Unsolicited /\ UNCHANGED <<resynced, drained, rx, calls, modem>>

ClockTicks ==
    /\ pc # "ready" /\ ~late
    /\ late' = TRUE
    /\ UNCHANGED <<toModem, toHost, pend, dead, pc, req, answer,
                   resynced, drained, rx, calls, modem>>

CallsNext ==
    \/ Resync \/ WaitForLogCodes \/ (\E op \in Ops : Ask(op))
    \/ CallStep \/ ClockTicks
    \/ ModemEndsStale \/ ModemSkipsDelimiter \/ ModemDecides \/ Stream

\* The caller runs and its clock advances; what the modem does, nothing says.
CallsFairness == WF_callsVars(CallStep) /\ WF_callsVars(ClockTicks)

-----------------------------------------------------------------------------
(* Properties.                                                             *)

OpOf(k) == calls[k].op

\* "Returns True if the modem ACKed": a True is the ACK of a request of this
\* kind that was made, whatever order late replies come in, and whatever the
\* modem had in its buffer before.
AckIsOwn ==
    \A k \in DOMAIN calls :
        OpOf(k) \in {"NV_WRITE", "SUBSYS_CMD"} /\ calls[k].verdict = "ok"
            => \E j \in 1 .. k : OpOf(j) = OpOf(k) /\ modem[j] = "ok"

\* By call k the modem has rejected a request that came to it whole and was of
\* kind op, or of another kind; or it has parsed stale bytes, with a request of
\* the client glued to them or with the lone delimiter.
RejectedOwn(k, op)   == \E j \in 1 .. k : OpOf(j) = op /\ modem[j] = "rejected"
RejectedOther(k, op) == \E j \in 1 .. k - 1 : OpOf(j) # op /\ modem[j] = "rejected"
ParsedStale(k)       == (\E j \in 1 .. k : modem[j] = "glued") \/ (resynced /\ rx = "")

\* The reason that is logged with a rejection that echoes its request is the
\* right one, although the rejection may be of an earlier request and the answer
\* to the lone delimiter may come after the drain has ended: "gated" only when
\* the modem has rejected this kind of request; "the modem parsed a different
\* frame" only when it has.  An empty echo is always put down to the command at
\* hand, and stands for any of them.  After a resync no request is glued to
\* stale bytes.
HintNamesCause ==
    /\ resynced => \A k \in DOMAIN modem : modem[k] # "glued"
    /\ \A k \in DOMAIN calls :
          /\ calls[k].hint = "gated" => RejectedOwn(k, OpOf(k))
          /\ calls[k].hint = "stale" => RejectedOther(k, OpOf(k)) \/ ParsedStale(k)
          /\ calls[k].hint = "no echo; gated" =>
                RejectedOwn(k, OpOf(k)) \/ RejectedOther(k, OpOf(k)) \/ ParsedStale(k)

\* "Bounded so a modem already streaming (sticky masks) cannot hold us", and
\* "wait up to `timeout` seconds".
DrainsEnd == Draining ~> (pc = "ready")

=============================================================================
