--------------------------- MODULE CaptureSession ----------------------------
(***************************************************************************)
(* One run of capture_dlf_from_diag: SPC unlock, subscribe_logs([]),       *)
(* subscribe_logs(codes), the capture loop, subscribe_logs([]).            *)
(*                                                                         *)
(* The modem's log masks are sticky: they outlive a DIAG session, so at    *)
(* the start they are whatever an earlier program left, and a request of   *)
(* that program may still wait in the modem.                               *)
(***************************************************************************)
EXTENDS DiagLink

CONSTANTS
    Groups,         \* the log groups the modem reports a bit size for
    Wanted,         \* those with a code to capture
    SpcTries,       \* how many SPCs to try: len(spcs), 0 without --spc
    Leftover,       \* requests of an earlier program that may be waiting
    Spontaneous     \* whether the transport may close by itself

ASSUME SessionAssumption ==
    /\ Groups \subseteq Nat /\ IsFiniteSet(Groups) /\ Wanted \subseteq Groups
    /\ SpcTries \in Nat
    /\ Spontaneous \in BOOLEAN

VARIABLES
    at,             \* where main() is
    phase,          \* which subscribe_logs: "clear", "arm", "final"
    group,          \* the group of the last SET_MASK
    tries,          \* SPCs tried
    over,           \* the capture's deadline has passed
    inRecv,         \* the capture loop is inside recv()
    written,        \* some record was written
    why,            \* what main() raised
    mask            \* the modem's mask of each group

main == <<at, phase, group, tries, over, inRecv, written, why>>
sessionVars == <<link, main, mask>>

Masks == {"old", "empty", "codes"}

Spc        == Request("SPC", "", <<>>, FALSE)
Ranges     == Request("LOG_CONFIG", "RETRIEVE_RANGES", <<>>, TRUE)
SetMask(g, m) == Request("LOG_CONFIG", "SET_MASK", <<g, m>>, TRUE)

\* A log record with a wanted code, one with another code, another frame.
Record  == Frame("LOG", "wanted", <<>>)
Foreign == Frame("LOG", "other", <<>>)
Status  == Frame("STATUS", "", <<>>)

\* Unasked, the modem sends no replies; and what an earlier program may have
\* left waiting is a request of these kinds.
ASSUME SurroundingsAssumption ==
    /\ Noise \subseteq {Record, Foreign, Status, Junk}
    /\ Leftover \subseteq {Spc, Ranges} \cup {SetMask(g, m) : g \in Groups, m \in Masks}

SessionInit ==
    /\ LinkInit({<<>>} \cup {<<r>> : r \in Leftover})
    /\ at = "spc" /\ phase = "clear" /\ group = 0 /\ tries = 0
    /\ over = FALSE /\ inRecv = FALSE /\ written = FALSE
    /\ why = "nothing"
    /\ mask = [g \in Groups |-> "old"]

-----------------------------------------------------------------------------
(* main() up to the capture.                                               *)

Raise(reason) ==
    /\ at' = "raised" /\ why' = reason
    /\ UNCHANGED <<link, phase, group, tries, over, inRecv, written>>

\* subscribe_logs starts with RETRIEVE_RANGES.
Subscribe(ph) ==
    /\ SendRecv(Ranges)
    /\ at' = "ranges" /\ phase' = ph
    /\ UNCHANGED <<group, tries, over, inRecv, written, why>>

\* any(unlock_spc(s) for s in spcs): True only for an SPC reply with status 1.
\* Refused, rejected and unanswered are all False, and main() goes on.
Unlocked == tries > 0 /\ answer.op = "SPC" /\ answer.body = <<"accepted">>

TrySpc ==
    /\ at = "spc" /\ pc = "ready" /\ (tries > 0 => answer # Eof)
    /\ ~Unlocked /\ tries < SpcTries
    /\ SendRecv(Spc)
    /\ tries' = tries + 1
    /\ UNCHANGED <<at, phase, group, over, inRecv, written, why, mask>>

AfterSpc ==
    /\ at = "spc" /\ pc = "ready" /\ (tries > 0 => answer # Eof)
    /\ Unlocked \/ tries = SpcTries
    /\ Subscribe("clear")
    /\ UNCHANGED mask

\* Mutant: the status is not looked at.
FaultIgnoresStatus(expected) ==
    CASE answer = Eof -> "EOFError"
      [] answer = NoReply -> "Timed out"
      [] answer.op = "BAD_CMD" -> "Rejected"
      [] answer.op = "LOG_CONFIG" /\ answer.sub # expected -> "Unexpected op"
      [] OTHER -> "nothing"

\* The checks subscribe_logs makes of a reply, in order.  A rejection is
\* unpacked like a reply: its echo is too short or names another operation.
Fault(expected) ==
    CASE answer = Eof -> "EOFError"
      [] answer = NoReply -> "Timed out"
      [] answer.op = "BAD_CMD" -> "Rejected"
      [] answer.op = "LOG_CONFIG" /\ answer.sub # expected -> "Unexpected op"
      [] answer.op = "LOG_CONFIG" /\ answer.sub = expected /\ answer.body = <<"failed">> -> "failed"
      [] OTHER -> "nothing"

\* What subscribe_logs wants of group g: a mask for every group, wanted or not.
MaskFor(ph, g) == IF ph = "arm" /\ g \in Wanted THEN "codes" ELSE "empty"

SetGroup(g) ==
    /\ SendRecv(SetMask(g, MaskFor(phase, g)))
    /\ at' = "set" /\ group' = g
    /\ UNCHANGED <<phase, tries, over, inRecv, written, why>>

Least(S) == CHOOSE g \in S : \A h \in S : g <= h

Remaining == {g \in Groups : at = "set" => g > group}

\* After the last group: the next thing main() does.
Subscribed ==
    CASE phase = "clear" -> Subscribe("arm")
      [] phase = "arm" ->
            /\ at' = "capture"
            /\ UNCHANGED <<link, phase, group, tries, over, inRecv, written, why>>
      [] phase = "final" ->
            /\ at' = "exit"
            /\ UNCHANGED <<link, phase, group, tries, over, inRecv, written, why>>

NextGroup ==
    /\ at \in {"ranges", "set"} /\ pc = "ready"
    /\ LET fault == Fault(IF at = "ranges" THEN "RETRIEVE_RANGES" ELSE "SET_MASK")
       IN  IF fault # "nothing" THEN Raise(fault)
           ELSE IF Remaining # {} THEN SetGroup(Least(Remaining))
           ELSE Subscribed
    /\ UNCHANGED mask

SpcEof ==
    /\ at = "spc" /\ pc = "ready" /\ tries > 0 /\ answer = Eof
    /\ Raise("EOFError")
    /\ UNCHANGED mask

-----------------------------------------------------------------------------
(* The capture loop.                                                       *)

CaptureOver ==
    /\ at = "capture" /\ ~over
    /\ over' = TRUE
    /\ UNCHANGED <<link, at, phase, group, tries, inRecv, written, why, mask>>

\* The deadline is looked at between two frames only.
LoopEnds ==
    /\ at = "capture" /\ ~inRecv /\ over
    /\ Subscribe("final")
    /\ UNCHANGED mask

\* select() watches the descriptor, not _pend.
LoopSelects ==
    /\ at = "capture" /\ ~inRecv /\ ~over
    /\ toHost # <<>> \/ dead
    /\ inRecv' = TRUE
    /\ UNCHANGED <<link, at, phase, group, tries, over, written, why, mask>>

RecvFills ==
    /\ at = "capture" /\ inRecv /\ pend = <<>> /\ toHost # <<>>
    /\ pend' = toHost /\ toHost' = <<>>
    /\ UNCHANGED <<toModem, dead, pc, req, late, answer, main, mask>>

\* recv() skips a malformed frame and goes on; any other it returns, and the
\* loop writes it if it is a record with a wanted code.
RecvFrame ==
    /\ at = "capture" /\ inRecv /\ pend # <<>>
    /\ pend' = Tail(pend)
    /\ inRecv' = (Head(pend) = Junk)
    /\ written' = (written \/ Head(pend) = Record)
    /\ UNCHANGED <<toModem, toHost, dead, pc, req, late, answer,
                   at, phase, group, tries, over, why, mask>>

\* The EOFError ends the loop, and main() still clears the masks.
RecvEof ==
    /\ at = "capture" /\ inRecv /\ pend = <<>> /\ toHost = <<>> /\ dead
    /\ SendRecv(Ranges)
    /\ at' = "ranges" /\ phase' = "final" /\ inRecv' = FALSE
    /\ UNCHANGED <<group, tries, over, written, why, mask>>

MainStep ==
    \/ TrySpc \/ AfterSpc \/ SpcEof \/ NextGroup
    \/ LoopEnds \/ LoopSelects \/ RecvFills \/ RecvFrame \/ RecvEof

-----------------------------------------------------------------------------
(* The modem.                                                              *)

ModemUnlocks ==
    \E r \in {Spc} :
        /\ ModemTakes(r)
        /\ \E frames \in {<<Frame("SPC", "", <<"accepted">>)>>, <<Frame("SPC", "", <<"refused">>)>>,
                          <<Rejection(r)>>, <<>>} : ModemAnswers(frames)
        /\ UNCHANGED <<main, mask>>

\* LOG_CONFIG succeeds, fails with a status, or is rejected.
ModemReports ==
    \E r \in {Ranges} :
        /\ ModemTakes(r)
        /\ \E f \in {Frame(r.op, r.sub, <<"success">>), Frame(r.op, r.sub, <<"failed">>), Rejection(r)} :
              ModemAnswers(<<f>>)
        /\ UNCHANGED <<main, mask>>

ModemSetsMask ==
    \E g \in Groups, m \in Masks :
        /\ ModemTakes(SetMask(g, m))
        /\ \/ /\ ModemAnswers(<<Frame("LOG_CONFIG", "SET_MASK", <<"success">>)>>)
              /\ mask' = [mask EXCEPT ![g] = m]
           \/ /\ ModemAnswers(<<Frame("LOG_CONFIG", "SET_MASK", <<"failed">>)>>)
              /\ UNCHANGED mask
           \/ /\ ModemAnswers(<<Rejection(SetMask(g, m))>>)
              /\ UNCHANGED mask
        /\ UNCHANGED main

ModemStep == ModemUnlocks \/ ModemReports \/ ModemSetsMask

-----------------------------------------------------------------------------

Finished == at \in {"exit", "raised"} /\ UNCHANGED sessionVars

SessionNext ==
    \/ MainStep
    \/ CaptureOver
    \/ (ClientStep \/ TimeoutPasses \/ Unsolicited) /\ UNCHANGED <<main, mask>>
    \/ Spontaneous /\ Hangup /\ UNCHANGED <<main, mask>>
    \/ ModemStep
    \/ Finished

\* The thread runs and time passes.  The modem owes nothing.
SessionFairness ==
    /\ WF_sessionVars(MainStep)
    /\ WF_sessionVars(ClientStep /\ UNCHANGED <<main, mask>>)
    /\ WF_sessionVars(TimeoutPasses /\ UNCHANGED <<main, mask>>)
    /\ WF_sessionVars(CaptureOver)

SessionSpec == SessionInit /\ [][SessionNext]_sessionVars /\ SessionFairness

-----------------------------------------------------------------------------
(* Properties.                                                             *)

SessionTypeOK ==
    /\ at \in {"spc", "ranges", "set", "capture", "exit", "raised"}
    /\ pc \in {"ready", "wait"}
    /\ phase \in {"clear", "arm", "final"}
    /\ group \in Groups \cup {0}
    /\ tries \in 0 .. SpcTries
    /\ mask \in [Groups -> Masks]
    /\ at = "capture" => pc = "ready"
    /\ inRecv => at = "capture"

\* "Subscribes to a set of log codes": when the capture starts the modem holds
\* the mask asked for in every group, whatever was left in the link, and none
\* of the earlier masks.  "A late RETRIEVE_RANGES reply would otherwise alias
\* onto the next SET_MASK request": subscribe_logs never meets the reply of
\* another sub-operation.
ArmedWhenCapturing ==
    /\ SessionTypeOK
    /\ at = "capture" => \A g \in Groups : mask[g] = MaskFor("arm", g)
    /\ why # "Unexpected op"

\* A normal exit leaves no group armed, though masks outlive the session.
ClearedAtExit ==
    at = "exit" => \A g \in Groups : mask[g] = "empty"

\* "_send_recv terminates under flood": however many frames the modem pushes,
\* every request comes back.
SendRecvTerminates == (pc = "wait") ~> (pc = "ready")

\* "writes every received log frame": none with a wanted code is left in the
\* client's buffer when the capture ends.
NoRecordLeftBehind ==
    [][at = "capture" /\ at' # "capture" =>
        \A i \in 1 .. Len(pend) : pend[i] # Record]_sessionVars

=============================================================================
