------------------------------ MODULE MaskState ------------------------------
(***************************************************************************)
(* save_and_zero() and restore() of maskstate.py, with the reading, the    *)
(* writing back and the verification of f3mask.py, over the link.          *)
(*                                                                         *)
(* Both masks are sticky in the modem.  The F3 mask is one level per range *)
(* of subsystem ids, the ranges QUERY_SSID_RANGES lists and one it does    *)
(* not; SET_ALL writes them all.  A level stands for the table of a range, *)
(* 0 for the one with every entry zero.                                    *)
(***************************************************************************)
EXTENDS DiagLink

CONSTANTS
    Listed,         \* how many ranges the modem lists: they are 1 .. Listed
    Levels,         \* the levels of a range, and of the event mask
    Stored,         \* what SET_ALL stores for a level: a transform of it
    MaxFaults       \* bound of the model: refusals and timeouts in a run

ASSUME MaskAssumption ==
    /\ Listed \in Nat \ {0}
    /\ 0 \in Levels /\ Levels \subseteq Nat
    /\ Stored \in [Levels -> Levels] /\ Stored[0] = 0
    /\ MaxFaults \in Nat

VARIABLES
    at,             \* where save_and_zero(), the run and restore() are
    i,              \* the range being read or written
    listing,        \* QUERY_SSID_RANGES was answered
    saved,          \* the snapshot: range -> level, or Unread
    zeroed,         \* f3_zeroed
    evSaved,        \* the event mask read, or Unread
    evZeroed,       \* events_zeroed
    same,           \* the readback agreed so far
    f3Ok, evOk,     \* what restore() returns
    f3, events,     \* the modem's masks
    before,         \* history: the masks at the start
    faults          \* history: refusals and timeouts so far

seen    == <<listing, saved, evSaved>>
flags   == <<zeroed, evZeroed>>
verdict == <<same, f3Ok, evOk>>
program == <<at, i, seen, flags, verdict>>
modem   == <<f3, events, before>>
maskVars == <<link, program, modem, faults>>

Ranges == 1 .. Listed
Hidden == 0
Unread == -1

Query         == Request("EXT_MSG", "QUERY", <<>>, FALSE)
Get(r)        == Request("EXT_MSG", "GET", <<r>>, FALSE)
SetAll(l)     == Request("EXT_MSG", "SET_ALL", <<l>>, FALSE)
SetRange(r, l) == Request("EXT_MSG", "SET", <<r, l>>, FALSE)
EventGet      == Request("EVENT_GET", "", <<>>, FALSE)
EventSet(l)   == Request("EVENT_SET", "", <<l>>, FALSE)

MaskInit ==
    /\ LinkInit({<<>>})
    /\ at = "start" /\ i = 1
    /\ listing = FALSE
    /\ saved = [r \in Ranges |-> Unread]
    /\ zeroed = FALSE
    /\ evSaved = Unread /\ evZeroed = FALSE
    /\ same = TRUE
    /\ f3Ok = TRUE /\ evOk = TRUE
    /\ f3 \in [Ranges \cup {Hidden} -> Levels]
    /\ events \in Levels
    /\ before = [f3 |-> f3, events |-> events]
    /\ faults = 0

-----------------------------------------------------------------------------

\* The next request of the program; `keep` is what of it stays as it is.
Ask(r, where, keep) == SendRecv(r) /\ at' = where /\ UNCHANGED <<keep, modem, faults>>

Goto(where, keep) == at' = where /\ UNCHANGED <<link, keep, modem, faults>>

Returned(where) == at = where /\ pc = "ready"

\* None or DIAG_BAD_CMD_F.
Refused == answer.op \in {"none", "BAD_CMD"}

\* read_ext_msg_rt_mask(): a mask table, or None.  The range a table names is
\* not compared with the range asked for.
LevelRead ==
    IF answer.op = "EXT_MSG" /\ answer.sub = "GET" THEN answer.body[2] ELSE Unread

\* read_event_mask() once an answer other than a first timeout is there.
EventsRead == IF answer.op = "EVENT_GET" THEN answer.body[1] ELSE Unread

\* Without a listing range 1 alone is read.
LastRead == IF listing THEN Listed ELSE 1

Complete == listing /\ \A r \in Ranges : saved[r] # Unread

-----------------------------------------------------------------------------
(* save_and_zero().                                                        *)

Start ==
    /\ at = "start"
    /\ Ask(Query, "query", <<i, seen, flags, verdict>>)

AfterQuery ==
    /\ Returned("query")
    /\ listing' = (answer.op = "EXT_MSG")
    /\ Ask(Get(1), "get", <<i, saved, evSaved, flags, verdict>>)

AfterGet ==
    /\ Returned("get")
    /\ saved' = [saved EXCEPT ![i] = LevelRead]
    /\ IF i < LastRead
       THEN /\ i' = i + 1
            /\ Ask(Get(i + 1), "get", <<listing, evSaved, flags, verdict>>)
       ELSE /\ i' = 1
            /\ Goto("saved", <<listing, evSaved, flags, verdict>>)

\* Mutant: what was read decides, whether it is all or not.
WorthZeroingRead == \E r \in Ranges : saved[r] \notin {0, Unread}

\* Zeroed only if all of it was read, and something is armed.
WorthZeroing == Complete /\ \E r \in Ranges : saved[r] # 0

Zero ==
    /\ at = "saved"
    /\ IF WorthZeroing
       THEN Ask(SetAll(0), "zero", <<i, seen, flags, verdict>>)
       ELSE Ask(EventGet, "events", <<i, seen, flags, verdict>>)

AfterZero ==
    /\ Returned("zero")
    /\ zeroed' = ~Refused
    /\ Ask(EventGet, "events", <<i, seen, evZeroed, verdict>>)

\* The four-byte request first, and the bare opcode if that times out.
RetryEvents(first, second) ==
    /\ Returned(first) /\ answer = NoReply
    /\ Ask(EventGet, second, <<i, seen, flags, verdict>>)

EventsAnswered(first, second) == Returned(second) \/ (Returned(first) /\ answer # NoReply)

ZeroEvents ==
    /\ EventsAnswered("events", "events again")
    /\ evSaved' = EventsRead
    /\ IF EventsRead \notin {0, Unread}
       THEN Ask(EventSet(0), "zero events", <<i, listing, saved, flags, verdict>>)
       ELSE Goto("run", <<i, listing, saved, flags, verdict>>)

AfterZeroEvents ==
    /\ Returned("zero events")
    /\ evZeroed' = (answer.op = "EVENT_SET")
    /\ Goto("run", <<i, seen, zeroed, verdict>>)

-----------------------------------------------------------------------------
(* restore().                                                              *)

\* Mutant: SET_ALL is taken to store what it is given.
OneLevelDoes == Complete /\ \A r \in Ranges : saved[r] = saved[1]

\* _snapshot_set_all_value(): one level everywhere, that SET_ALL stores as it is.
OneSetAllDoes ==
    /\ Complete
    /\ \A r \in Ranges : saved[r] = saved[1]
    /\ Stored[saved[1]] = saved[1]

Restore ==
    /\ at = "run"
    /\ IF ~zeroed
       THEN Goto("f3 done", <<i, seen, flags, verdict>>)
       ELSE IF OneSetAllDoes
       THEN Ask(SetAll(saved[1]), "put all", <<i, seen, flags, verdict>>)
       ELSE Ask(SetRange(1, saved[1]), "put", <<i, seen, flags, verdict>>)

\* A refused write ends the F3 half at once; after the last one it is verified.
AfterPut ==
    /\ Returned("put") \/ Returned("put all")
    /\ IF Refused
       THEN /\ f3Ok' = FALSE /\ i' = 1
            /\ Goto("f3 done", <<seen, flags, same, evOk>>)
       ELSE IF at = "put" /\ i < Listed
       THEN /\ i' = i + 1
            /\ Ask(SetRange(i + 1, saved[i + 1]), "put",
                   <<seen, flags, verdict>>)
       ELSE /\ i' = 1
            /\ Ask(Get(1), "check", <<seen, flags, verdict>>)

\* Mutant: an answered readback is enough.
AgreesIfAnswered == same /\ LevelRead # Unread

\* Verified by a readback of every range that equals what was saved.
Agrees == same /\ LevelRead = saved[i]

AfterCheck ==
    /\ Returned("check")
    /\ same' = Agrees
    /\ IF i < Listed
       THEN /\ i' = i + 1
            /\ Ask(Get(i + 1), "check", <<seen, flags, f3Ok, evOk>>)
       ELSE /\ i' = 1 /\ f3Ok' = Agrees
            /\ Goto("f3 done", <<seen, flags, evOk>>)

RestoreEvents ==
    /\ at = "f3 done"
    /\ IF evZeroed
       THEN Ask(EventSet(evSaved), "put events", <<i, seen, flags, verdict>>)
       ELSE Goto("done", <<i, seen, flags, verdict>>)

AfterPutEvents ==
    /\ Returned("put events")
    /\ IF answer.op = "EVENT_SET"
       THEN Ask(EventGet, "check events", <<i, seen, flags, verdict>>)
       ELSE /\ evOk' = FALSE
            /\ Goto("done", <<i, seen, flags, same, f3Ok>>)

AfterCheckEvents ==
    /\ EventsAnswered("check events", "check events again")
    /\ evOk' = (EventsRead = evSaved)
    /\ Goto("done", <<i, seen, flags, same, f3Ok>>)

ProgramStep ==
    \/ Start \/ AfterQuery \/ AfterGet \/ Zero \/ AfterZero
    \/ RetryEvents("events", "events again") \/ ZeroEvents \/ AfterZeroEvents
    \/ Restore \/ AfterPut \/ AfterCheck
    \/ RestoreEvents \/ AfterPutEvents
    \/ RetryEvents("check events", "check events again") \/ AfterCheckEvents

-----------------------------------------------------------------------------
(* The modem, as the tests' FakeModem and the notes of f3mask.py and       *)
(* diag_cmd.py have it.                                                    *)

Reply(r) ==
    CASE r.op = "EXT_MSG" /\ r.sub = "GET" -> Frame(r.op, r.sub, <<r.body[1], f3[r.body[1]]>>)
      [] r.op = "EVENT_GET" -> Frame(r.op, r.sub, <<events>>)
      [] OTHER -> Frame(r.op, r.sub, r.body)

Apply(r) ==
    /\ f3' = CASE r.op = "EXT_MSG" /\ r.sub = "SET_ALL" -> [x \in DOMAIN f3 |-> Stored[r.body[1]]]
               [] r.op = "EXT_MSG" /\ r.sub = "SET" -> [f3 EXCEPT ![r.body[1]] = r.body[2]]
               [] OTHER -> f3
    /\ events' = IF r.op = "EVENT_SET" THEN r.body[1] ELSE events
    /\ UNCHANGED before

ModemObeys ==
    /\ ~dead /\ toModem # <<>>
    /\ ModemAnswers(<<Reply(Head(toModem))>>)
    /\ Apply(Head(toModem))
    /\ UNCHANGED <<program, faults>>

Writes(r) == r.op = "EVENT_SET" \/ r.sub \in {"SET", "SET_ALL"}

\* It rejects the request, says nothing, or acknowledges a write it ignores.
ModemRefuses ==
    /\ ~dead /\ toModem # <<>> /\ faults < MaxFaults
    /\ LET r == Head(toModem)
       IN  \/ ModemAnswers(<<Rejection(r)>>)
           \/ ModemAnswers(<<>>)
           \/ Writes(r) /\ ModemAnswers(<<Reply(r)>>)
    /\ faults' = faults + 1
    /\ UNCHANGED <<program, modem>>

\* The timeout is no fault of its own where there is nothing to wait for.
LateAnswer ==
    /\ TimeoutPasses
    /\ IF toModem \o toHost \o pend = <<>>
       THEN UNCHANGED faults
       ELSE faults < MaxFaults /\ faults' = faults + 1
    /\ UNCHANGED <<program, modem>>

LinkEnds == Hangup /\ UNCHANGED <<program, modem, faults>>

-----------------------------------------------------------------------------
(* The client on its link.  A send() that raises is a request sent in vain *)
(* here, and the next read raises.                                         *)

Saving == at \in {"query", "get", "zero", "events", "events again", "zero events"}

\* What an exception leaves undone: the reading of the masks, the zeroing of
\* the F3 mask and what follows it, that of the event mask, or restore().
Undoing ==
    CASE at \in {"query", "get"} -> "read lost"
      [] at \in {"zero", "events", "events again"} -> "zero lost"
      [] at = "zero events" -> "event zero lost"
      [] OTHER -> "restore lost"

\* EOFError, or an OSError that is not retried: nothing catches it.  What
\* save_and_zero() has read goes with it; restore()'s caller keeps its own.
ReadRaises ==
    /\ pc = "wait" /\ dead /\ pend = <<>> /\ ~late
    /\ Answer(Eof)
    /\ at' = Undoing
    /\ IF Saving
       THEN /\ listing' = FALSE /\ saved' = [r \in Ranges |-> Unread] /\ evSaved' = Unread
            /\ zeroed' = FALSE /\ evZeroed' = FALSE
       ELSE UNCHANGED <<seen, flags>>
    /\ UNCHANGED <<toModem, toHost, pend, dead, req, late, i, verdict, modem, faults>>

Receives == (Fill \/ GiveUp \/ Dispatch) /\ UNCHANGED <<program, modem, faults>>

Lost == {"read lost", "zero lost", "event zero lost", "restore lost"}

Done == at \in Lost \cup {"done"} /\ UNCHANGED maskVars

MaskNext ==
    \/ ProgramStep
    \/ Receives \/ ReadRaises
    \/ ModemObeys \/ ModemRefuses \/ LateAnswer \/ LinkEnds
    \/ Done

MaskSpec == MaskInit /\ [][MaskNext]_maskVars

-----------------------------------------------------------------------------
(* Properties.                                                             *)

MaskTypeOK ==
    /\ i \in Ranges
    /\ saved \in [Ranges -> Levels \cup {Unread}]
    /\ evSaved \in Levels \cup {Unread}
    /\ f3 \in [Ranges \cup {Hidden} -> Levels]
    /\ events \in Levels
    /\ Complete \/ ~zeroed

ListedBefore == \A r \in Ranges : f3[r] = before.f3[r]
EventsBefore == events = before.events

\* "A restore is reported as verified only when a readback matches": and then
\* the masks are what they were, late replies and refusals notwithstanding.
VerifiedIsRestored ==
    /\ MaskTypeOK
    /\ at = "done" => /\ zeroed /\ f3Ok => ListedBefore
                      /\ evZeroed /\ evOk => EventsBefore

\* "A mask that could not be read is never zeroed": while a mask differs from
\* what was found, the client holds a true copy of what was found.  Unless the
\* link ended on save_and_zero() between the write that zeroed that mask and its
\* return: the copy is lost then; ended anywhere else, it is not.
ChangedIsSaved ==
    /\ \/ ListedBefore \/ \A r \in Ranges : saved[r] = before.f3[r]
       \/ at \in {"zero lost", "event zero lost"}
    /\ EventsBefore \/ evSaved = before.events \/ at = "event zero lost"

\* With a modem that obeys in time both masks come back, verified.
HealthyRunRestores ==
    at = "done" /\ faults = 0 => f3Ok /\ evOk /\ ListedBefore /\ EventsBefore

\* "masks is None for a range whose sub_cmd 3 read failed", and otherwise that
\* range's own.
SnapshotIsTrue == \A r \in Ranges : saved[r] \in {Unread, before.f3[r]}

=============================================================================
