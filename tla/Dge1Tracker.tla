----------------------------- MODULE Dge1Tracker -----------------------------
(***************************************************************************)
(* Dge1SeqTracker of transport.py: the sequence accounting and the bounded *)
(* reorder buffer of the DGE1 datagram stream.                             *)
(*                                                                         *)
(* A handler call (feed, flush, note_malformed) is one action: the code    *)
(* runs it on one thread with nothing in between.  The loops of the code   *)
(* are written in closed form: which buffered sequence numbers a call      *)
(* passes, and how many places the base moves.                             *)
(*                                                                         *)
(* The environment is open: any datagram may arrive at any time, which is  *)
(* what a socket bound to 0.0.0.0 can see.  Dge1Stream closes it with one  *)
(* sender and a network.                                                   *)
(***************************************************************************)
EXTENDS Integers, Sequences, FiniteSets, Functions

CONSTANTS
    Payload,        \* the datagram payloads, opaque here
    SeqMod,         \* 2^32 in the code: sequence numbers are counted modulo it
    GapFloor,       \* _INTERLEAVE_GAP_FLOOR, 2^24
    SeenWindow,     \* _SEEN_WINDOW, 8192
    Windows,        \* the reorder windows a tracker may be made with
    MaxFed,         \* bound of the model: datagrams fed in one behaviour
    MaxBad          \* bound of the model: malformed datagrams in one behaviour

Half == SeqMod \div 2

ASSUME SizesAssumption ==
    /\ SeqMod \in Nat /\ SeqMod >= 4 /\ Half + Half = SeqMod
    /\ GapFloor \in Nat /\ 1 <= GapFloor /\ GapFloor < Half
    /\ SeenWindow \in Nat /\ SeenWindow >= 1
    /\ Windows \subseteq 0 .. SeqMod - 1
    /\ MaxFed \in Nat /\ MaxBad \in Nat

SeqNo == 0 .. SeqMod - 1

None == -1          \* `_expected is None`: no datagram seen yet

\* Mutant: the base is not reduced modulo 2^32.
PlusUnwrapped(s, n) == s + n

\* Arithmetic modulo SeqMod, on arguments already in range.
Plus(s, n)  == IF s + n < SeqMod THEN s + n ELSE s + n - SeqMod
Ahead(s, e) == IF s >= e THEN s - e ELSE s - e + SeqMod

VARIABLES
    window,         \* _window: 0 is track(), above 0 the reorder buffer
    expected,       \* the next sequence number wanted, or None
    stats,          \* the counters gap_report() returns
    seen,           \* _seen: the recent sequence numbers, oldest first
    seenSet,        \* _seen_set: the same as a set, for membership
    pending,        \* the reorder buffer: sequence number -> payload
    out,            \* what the last call returned, in delivery order
    fed,            \* history: datagrams fed so far
    discarded       \* history: buffered datagrams dropped by a new baseline

vars == <<window, expected, stats, seen, seenSet, pending, out, fed, discarded>>

Counters == {"received", "missing", "dups", "reordered", "true_dups",
             "restarts", "bad", "max_gap", "stream_switches"}

Empty == [s \in {} |-> s]

Init ==
    /\ window \in Windows
    /\ expected = None
    /\ stats = [c \in Counters |-> 0]
    /\ seen = <<>>
    /\ seenSet = {}
    /\ pending = Empty
    /\ out = <<>>
    /\ fed = 0
    /\ discarded = 0

-----------------------------------------------------------------------------
(* The loops.                                                              *)

\* The buffered sequence numbers that follow e without a hole: what
\* _drain_contiguous pops when the base is e.
Run(e, held) ==
    {s \in held : \A t \in SeqNo : Ahead(t, e) <= Ahead(s, e) => t \in held}

\* The payloads of the sequence numbers S of a buffer, nearest to e first.
\* Mutant: the farthest first.
FarthestFirst(e, buf, S) ==
    [i \in 1 .. Cardinality(S) |->
        buf[CHOOSE s \in S :
                Cardinality({t \in S : Ahead(t, e) > Ahead(s, e)}) = i - 1]]

InOrder(e, buf, S) ==
    [i \in 1 .. Cardinality(S) |->
        buf[CHOOSE s \in S :
                Cardinality({t \in S : Ahead(t, e) < Ahead(s, e)}) = i - 1]]

Without(buf, S) == Restrict(buf, DOMAIN buf \ S)

\* The sequence numbers a base that moves n places from e goes past.
Passed(e, held, n) == {s \in held : Ahead(s, e) < n}

\* The loop of _enforce_window stops once the buffer is empty, or spans less
\* than the window and holds no more than the window.  hi is hi_ahead,
\* measured once before the loop.
HiAhead(e, held) ==
    CHOOSE h \in {Ahead(s, e) : s \in held} : \A s \in held : Ahead(s, e) <= h

\* Mutant: the window is one place too small.
WindowTooSmall(e, held, n) ==
    LET left == held \ Passed(e, held, n)
    IN  left = {} \/ HiAhead(e, held) - n < window - 1

WindowKept(e, held, n) ==
    LET left == held \ Passed(e, held, n)
    IN  \/ left = {}
        \/ /\ HiAhead(e, held) - n < window
           /\ Cardinality(left) <= window

\* Mutant: the window is never enforced.
NeverForced(e, held) == 0

\* How many places _enforce_window moves the base: the first at which it stops.
ForcedSteps(e, held) ==
    CHOOSE n \in 0 .. SeqMod :
        /\ WindowKept(e, held, n)
        /\ \A m \in 0 .. n - 1 : ~WindowKept(e, held, m)

\* Mutant: the walk counts every place as received.
WalkAllReceived(buf, n, st) ==
    LET passed == Passed(expected, DOMAIN buf, n)
    IN  /\ expected' = Plus(expected, n)
        /\ pending' = Without(buf, passed)
        /\ out' = InOrder(expected, buf, passed)
        /\ stats' = [st EXCEPT !.received = @ + n]

\* The base moves n places over the buffer buf: a buffered number is popped
\* and delivered, any other is declared missing.
WalkBase(buf, n, st) ==
    LET passed == Passed(expected, DOMAIN buf, n)
        k      == Cardinality(passed)
    IN  /\ expected' = Plus(expected, n)
        /\ pending' = Without(buf, passed)
        /\ out' = InOrder(expected, buf, passed)
        /\ stats' = [st EXCEPT !.received = @ + k, !.missing = @ + (n - k)]

\* Mutant: an evicted number stays in the set.
MarkSeenForever(s) ==
    IF s \in seenSet
    THEN UNCHANGED <<seen, seenSet>>
    ELSE /\ seen' = Append(IF Len(seen) = SeenWindow THEN Tail(seen) ELSE seen, s)
         /\ seenSet' = seenSet \cup {s}

MarkSeen(s) ==
    LET full == Len(seen) = SeenWindow
        kept == IF full THEN Tail(seen) ELSE seen
        old  == IF full THEN {Head(seen)} ELSE {}
    IN  IF s \in seenSet
        THEN UNCHANGED <<seen, seenSet>>
        ELSE /\ seen' = Append(kept, s)
             /\ seenSet' = (seenSet \ old) \cup {s}

-----------------------------------------------------------------------------
(* What the branches of track() and feed() have in common.                 *)

\* The baseline moves to just after s, for the first datagram or a RESTART one.
Rebases(restart) == restart \/ expected = None

\* A RESTART datagram over an old baseline is counted.
CountRestart(restart, st) ==
    IF restart /\ expected # None THEN [st EXCEPT !.restarts = @ + 1] ELSE st

\* Mutant: the largest gap is not kept.
GapUnnoted(gap, st) == st

NoteGap(gap, st) == [st EXCEPT !.max_gap = IF gap > @ THEN gap ELSE @]

\* Mutant: the datagram that shows the gap is counted with it.
SkipOneMore(gap, st) == [NoteGap(gap, st) EXCEPT !.missing = @ + gap + 1]

\* track() alone: without a buffer the places of a gap are missing at once.
Skip(gap, st) == [NoteGap(gap, st) EXCEPT !.missing = @ + gap]

\* Deliver datagram s, and in feed() the run that buf holds right after it.
Accept(p, s, buf, st) ==
    LET base == Plus(s, 1)
        run  == Run(base, DOMAIN buf)
        k    == Cardinality(run)
    IN  /\ expected' = Plus(base, k)
        /\ pending' = Without(buf, run)
        /\ out' = <<p>> \o InOrder(base, buf, run)
        /\ stats' = [st EXCEPT !.received = @ + 1 + k]
        /\ MarkSeen(s)

\* Behind the base: dropped, as a copy if seen before, as late if not.
Behind(s) ==
    /\ Ahead(s, expected) >= Half
    /\ stats' = IF s \in seenSet
                THEN [stats EXCEPT !.dups = @ + 1, !.true_dups = @ + 1]
                ELSE [stats EXCEPT !.dups = @ + 1, !.reordered = @ + 1]
    /\ MarkSeen(s)
    /\ out' = <<>>
    /\ UNCHANGED <<expected, pending, discarded>>

-----------------------------------------------------------------------------
(* track(): no buffer.  feed() is track() when the window is 0.            *)

\* Mutant: the base stays at the datagram delivered.
TrackAcceptStays(p, s, st) ==
    /\ expected' = s
    /\ stats' = [st EXCEPT !.received = @ + 1]
    /\ out' = <<p>>
    /\ MarkSeen(s)
    /\ UNCHANGED <<pending, discarded>>

\* Deliver datagram s and leave the (empty) buffer alone.
TrackAccept(p, s, st) ==
    /\ expected' = Plus(s, 1)
    /\ stats' = [st EXCEPT !.received = @ + 1]
    /\ out' = <<p>>
    /\ MarkSeen(s)
    /\ UNCHANGED <<pending, discarded>>

Track(p, s, restart) ==
    \/ Rebases(restart) /\ TrackAccept(p, s, CountRestart(restart, stats))
    \/ /\ ~Rebases(restart)
       /\ \/ s = expected /\ TrackAccept(p, s, stats)
          \/ LET gap == Ahead(s, expected)
             IN  /\ 0 < gap /\ gap < GapFloor
                 /\ TrackAccept(p, s, Skip(gap, stats))
          \/ LET gap == Ahead(s, expected)
             IN  /\ GapFloor <= gap /\ gap < Half
                 /\ TrackAccept(p, s, [NoteGap(gap, stats) EXCEPT !.stream_switches = @ + 1])
          \/ Behind(s)

-----------------------------------------------------------------------------
(* feed() with a reorder buffer.                                           *)

\* The first datagram, or a RESTART: over an old baseline the buffer is
\* dropped.
FeedRebase(p, s, restart) ==
    LET old  == restart /\ expected # None
        buf  == IF old THEN Empty ELSE pending
    IN  /\ Rebases(restart)
        /\ Accept(p, s, buf, CountRestart(restart, stats))
        /\ discarded' = discarded + Cardinality(DOMAIN pending \ DOMAIN buf)

FeedInOrder(p, s) ==
    /\ s = expected
    /\ Accept(p, s, pending, stats)
    /\ UNCHANGED discarded

\* A gap no capture loses: a second stream on the socket.  Rebase onto it.
FeedSwitch(p, s) ==
    LET gap == Ahead(s, expected)
    IN  /\ GapFloor <= gap /\ gap < Half
        /\ Accept(p, s, Empty, [NoteGap(gap, stats) EXCEPT !.stream_switches = @ + 1])
        /\ discarded' = discarded + Cardinality(DOMAIN pending)

\* Ahead of a hole.  A copy of a buffered or delivered datagram is dropped,
\* any other is buffered and the window enforced.
Early(s) ==
    LET gap == Ahead(s, expected) IN 0 < gap /\ gap < GapFloor

\* Mutant: the buffer is not looked at.
KnownIfSeen(s) == s \in seenSet

Known(s) == s \in DOMAIN pending \cup seenSet

FeedEarlyCopy(s) ==
    /\ Early(s)
    /\ Known(s)
    /\ stats' = [NoteGap(Ahead(s, expected), stats) EXCEPT !.dups = @ + 1, !.true_dups = @ + 1]
    /\ out' = <<>>
    /\ UNCHANGED <<expected, pending, seen, seenSet, discarded>>

FeedHold(p, s) ==
    LET buf == [t \in DOMAIN pending \cup {s} |-> IF t = s THEN p ELSE pending[t]]
    IN  /\ Early(s)
        /\ ~Known(s)
        /\ WalkBase(buf, ForcedSteps(expected, DOMAIN buf),
                    NoteGap(Ahead(s, expected), stats))
        /\ MarkSeen(s)
        /\ UNCHANGED discarded

FeedBuffered(p, s, restart) ==
    \/ FeedRebase(p, s, restart)
    \/ /\ ~Rebases(restart)
       /\ \/ FeedInOrder(p, s)
          \/ FeedSwitch(p, s)
          \/ FeedEarlyCopy(s)
          \/ FeedHold(p, s)
          \/ Behind(s)

-----------------------------------------------------------------------------
(* The operations.                                                         *)

Feed(p, s, restart) ==
    /\ fed' = fed + 1
    /\ UNCHANGED window
    /\ \/ window = 0 /\ Track(p, s, restart)
       \/ window > 0 /\ FeedBuffered(p, s, restart)

\* Mutant: the walk stops one short.
FlushStopsShort ==
    /\ IF DOMAIN pending = {}
       THEN out' = <<>> /\ UNCHANGED <<expected, stats, pending>>
       ELSE WalkBase(pending, HiAhead(expected, DOMAIN pending), stats)
    /\ UNCHANGED <<window, seen, seenSet, fed, discarded>>

\* End of the stream: the base walks past everything held.
Flush ==
    /\ IF DOMAIN pending = {}
       THEN out' = <<>> /\ UNCHANGED <<expected, stats, pending>>
       ELSE WalkBase(pending, HiAhead(expected, DOMAIN pending) + 1, stats)
    /\ UNCHANGED <<window, seen, seenSet, fed, discarded>>

NoteMalformed ==
    /\ stats' = [stats EXCEPT !.bad = @ + 1]
    /\ out' = <<>>
    /\ UNCHANGED <<window, expected, seen, seenSet, pending, fed, discarded>>

Next ==
    \/ \E p \in Payload, s \in SeqNo, restart \in BOOLEAN :
            fed < MaxFed /\ Feed(p, s, restart)
    \/ Flush
    \/ stats.bad < MaxBad /\ NoteMalformed

Spec == Init /\ [][Next]_vars

-----------------------------------------------------------------------------
(* Properties.                                                             *)

Held == DOMAIN pending

TypeOK ==
    /\ window \in Windows
    /\ expected \in SeqNo \cup {None}
    /\ stats \in [Counters -> Nat]
    /\ seen \in Seq(SeqNo)
    /\ seenSet \in SUBSET SeqNo
    /\ Held \in SUBSET SeqNo
    /\ pending \in [Held -> Payload]
    /\ expected = None => Held = {}
    /\ out \in Seq(Payload)
    /\ fed \in Nat
    /\ discarded \in Nat

\* _mark_seen keeps the deque and the set in step: no number twice, never more
\* than _SEEN_WINDOW, and an evicted number leaves both.
SeenInStep ==
    /\ seenSet = {seen[i] : i \in 1 .. Len(seen)}
    /\ \A i, j \in 1 .. Len(seen) : seen[i] = seen[j] => i = j
    /\ Len(seen) <= SeenWindow

\* Every datagram fed is delivered, dropped as late or copy, still held, or
\* was dropped with its baseline: feed() neither loses nor doubles one.
Conservation ==
    /\ fed = stats.received + stats.dups + Cardinality(Held) + discarded
    /\ stats.dups = stats.reordered + stats.true_dups

\* "reorder_window bounds ... the number of buffered datagrams": memory is
\* bounded whatever arrives.
BufferBounded == Cardinality(Held) <= window

\* suspect_interleaved of gap_report() and max_gap tell the same story: a
\* second stream is suspected exactly when a gap reached the floor.
SwitchIffHugeGap == (stats.stream_switches > 0) <=> (stats.max_gap >= GapFloor)

\* `received` counts the payloads handed out, call by call.
ReceivedIsDelivered ==
    [][stats'.received - stats.received = Len(out')]_vars

\* The denominator of loss_pct: unless a call sets a new baseline, received
\* plus missing grows by exactly the places the base moved.
Rebaselined == stats'.restarts # stats.restarts \/ stats'.stream_switches # stats.stream_switches

LossTotalFollowsBase ==
    [][expected # None /\ ~Rebaselined =>
        expected' = Plus(expected, (stats'.received + stats'.missing)
                                    - (stats.received + stats.missing))]_vars

=============================================================================
