----------------------------- MODULE FrameStream -----------------------------
(***************************************************************************)
(* framefilter.py: FrameSplitter, peek() and FrameFilter on an HDLC stream *)
(* that comes in chunks cut anywhere, with a reset() at any time.          *)
(*                                                                         *)
(* feed() is a generator: its chunk is split when it is first asked, and   *)
(* each frame is examined when the consumer asks for more.  The offsets of *)
(* a frame, its checksum and the peek window are scaled by constants.      *)
(***************************************************************************)
EXTENDS Integers, Sequences, FiniteSets, SequencesExt, Selections

CONSTANTS
    Flag, Esc, EscFlag, EscEsc,   \* 7E, 7D, and what stands for them after a 7D
    Log, Wrap,                    \* the opcodes 10 and 98
    CodeOff, WrapOff,             \* _LOG_CODE_OFF, the offset of a wrapped frame
    PeekWindow,                   \* _PEEK_WINDOW, in escaped bytes
    Trailer,                      \* bytes of the checksum
    Crc(_),                       \* the checksum of a body
    LogCodes, Opcodes,            \* what the consumer wants
    Extra,                        \* the opcodes f3 and events stand for
    AllLogs, VerifyCrc,
    Streams,                      \* the streams a behaviour may be about
    ChunkSizes,                   \* sizes of a chunk
    MaxResets                     \* bound of the model: resets

ASSUME FilterAssumption ==
    /\ Flag # Esc /\ EscFlag # EscEsc /\ {Flag, Esc} \cap {EscFlag, EscEsc} = {}
    /\ Log # Wrap /\ \A s \in Streams : s \in Seq(ToSet(s))
    /\ CodeOff \in Nat \ {0} /\ WrapOff \in Nat \ {0} /\ Trailer \in Nat \ {0}
    /\ PeekWindow \in Nat /\ PeekWindow >= 2 * (WrapOff + CodeOff + 1)
    /\ AllLogs \in BOOLEAN /\ VerifyCrc \in BOOLEAN
    /\ ChunkSizes \subseteq Nat \ {0} /\ MaxResets \in Nat

VARIABLES
    stream,     \* the stream of this behaviour
    pos,        \* bytes of it fed so far
    carry,      \* _carry
    queue,      \* frames of the open generator not yet examined
    yielded,    \* the frames yielded so far, escaped
    stats,      \* FilterStats
    cuts,       \* history: positions at which reset() was called
    finished    \* finish() was called

filterVars == <<stream, pos, carry, queue, yielded, stats, cuts, finished>>

FilterInit ==
    /\ stream \in Streams
    /\ pos = 0 /\ carry = <<>> /\ queue = <<>> /\ yielded = <<>>
    /\ stats = [c \in {"frames_seen", "frames_matched", "crc_bad", "short"} |-> 0]
    /\ cuts = {} /\ finished = FALSE

-----------------------------------------------------------------------------
(* unescape() and peek().                                                  *)

\* bytes.replace() of the pair Esc, b by c.  Pairs cannot overlap.
Replace(s, b, c) ==
    LET starts == {i \in 1 .. Len(s) - 1 : s[i] = Esc /\ s[i + 1] = b}
    IN  Picked([i \in DOMAIN s |-> IF i \in starts THEN c ELSE s[i]],
               {i \in DOMAIN s : i - 1 \notin starts})

Unescape(esc) == Replace(Replace(esc, EscFlag, Flag), EscEsc, Esc)

NoPeek == [none |-> TRUE]

Cut(s, n) == SubSeq(s, 1, IF n < Len(s) THEN n ELSE Len(s))

\* Mutant: the window is that of the unescaped fields.
HeadNarrow(esc) == Unescape(Cut(esc, WrapOff + CodeOff + 1))

Head32(esc) == Unescape(Cut(esc, PeekWindow))

\* Byte i of head, counted from 0 as the code does.
At(head, i) == head[i + 1]

\* The opcode, the opcode of a wrapped frame, and the code of a log frame;
\* NoPeek if the head is too short for them.
PeekAt(head) ==
    LET op      == At(head, 0)
        wrapped == op = Wrap
        inner   == IF wrapped THEN At(head, WrapOff) ELSE op
        code    == (IF wrapped THEN WrapOff ELSE 0) + CodeOff
    IN  IF (wrapped /\ Len(head) <= WrapOff) \/ (inner = Log /\ Len(head) <= code)
        THEN NoPeek
        ELSE [opcode |-> op, eff |-> inner,
              code |-> IF inner = Log THEN At(head, code) ELSE 0]

Peek(esc) == PeekAt(Head32(esc))

-----------------------------------------------------------------------------
(* FrameFilter.                                                            *)

EveryLog == AllLogs \/ Log \in Opcodes
Eff      == (Opcodes \ {Log}) \cup Extra

Candidates ==
    Opcodes \cup Eff \cup {Wrap} \cup (IF EveryLog \/ LogCodes # {} THEN {Log} ELSE {})

\* Mutant: the opcodes that have to be escaped are compared as they are.
FirstBytesPlain == Candidates

FirstBytes == {IF op \in {Esc, Flag} THEN Esc ELSE op : op \in Candidates}

Matches(p) ==
    \/ p.opcode \in Opcodes
    \/ p.eff = Log /\ (EveryLog \/ p.code \in LogCodes)
    \/ p.eff # Log /\ p.eff \in Eff

Body(raw) == SubSeq(raw, 1, Len(raw) - Trailer)

CrcGood(raw) == SubSeq(raw, Len(raw) - Trailer + 1, Len(raw)) = Crc(Body(raw))

\* What becomes of one escaped frame.
Verdict(esc) ==
    LET p   == Peek(esc)
        raw == Unescape(esc)
    IN  CASE esc[1] \notin FirstBytes -> "rejected"
          [] esc[1] \in FirstBytes /\ p = NoPeek -> "short"
          [] esc[1] \in FirstBytes /\ p # NoPeek /\ ~Matches(p) -> "rejected"
          [] OTHER -> IF Len(raw) < Trailer + 1 THEN "short"
                      ELSE IF VerifyCrc /\ ~CrcGood(raw) THEN "crc_bad"
                      ELSE "frames_matched"

-----------------------------------------------------------------------------
(* The splitter, and what the consumer calls.                              *)

Flags(s) == {i \in DOMAIN s : s[i] = Flag}

\* What lies before each of the ends, from the last of the starts on; bytes.split
\* has empty pieces too, which feed() drops.
FramesAt(s, starts, ends) ==
    LET start(e) == LastBefore(starts, e)
        full     == {e \in ends : start(e) < e - 1}
    IN  Picked([e \in ends |-> SubSeq(s, start(e) + 1, e - 1)], full)

\* feed() is asked for the first match of a chunk of n bytes.
Feed(n) ==
    LET s      == carry \o SubSeq(stream, pos + 1, pos + n)
        starts == {0} \cup Flags(s)
        frames == FramesAt(s, starts, Flags(s))
    IN  /\ queue = <<>> /\ ~finished /\ pos + n <= Len(stream)
        /\ pos' = pos + n
        /\ carry' = SubSeq(s, LastBefore(starts, Len(s) + 1) + 1, Len(s))
        /\ queue' = frames
        /\ stats' = [stats EXCEPT !.frames_seen = @ + Len(frames)]
        /\ UNCHANGED <<stream, yielded, cuts, finished>>

\* The generator goes on to its next frame.
Examine ==
    /\ queue # <<>>
    /\ LET v == Verdict(Head(queue))
       IN  /\ stats' = IF v = "rejected" THEN stats ELSE [stats EXCEPT ![v] = @ + 1]
           /\ yielded' = IF v = "frames_matched" THEN Append(yielded, Head(queue)) ELSE yielded
    /\ queue' = Tail(queue)
    /\ UNCHANGED <<stream, pos, carry, cuts, finished>>

\* Mutant: the discarded frame is not counted.
ResetSilently ==
    /\ Cardinality(cuts) < MaxResets /\ ~finished
    /\ carry' = <<>> /\ cuts' = cuts \cup {pos}
    /\ UNCHANGED <<stream, pos, queue, yielded, stats, finished>>

\* reset() drops the partial frame, also between two matches of a generator.
Reset ==
    /\ Cardinality(cuts) < MaxResets /\ ~finished
    /\ carry' = <<>> /\ cuts' = cuts \cup {pos}
    /\ stats' = IF carry = <<>> THEN stats ELSE [stats EXCEPT !.short = @ + 1]
    /\ UNCHANGED <<stream, pos, queue, yielded, finished>>

\* finish() treats the partial frame as a complete one.
Finish ==
    /\ queue = <<>> /\ ~finished
    /\ finished' = TRUE
    /\ carry' = <<>>
    /\ queue' = IF carry = <<>> THEN <<>> ELSE <<carry>>
    /\ stats' = [stats EXCEPT !.frames_seen = @ + Len(queue')]
    /\ UNCHANGED <<stream, pos, yielded, cuts>>

Done == finished /\ queue = <<>> /\ UNCHANGED filterVars

FilterNext ==
    \/ \E n \in ChunkSizes : Feed(n)
    \/ Examine \/ Reset \/ Finish
    \/ Done

FilterSpec == FilterInit /\ [][FilterNext]_filterVars

-----------------------------------------------------------------------------
(* The reference: the stream is looked at as a whole.                      *)

\* Unescaping in one pass from the left: a byte that is Esc and is not the second
\* of a pair opens one, and of a pair that stands for a byte the first goes on.
Unescaped(esc) ==
    LET opens[i \in 0 .. Len(esc)] == i > 0 /\ esc[i] = Esc /\ ~opens[i - 1]
        pairs == {i \in 1 .. Len(esc) - 1 : opens[i] /\ esc[i + 1] \in {EscFlag, EscEsc}}
        means(b) == IF b = EscFlag THEN Flag ELSE Esc
    IN  Picked([i \in DOMAIN esc |-> IF i \in pairs THEN means(esc[i + 1]) ELSE esc[i]],
               {i \in DOMAIN esc : i - 1 \notin pairs})

\* The frames of the stream so far, in order: what lies between two flags, or
\* the last reset and a flag, or at the end what follows the last of them.
StreamFrames ==
    LET flags == {i \in 1 .. pos : stream[i] = Flag}
    IN  FramesAt(stream, {0} \cup cuts \cup flags,
                 flags \cup (IF finished THEN {pos + 1} ELSE {}))

\* A frame is wanted if, taken apart as a whole, it is well formed and matches.
Wanted(esc) ==
    LET raw == Unescaped(esc)
    IN  /\ PeekAt(raw) # NoPeek /\ Matches(PeekAt(raw))
        /\ Len(raw) > Trailer
        /\ VerifyCrc => CrcGood(raw)

WantedOf(frames) == Picked(frames, {k \in DOMAIN frames : Wanted(frames[k])})

\* "DIAG framing only escapes 7D/7E; any other 7D xx is not valid framing": the
\* streams of which an Esc begins such a pair, or is cut off by a flag.
ValidFraming ==
    \A s \in Streams : \A i \in 1 .. Len(s) - 1 :
        s[i] = Esc => s[i + 1] \in {EscFlag, EscEsc, Flag}

-----------------------------------------------------------------------------
(* Properties.                                                             *)

\* No flag is carried over and no empty frame is examined.
FilterTypeOK ==
    /\ pos \in 0 .. Len(stream)
    /\ \A i \in 1 .. Len(carry) : carry[i] # Flag
    /\ \A k \in 1 .. Len(queue) : queue[k] # <<>>
    /\ stats \in [{"frames_seen", "frames_matched", "crc_bad", "short"} -> Nat]

\* Wherever the chunks are cut, and with reset() between two matches: the
\* filter yields exactly the wanted frames of the whole stream, in order.
YieldsTheWanted ==
    /\ FilterTypeOK
    /\ yielded \o WantedOf(queue) = WantedOf(StreamFrames)

\* "always enough for every field peek reads": peek() of the first escaped
\* bytes is peek() of the whole frame.
PeekIsExact == \A k \in 1 .. Len(queue) : Peek(queue[k]) = PeekAt(Unescaped(queue[k]))

\* The report: each frame of the stream is seen once, and whatever is counted
\* as matched, bad or short is a frame seen or one that a reset() discarded.
Discards == {c \in cuts : c > 0 /\ stream[c] # Flag}

CountsAddUp ==
    /\ stats.frames_seen = Len(StreamFrames)
    /\ stats.frames_matched = Len(yielded)
    /\ stats.short >= Cardinality(Discards)
    /\ stats.frames_matched + stats.crc_bad + stats.short + Len(queue)
          <= stats.frames_seen + Cardinality(Discards)

=============================================================================
