---------------------------- MODULE MCFrameStream ----------------------------
(* Small instances of FrameStream: bytes are small numbers, a wrapped frame  *)
(* and a log code are one byte further on, and a frame is good if its last   *)
(* byte is its first.                                                        *)
EXTENDS FrameStream

FirstByte(body) == <<body[1]>>

Escape(raw) ==
    FoldLeft(LAMBDA acc, b : acc \o CASE b = Flag -> <<Esc, EscFlag>>
                                      [] b = Esc -> <<Esc, EscEsc>>
                                      [] OTHER -> <<b>>, <<>>, raw)

Wire(raw) == Escape(raw) \o <<Flag>>

\* Every frame of up to four bytes: escapes at every place of the peek window.
EveryFrame == UNION {[1 .. n -> {Flag, Esc, EscFlag, EscEsc, Log, Wrap}] : n \in 1 .. 4}

\* Good and bad, bare and wrapped, wanted and not, too short, empty.
SomeFrames ==
    {<<Log, Esc, Log>>, <<Log, Esc, Flag>>, <<Wrap, Log, Flag, Wrap>>,
     <<Flag, Flag>>, <<Log>>, <<>>}

SomeStreams ==
    {Wire(r) : r \in EveryFrame}
      \cup {Wire(a) \o Wire(b) \o Escape(c) : a \in SomeFrames, b \in SomeFrames, c \in SomeFrames}

=============================================================================
