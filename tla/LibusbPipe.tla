----------------------------- MODULE LibusbPipe ------------------------------
(***************************************************************************)
(* _LibusbTransport: a reader thread pumps bulk-IN chunks through an       *)
(* os.pipe() to the thread that uses the client, which also calls close(). *)
(*                                                                         *)
(* Between any two steps of one thread the other may run.  A descriptor is *)
(* a number: once closed, other code of the process may open a file and    *)
(* get the same number.                                                    *)
(***************************************************************************)
EXTENDS Integers, Sequences

CONSTANTS
    ChunkSizes,     \* the sizes of a bulk read, in units
    PipeCap,        \* units the kernel's pipe holds
    MaxSent,        \* bound of the model: units the device sends
    Wedged          \* a bulk read may overrun its timeout, and the join's

ASSUME PipeAssumption ==
    /\ ChunkSizes \subseteq Nat \ {0}
    /\ PipeCap \in Nat \ {0} /\ MaxSent \in Nat
    /\ Wedged \in BOOLEAN

VARIABLES
    sent,       \* units the device handed to bulk reads: 1, 2, 3 ...
    pipe,       \* what is in the pipe
    chunk,      \* what of the reader's chunk is still to be written
    consumed,   \* history: what read() returned
    sawEof,     \* read() returned b''
    rpc, upc,   \* where the reader is, and the user
    stop,       \* _stop
    flag,       \* _wfd_closed
    rfd, wfd,   \* whose the numbers _rfd and _wfd are: "pipe", "free", "other"
    released,   \* release_fn() was called
    harm        \* history: a file of other code was written to or closed

bytes == <<sent, pipe, chunk, consumed, sawEof>>
fds   == <<flag, rfd, wfd, released, harm>>
pipeVars == <<bytes, rpc, upc, stop, fds>>

PipeInit ==
    /\ sent = 0 /\ pipe = <<>> /\ chunk = <<>> /\ consumed = <<>> /\ sawEof = FALSE
    /\ rpc = "loop" /\ upc = "idle" /\ stop = FALSE
    /\ flag = FALSE /\ rfd = "pipe" /\ wfd = "pipe"
    /\ released = FALSE /\ harm = FALSE

-----------------------------------------------------------------------------
(* _pump, on the reader thread.                                            *)

ReaderAt(from, to) == rpc = from /\ rpc' = to

\* Mutant: the stop request is not looked at.
LoopForever ==
    /\ ReaderAt("loop", "bulk read")
    /\ UNCHANGED <<bytes, upc, stop, fds>>

Loop ==
    /\ IF stop THEN ReaderAt("loop", "check flag") ELSE ReaderAt("loop", "bulk read")
    /\ UNCHANGED <<bytes, upc, stop, fds>>

BulkRead(n) ==
    /\ sent + n <= MaxSent
    /\ ReaderAt("bulk read", "write")
    /\ sent' = sent + n
    /\ chunk' = [i \in 1 .. n |-> sent + i]
    /\ UNCHANGED <<pipe, consumed, sawEof, upc, stop, fds>>

\* ETIMEDOUT, and an empty chunk, start over.
BulkTimeout ==
    /\ ReaderAt("bulk read", "loop")
    /\ UNCHANGED <<bytes, upc, stop, fds>>

\* Mutant: a hard error ends the thread without closing the write end.
BulkErrorLeavesPipe ==
    /\ ReaderAt("bulk read", "done")
    /\ UNCHANGED <<bytes, upc, stop, fds>>

BulkError ==
    /\ ReaderAt("bulk read", "check flag")
    /\ UNCHANGED <<bytes, upc, stop, fds>>

\* os.write() looks the number up once.  From then on it holds the pipe's
\* write end, whatever becomes of the number.
EnterWrite ==
    /\ CASE wfd = "pipe"  -> ReaderAt("write", "writing") /\ UNCHANGED <<chunk, harm>>
         [] wfd = "free"  -> ReaderAt("write", "check flag") /\ chunk' = <<>> /\ UNCHANGED harm
         [] wfd = "other" -> ReaderAt("write", "loop") /\ chunk' = <<>> /\ harm' = TRUE
    /\ UNCHANGED <<sent, pipe, consumed, sawEof, upc, stop, flag, rfd, wfd, released>>

Room == PipeCap - Len(pipe)

Least(a, b) == IF a < b THEN a ELSE b

\* Mutant: what does not fit at once is dropped.
WriteWhatFits ==
    LET n == Least(Room, Len(chunk))
    IN  /\ rfd = "pipe" /\ n > 0
        /\ pipe' = pipe \o SubSeq(chunk, 1, n)
        /\ chunk' = <<>>
        /\ ReaderAt("writing", "loop")
        /\ UNCHANGED <<sent, consumed, sawEof, upc, stop, fds>>

\* The kernel takes what fits, and the call blocks until the last unit is in.
Write ==
    LET n == Least(Room, Len(chunk))
    IN  /\ rfd = "pipe" /\ n > 0
        /\ pipe' = pipe \o SubSeq(chunk, 1, n)
        /\ chunk' = SubSeq(chunk, n + 1, Len(chunk))
        /\ ReaderAt("writing", IF n = Len(chunk) THEN "loop" ELSE "writing")
        /\ UNCHANGED <<sent, consumed, sawEof, upc, stop, fds>>

\* EPIPE: the read end is closed.
WriteFails ==
    /\ rfd # "pipe"
    /\ ReaderAt("writing", "check flag")
    /\ chunk' = <<>>
    /\ UNCHANGED <<sent, pipe, consumed, sawEof, upc, stop, fds>>

-----------------------------------------------------------------------------
(* _close_wfd, which both threads call, without a lock.                    *)

CheckFlag(step, done) == step' = IF flag THEN done ELSE "set flag"

\* Closing a number: one that is free is an EBADF, which the code swallows.
CloseWfd ==
    /\ wfd' = "free"
    /\ harm' = (harm \/ wfd = "other")

ReaderCloses ==
    \/ /\ rpc = "check flag" /\ CheckFlag(rpc, "done")
       /\ UNCHANGED <<bytes, upc, stop, fds>>
    \/ /\ ReaderAt("set flag", "close") /\ flag' = TRUE
       /\ UNCHANGED <<bytes, upc, stop, rfd, wfd, released, harm>>
    \/ /\ ReaderAt("close", "done") /\ CloseWfd
       /\ UNCHANGED <<bytes, upc, stop, flag, rfd, released>>

ReaderStep ==
    \/ Loop \/ BulkTimeout \/ BulkError \/ (\E n \in ChunkSizes : BulkRead(n))
    \/ EnterWrite \/ Write \/ WriteFails \/ ReaderCloses

-----------------------------------------------------------------------------
(* The user's thread.                                                      *)

UserAt(from, to) == upc = from /\ upc' = to

\* A writer keeps the pipe open: the number, or a call inside os.write().
WriteEndOpen == wfd = "pipe" \/ rpc = "writing"

Read ==
    /\ upc = "idle" /\ pipe # <<>>
    /\ \E n \in 1 .. Len(pipe) :
          /\ consumed' = consumed \o SubSeq(pipe, 1, n)
          /\ pipe' = SubSeq(pipe, n + 1, Len(pipe))
    /\ UNCHANGED <<sent, chunk, sawEof, rpc, upc, stop, fds>>

ReadEof ==
    /\ upc = "idle" /\ pipe = <<>> /\ ~WriteEndOpen /\ ~sawEof
    /\ sawEof' = TRUE
    /\ UNCHANGED <<sent, pipe, chunk, consumed, rpc, upc, stop, fds>>

Close ==
    /\ UserAt("idle", "join")
    /\ stop' = TRUE
    /\ UNCHANGED <<bytes, rpc, fds>>

\* Mutant: close() does not wait at all.
JoinSkipped ==
    /\ UserAt("join", "check flag")
    /\ UNCHANGED <<bytes, rpc, stop, fds>>

JoinEnds ==
    /\ rpc = "done" /\ UserAt("join", "check flag")
    /\ UNCHANGED <<bytes, rpc, stop, fds>>

\* Two seconds are enough for a bulk read, which times out after one, but not
\* for an os.write() on a full pipe that nobody reads any more.
JoinTimesOut ==
    /\ Wedged \/ (rpc = "writing" /\ Room = 0)
    /\ UserAt("join", "check flag")
    /\ UNCHANGED <<bytes, rpc, stop, fds>>

UserCloses ==
    \/ /\ upc = "check flag" /\ CheckFlag(upc, "close rfd")
       /\ UNCHANGED <<bytes, rpc, stop, fds>>
    \/ /\ UserAt("set flag", "close") /\ flag' = TRUE
       /\ UNCHANGED <<bytes, rpc, stop, rfd, wfd, released, harm>>
    \/ /\ UserAt("close", "close rfd") /\ CloseWfd
       /\ UNCHANGED <<bytes, rpc, stop, flag, rfd, released>>

CloseRfd ==
    /\ UserAt("close rfd", "release")
    /\ rfd' = "free"
    /\ harm' = (harm \/ rfd = "other")
    /\ UNCHANGED <<bytes, rpc, stop, flag, wfd, released>>

Release ==
    /\ UserAt("release", "closed")
    /\ released' = TRUE
    /\ UNCHANGED <<bytes, rpc, stop, flag, rfd, wfd, harm>>

CloseStep == JoinEnds \/ JoinTimesOut \/ UserCloses \/ CloseRfd \/ Release

-----------------------------------------------------------------------------
(* Other code of the process opens a file.                                 *)

OtherOpens ==
    /\ \/ wfd = "free" /\ wfd' = "other" /\ UNCHANGED rfd
       \/ rfd = "free" /\ rfd' = "other" /\ UNCHANGED wfd
    /\ UNCHANGED <<bytes, rpc, upc, stop, flag, released, harm>>

Ended == upc = "closed" /\ rpc = "done" /\ UNCHANGED pipeVars

PipeNext == ReaderStep \/ Read \/ ReadEof \/ Close \/ CloseStep \/ OtherOpens \/ Ended

\* Both threads run, and a consumer that has not closed reads.  That it ever
\* closes, and that the device ever sends, nothing says.
PipeFairness ==
    /\ WF_pipeVars(ReaderStep)
    /\ WF_pipeVars(CloseStep)
    /\ WF_pipeVars(Read \/ ReadEof)

PipeSpec == PipeInit /\ [][PipeNext]_pipeVars /\ PipeFairness

-----------------------------------------------------------------------------
(* Properties.                                                             *)

ReaderSteps == {"loop", "bulk read", "write", "writing", "check flag",
                "set flag", "close", "done"}
UserSteps   == {"idle", "join", "check flag", "set flag", "close",
                "close rfd", "release", "closed"}

PipeTypeOK ==
    /\ sent \in 0 .. MaxSent
    /\ pipe \in Seq(1 .. MaxSent) /\ Len(pipe) <= PipeCap
    /\ chunk \in Seq(1 .. MaxSent) /\ consumed \in Seq(1 .. MaxSent)
    /\ rpc \in ReaderSteps /\ upc \in UserSteps
    /\ rfd \in {"pipe", "free", "other"} /\ wfd \in {"pipe", "free", "other"}
    /\ {sawEof, stop, flag, released, harm} \subseteq BOOLEAN

\* The pipe carries the device's byte stream: until close() takes the read
\* end away nothing is lost, doubled or reordered between the two threads.
\* "Close the write end so the consumer's os.read() sees EOF": and sees it
\* after the last byte the device sent, never before.
StreamIntact ==
    /\ PipeTypeOK
    /\ rfd = "pipe" => consumed \o pipe \o chunk = [k \in 1 .. sent |-> k]
    /\ sawEof => Len(consumed) = sent /\ rpc = "done"

\* _close_wfd checks and sets its flag without a lock, on two threads, and the
\* reader writes to a number close() may have closed: neither ever reaches a
\* file of other code.  The interface is released only when the reader uses the
\* device no more.
OnlyOwnFiles ==
    /\ ~harm
    /\ released => rpc \notin {"loop", "bulk read"}

\* "neither leak the thread nor block shutdown": close() comes back, and the
\* reader ends, also if it is stuck in os.write() on a full pipe.
CloseEndsBoth == stop ~> (upc = "closed" /\ rpc = "done")

\* A hard USB error reaches a consumer that keeps reading.
ErrorBecomesEof == (rpc = "done") ~> (sawEof \/ upc # "idle")

=============================================================================
