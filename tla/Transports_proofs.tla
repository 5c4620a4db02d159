-------------------------- MODULE Transports_proofs ---------------------------
(***************************************************************************)
(* Proofs about the transports, for every choice of the sizes and bounds.  *)
(***************************************************************************)
EXTENDS Transports, Selections_proofs

-----------------------------------------------------------------------------
(* Natural numbers.                                                        *)

\* The least of a set of natural numbers is the one Min chooses.
LEMMA MinIsLeast ==
    ASSUME NEW T, T \subseteq Nat, T # {}
    PROVE  Min(T) \in T /\ \A y \in T : Min(T) <= y
  BY LeastNatural DEF Min

\* A member that no other exceeds is the one Max chooses.
LEMMA MaxIsGreatest ==
    ASSUME NEW T, T \subseteq Int, NEW m \in T, \A y \in T : y <= m
    PROVE  Max(T) = m
<1>1. \A y \in T : m >= y
  OBVIOUS
<1>2. \A x \in T : (\A y \in T : x >= y) => x = m
  OBVIOUS
<1>3. QED
  BY <1>1, <1>2 DEF Max

-----------------------------------------------------------------------------
(* Remainders.                                                             *)

\* Every integer is a multiple of m and a remainder.
LEMMA DivMod ==
    ASSUME NEW m \in Nat \ {0}, NEW a \in Int
    PROVE  \E q \in Int, r \in 0 .. m - 1 : a = m * q + r /\ a % m = r
<1>1. \A n, b \in Int : n > 0 => b = n * (b \div n) + (b % n)
  BY SMTT(30)
<1>2. a % m \in 0 .. m - 1 /\ a \div m \in Int
  OBVIOUS
<1> DEFINE q == a \div m
           r == a % m
<1>3. a = m * q + r
  BY <1>1
<1> HIDE DEF q
<1>4. q \in Int
  BY <1>2 DEF q
<1>5. QED
  BY <1>2, <1>3, <1>4

LEMMA ModIs ==
    ASSUME NEW m \in Nat \ {0}, NEW q \in Int, NEW r \in 0 .. m - 1
    PROVE  (m * q + r) % m = r
  OBVIOUS

\* Counting on modulo m.
LEMMA ModSucc ==
    ASSUME NEW m \in Nat \ {0}, NEW a \in Int
    PROVE  (((a - 1) % m) + 1) % m = a % m
<1>1. PICK q \in Int, r \in 0 .. m - 1 : a - 1 = m * q + r /\ (a - 1) % m = r
  BY DivMod, a - 1 \in Int
<1>2. CASE r + 1 < m
  <2>1. r + 1 \in 0 .. m - 1 /\ a = m * q + (r + 1)
    BY <1>1, <1>2
  <2>2. a % m = r + 1 /\ (r + 1) % m = r + 1
    BY <2>1, ModIs
  <2>3. QED
    BY <1>1, <2>2
<1>3. CASE r + 1 = m
  <2>1. a = m * (q + 1) + 0 /\ q + 1 \in Int /\ 0 \in 0 .. m - 1
    BY <1>1, <1>3
  <2>2. a % m = 0 /\ m % m = 0
    BY <2>1, ModIs
  <2>3. QED
    BY <1>1, <1>3, <2>2
<1>4. QED
  BY <1>2, <1>3

LEMMA MultRange ==
    ASSUME NEW m \in Nat \ {0}, NEW k \in Int, -m < m * k, m * k < 2 * m
    PROVE  k = 0 \/ k = 1
  OBVIOUS

LEMMA ModOfNeg ==
    ASSUME NEW m \in Nat \ {0}, NEW d \in 0 .. m - 1
    PROVE  (d - m) % m = d /\ d % m = d
  OBVIOUS

\* The distance of two numbers can be read off their remainders, when it is less
\* than m.
LEMMA ModSub ==
    ASSUME NEW m \in Nat \ {0}, NEW a \in Int, NEW b \in Int, 0 <= a - b, a - b < m
    PROVE  ((a % m) - (b % m)) % m = a - b
<1>1. PICK q \in Int, r \in 0 .. m - 1 : a = m * q + r /\ a % m = r
  BY DivMod
<1>2. PICK p \in Int, s \in 0 .. m - 1 : b = m * p + s /\ b % m = s
  BY DivMod
<1>3. m * (q - p) = (a - b) - (r - s) /\ q - p \in Int
  BY <1>1, <1>2
<1>4. q - p = 0 \/ q - p = 1
  BY <1>3, MultRange
<1>5. r - s = a - b \/ r - s = (a - b) - m
  BY <1>3, <1>4
<1>6. QED
  BY <1>1, <1>2, <1>5, ModOfNeg

-----------------------------------------------------------------------------
(* Sequences that are cut and joined.                                      *)

\* A sequence cut after its first n elements is made of the two parts.
LEMMA CutInTwo ==
    ASSUME NEW S, NEW s \in Seq(S), NEW n \in 0 .. Len(s)
    PROVE  /\ SubSeq(s, 1, n) \in Seq(S) /\ Len(SubSeq(s, 1, n)) = n
           /\ SubSeq(s, n + 1, Len(s)) \in Seq(S)
           /\ Len(SubSeq(s, n + 1, Len(s))) = Len(s) - n
           /\ s = SubSeq(s, 1, n) \o SubSeq(s, n + 1, Len(s))
<1>1. Len(s) \in Nat /\ \A i \in 1 .. Len(s) : s[i] \in S
  BY LenProperties, ElementOfSeq
<1>2. SubSeq(s, 1, n) \in Seq(S) /\ Len(SubSeq(s, 1, n)) = n
  BY <1>1, SubSeqProperties
<1>3. /\ SubSeq(s, n + 1, Len(s)) \in Seq(S)
      /\ Len(SubSeq(s, n + 1, Len(s))) = Len(s) - n
  BY <1>1, SubSeqProperties
<1>4. SubSeq(s, 1, n) \o SubSeq(s, n + 1, Len(s)) = SubSeq(s, 1, Len(s))
  <2>1. /\ 1 \in 1 .. Len(s) + 1 /\ n \in 1 - 1 .. Len(s)
        /\ Len(s) \in n .. Len(s)
    BY <1>1
  <2>2. QED
    BY <2>1, ConcatAdjacentSubSeq
<1>5. QED
  BY <1>2, <1>3, <1>4, SubSeqFull

\* Moving the front of one sequence to the end of the one before it keeps what
\* they are together.
LEMMA FrontMoves ==
    ASSUME NEW S, NEW a \in Seq(S), NEW b \in Seq(S), NEW n \in 0 .. Len(b)
    PROVE  (a \o SubSeq(b, 1, n)) \o SubSeq(b, n + 1, Len(b)) = a \o b
<1> DEFINE b1 == SubSeq(b, 1, n)
           b2 == SubSeq(b, n + 1, Len(b))
<1>1. b1 \in Seq(S) /\ b2 \in Seq(S)
  BY CutInTwo
<1>2. b = b1 \o b2
  BY CutInTwo
<1> HIDE DEF b1, b2
<1>3. (a \o b1) \o b2 = a \o (b1 \o b2)
  BY SMTT(30), <1>1, ConcatAssociative
<1>4. (a \o b1) \o b2 = a \o b
  BY <1>2, <1>3
<1>5. QED
  BY <1>4 DEF b1, b2

\* The numbers from 1 on, and how they go on.
LEMMA CountingGoesOn ==
    ASSUME NEW m \in Nat, NEW n \in Nat
    PROVE  [k \in 1 .. m |-> k] \o [i \in 1 .. n |-> m + i] = [k \in 1 .. m + n |-> k]
<1> DEFINE a == [k \in 1 .. m |-> k]
           b == [i \in 1 .. n |-> m + i]
           c == [k \in 1 .. m + n |-> k]
<1>1. a \in Seq(Nat) /\ Len(a) = m /\ b \in Seq(Nat) /\ Len(b) = n
  OBVIOUS
<1>2. c \in Seq(Nat) /\ Len(c) = m + n
  OBVIOUS
<1>3. a \o b \in Seq(Nat) /\ Len(a \o b) = m + n
  BY <1>1, ConcatProperties
<1>4. ASSUME NEW i \in 1 .. m + n
      PROVE  (a \o b)[i] = c[i]
  BY <1>1, ConcatProperties
<1>5. QED
  BY <1>2, <1>3, <1>4, SeqEqual

-----------------------------------------------------------------------------
(* The libusb transport.                                                   *)

Upto(n) == [k \in 1 .. n |-> k]

\* The caller, the pipe and the chunk hold what the device sent, in order.
Carried == consumed \o pipe \o chunk = Upto(sent)

\* Where the reader and the write end are while close() has not passed join().
BeforeJoin ==
    /\ rfd = "pipe" /\ ~harm /\ ~released
    /\ flag <=> rpc \in {"close", "done"}
    /\ wfd = "pipe" <=> rpc # "done"
    /\ Carried

\* A reader that join() gave up on stands in os.write() on the full pipe, with
\* the write end open, until close() takes the read end away.
Stuck == rpc = "writing" /\ Room = 0

\* Where they are in the rest of close(), step by step, when bulk reads keep
\* their timeout.
AfterJoin ==
    /\ ~harm
    /\ released => upc = "closed"
    /\ upc \in {"check flag", "set flag", "close", "close rfd"} =>
          /\ rfd = "pipe" /\ Carried
          /\ rpc = "done" \/ Stuck
    /\ upc = "check flag" => (flag <=> rpc = "done") /\ (wfd = "pipe" <=> Stuck)
    /\ upc = "set flag"   => Stuck /\ ~flag /\ wfd = "pipe"
    /\ upc = "close"      => Stuck /\ flag /\ wfd = "pipe"
    /\ upc = "close rfd"  => flag /\ wfd # "pipe"
    /\ upc \in {"release", "closed"} =>
          rfd # "pipe" /\ flag /\ wfd # "pipe" /\ rpc \in {"writing", "check flag", "done"}

\* The inductive invariant of the libusb transport.
PipeIInv ==
    /\ PipeTypeOK
    /\ chunk # <<>> => rpc \in {"write", "writing"}
    /\ stop <=> upc # "idle"
    /\ sawEof => rpc = "done" /\ pipe = <<>> /\ Len(consumed) = sent
    /\ upc \in {"idle", "join"} => BeforeJoin
    /\ ~Wedged => upc \in {"idle", "join"} \/ AfterJoin

-----------------------------------------------------------------------------
(* The invariant holds at first, and every step keeps it.                  *)

LEMMA PipeInitHolds == PipeInit => PipeIInv
<1> SUFFICES ASSUME PipeInit PROVE PipeIInv
  OBVIOUS
<1>1. PipeTypeOK
  <2>1. <<>> \in Seq(1 .. MaxSent) /\ Len(<<>>) = 0
    BY EmptySeq
  <2>2. Len(<<>>) <= PipeCap /\ 0 \in 0 .. MaxSent
    BY <2>1, PipeAssumption
  <2>3. QED
    BY <2>1, <2>2 DEF PipeInit, PipeTypeOK, ReaderSteps, UserSteps
<1>2. Carried
  BY DEF PipeInit, Carried, Upto
<1>3. QED
  BY <1>1, <1>2 DEF PipeInit, PipeIInv, BeforeJoin

\* The sequences of the invariant are sequences of numbers.
LEMMA PipeSeqs ==
    ASSUME PipeTypeOK
    PROVE  /\ pipe \in Seq(1 .. MaxSent) /\ chunk \in Seq(1 .. MaxSent)
           /\ consumed \in Seq(1 .. MaxSent)
           /\ Len(pipe) \in Nat /\ Len(chunk) \in Nat /\ Len(consumed) \in Nat
           /\ sent \in Nat
  BY LenProperties, PipeAssumption DEF PipeTypeOK

\* A step that moves no unit.
LEMMA NothingMoves ==
    ASSUME UNCHANGED <<sent, pipe, chunk, consumed>>
    PROVE  (Carried' <=> Carried) /\ Room' = Room
  BY DEF Carried, Room

\* What a bulk read adds is the next numbers, behind all there are.
LEMMA BulkReadKeeps ==
    ASSUME PipeIInv, NEW n \in ChunkSizes, BulkRead(n)
    PROVE  PipeIInv'
<1>1. n \in Nat /\ n > 0 /\ sent + n \in 0 .. MaxSent /\ sent \in Nat
  <2>1. n \in Nat /\ n > 0
    BY PipeAssumption
  <2>2. sent \in Nat /\ sent + n <= MaxSent
    BY PipeSeqs DEF PipeIInv, BulkRead
  <2>3. QED
    BY <2>1, <2>2
<1>2. chunk = <<>> /\ chunk' = [i \in 1 .. n |-> sent + i] /\ sent' = sent + n
  BY DEF PipeIInv, BulkRead, ReaderAt
<1>3. chunk' \in Seq(1 .. MaxSent)
  <2>1. MaxSent \in Nat /\ \A i \in 1 .. n : sent + i \in 1 .. MaxSent
    BY <1>1, PipeAssumption
  <2>2. QED
    BY <1>1, <1>2, <2>1
<1>4. PipeTypeOK'
  BY <1>1, <1>3 DEF PipeIInv, PipeTypeOK, BulkRead, ReaderAt, ReaderSteps, fds
<1>5. Carried => Carried'
  <2> SUFFICES ASSUME Carried
               PROVE  (consumed \o pipe) \o chunk' = Upto(sent')
    BY DEF BulkRead, Carried
  <2>1. consumed \o pipe \in Seq(1 .. MaxSent)
    BY PipeSeqs, ConcatProperties DEF PipeIInv
  <2>2. consumed \o pipe = Upto(sent)
    BY <2>1, <1>2, ConcatEmptySeq DEF Carried
  <2>3. QED
    BY <2>2, <1>1, <1>2, CountingGoesOn DEF Upto
<1>6. QED
  BY <1>4, <1>5 DEF PipeIInv, BeforeJoin, AfterJoin, Stuck, Room, BulkRead, ReaderAt, fds

\* A write moves the front of the chunk into the pipe, a read that of the pipe
\* to the caller.
LEMMA WriteKeeps ==
    ASSUME PipeIInv, Write
    PROVE  PipeIInv'
<1> DEFINE n == Least(Room, Len(chunk))
<1>1. /\ n \in 1 .. Len(chunk) /\ n <= PipeCap - Len(pipe)
      /\ pipe' = pipe \o SubSeq(chunk, 1, n)
      /\ chunk' = SubSeq(chunk, n + 1, Len(chunk))
  BY PipeSeqs, PipeAssumption DEF PipeIInv, Write, Least, Room
<1>2. /\ SubSeq(chunk, 1, n) \in Seq(1 .. MaxSent) /\ Len(SubSeq(chunk, 1, n)) = n
      /\ chunk' \in Seq(1 .. MaxSent) /\ Len(chunk') = Len(chunk) - n
  <2>1. chunk \in Seq(1 .. MaxSent) /\ n \in 0 .. Len(chunk)
    BY <1>1, PipeSeqs DEF PipeIInv
  <2>2. QED
    BY ZenonT(30), <1>1, <2>1, CutInTwo
<1>3. pipe' \in Seq(1 .. MaxSent) /\ Len(pipe') = Len(pipe) + n
  BY <1>1, <1>2, PipeSeqs, ConcatProperties DEF PipeIInv
<1>4. PipeTypeOK'
  <2>1. Len(pipe') <= PipeCap
    BY <1>1, <1>3, PipeSeqs, PipeAssumption DEF PipeIInv
  <2>2. QED
    BY <1>2, <1>3, <2>1 DEF PipeIInv, PipeTypeOK, Write, ReaderAt, ReaderSteps, fds
<1>5. Carried => Carried'
  <2>1. pipe' \o chunk' = pipe \o chunk
    <3>1. /\ chunk \in Seq(1 .. MaxSent) /\ n \in 0 .. Len(chunk)
          /\ pipe \in Seq(1 .. MaxSent)
      BY <1>1, PipeSeqs DEF PipeIInv
    <3>2. QED
      BY <1>1, <3>1, FrontMoves
  <2>2. (consumed \o pipe') \o chunk' = consumed \o (pipe' \o chunk')
    <3>1. /\ consumed \in Seq(1 .. MaxSent) /\ pipe' \in Seq(1 .. MaxSent)
          /\ chunk' \in Seq(1 .. MaxSent)
      BY <1>2, <1>3, PipeSeqs DEF PipeIInv
    <3>2. QED
      BY <3>1, ConcatAssociative
  <2>3. (consumed \o pipe) \o chunk = consumed \o (pipe \o chunk)
    BY SMTT(30), PipeSeqs, ConcatAssociative DEF PipeIInv
  <2>4. QED
    BY <2>1, <2>2, <2>3 DEF Write, Carried
<1>6. chunk' # <<>> => rpc' = "writing"
  BY <1>1, <1>2, PipeSeqs DEF PipeIInv, Write, ReaderAt
<1>7. rpc = "writing" /\ rpc' \in {"loop", "writing"} /\ Room # 0 /\ rfd = "pipe"
  BY <1>1, PipeSeqs, PipeAssumption DEF PipeIInv, Write, ReaderAt, Room
<1>8. QED
  BY <1>4, <1>5, <1>6, <1>7
     DEF PipeIInv, BeforeJoin, AfterJoin, Stuck, Write, ReaderAt, fds

LEMMA ReadKeeps ==
    ASSUME PipeIInv, Read
    PROVE  PipeIInv'
<1>1. PICK n \in 1 .. Len(pipe) :
          /\ consumed' = consumed \o SubSeq(pipe, 1, n)
          /\ pipe' = SubSeq(pipe, n + 1, Len(pipe))
  BY DEF Read
<1>2. /\ SubSeq(pipe, 1, n) \in Seq(1 .. MaxSent)
      /\ pipe' \in Seq(1 .. MaxSent) /\ Len(pipe') = Len(pipe) - n
  <2>1. pipe \in Seq(1 .. MaxSent) /\ n \in 0 .. Len(pipe)
    BY <1>1, PipeSeqs DEF PipeIInv
  <2>2. QED
    BY <1>1, <2>1, CutInTwo
<1>3. consumed' \in Seq(1 .. MaxSent)
  BY <1>1, <1>2, PipeSeqs, ConcatProperties DEF PipeIInv
<1>4. PipeTypeOK'
  <2>1. Len(pipe') <= PipeCap
    BY <1>1, <1>2, PipeSeqs, PipeAssumption DEF PipeIInv, PipeTypeOK
  <2>2. QED
    BY <1>2, <1>3, <2>1 DEF PipeIInv, PipeTypeOK, Read, fds
<1>5. Carried => Carried'
  <2>1. consumed' \o pipe' = consumed \o pipe
    <3>1. /\ pipe \in Seq(1 .. MaxSent) /\ n \in 0 .. Len(pipe)
          /\ consumed \in Seq(1 .. MaxSent)
      BY <1>1, PipeSeqs DEF PipeIInv
    <3>2. QED
      BY <1>1, <3>1, FrontMoves
  <2>2. QED
    BY <2>1 DEF Read, Carried
<1>6. QED
  BY <1>4, <1>5 DEF PipeIInv, BeforeJoin, Read, fds

\* A write fails only when close() has taken the read end away: of the chunk
\* nobody asks any more.
LEMMA WriteEndsKeep ==
    ASSUME PipeIInv, EnterWrite \/ WriteFails
    PROVE  PipeIInv'
<1>1. <<>> \in Seq(1 .. MaxSent)
  BY EmptySeq
<1>2. CASE EnterWrite
  <2>1. PipeTypeOK'
    BY <1>1, <1>2 DEF PipeIInv, PipeTypeOK, EnterWrite, ReaderAt, ReaderSteps
  <2>2. CASE wfd = "pipe"
    <3>1. (Carried' <=> Carried) /\ Room' = Room
      BY <1>2, <2>2, NothingMoves DEF EnterWrite
    <3>2. QED
      BY <1>2, <2>1, <2>2, <3>1
         DEF PipeIInv, BeforeJoin, AfterJoin, Stuck, EnterWrite, ReaderAt
  <2>3. CASE wfd # "pipe"
    <3>1. rpc = "write" /\ rpc' \in {"loop", "check flag"} /\ chunk' = <<>>
      BY <1>2, <2>3 DEF PipeIInv, PipeTypeOK, EnterWrite, ReaderAt
    <3>2. upc \notin {"idle", "join"} /\ Wedged
      BY <2>3, <3>1, PipeAssumption DEF PipeIInv, PipeTypeOK, UserSteps, BeforeJoin, AfterJoin, Stuck
    <3>3. QED
      BY <1>2, <2>1, <3>1, <3>2 DEF PipeIInv, EnterWrite
  <2>4. QED
    BY <2>2, <2>3
<1>3. CASE WriteFails
  <2>1. PipeTypeOK'
    BY <1>1, <1>3 DEF PipeIInv, PipeTypeOK, WriteFails, ReaderAt, ReaderSteps, fds
  <2>2. QED
    BY <1>3, <2>1
       DEF PipeIInv, BeforeJoin, AfterJoin, Stuck, WriteFails, ReaderAt, fds
<1>4. QED
  BY <1>2, <1>3

\* The rest of the reader's steps, and those of close().
LEMMA ReaderKeeps ==
    ASSUME PipeIInv, Loop \/ BulkTimeout \/ BulkError \/ ReaderCloses
    PROVE  PipeIInv'
<1>1. UNCHANGED bytes /\ PipeTypeOK'
  BY DEF PipeIInv, PipeTypeOK, Loop, BulkTimeout, BulkError, ReaderCloses, ReaderAt,
         CheckFlag, CloseWfd, ReaderSteps, bytes, fds
<1>2. (Carried' <=> Carried) /\ Room' = Room
  BY <1>1, NothingMoves DEF bytes
<1>3. CASE Loop \/ BulkTimeout \/ BulkError
  <2>1. upc' \in {"idle", "join"} => BeforeJoin'
    BY <1>1, <1>2, <1>3 DEF PipeIInv, BeforeJoin, Loop, BulkTimeout, BulkError,
           ReaderAt, bytes, fds
  <2>2. ~Wedged => upc' \in {"idle", "join"} \/ AfterJoin'
    BY <1>1, <1>2, <1>3 DEF PipeIInv, BeforeJoin, AfterJoin, Stuck, Loop, BulkTimeout, BulkError,
           ReaderAt, bytes, fds
  <2>3. chunk' = <<>> /\ ~sawEof' /\ UNCHANGED <<upc, stop>>
    BY <1>1, <1>3 DEF PipeIInv, Loop, BulkTimeout, BulkError, ReaderAt, bytes
  <2>4. QED
    BY <1>1, <2>1, <2>2, <2>3 DEF PipeIInv
<1>4. CASE ReaderCloses
  <2>1. upc' \in {"idle", "join"} => BeforeJoin'
    BY <1>1, <1>2, <1>4 DEF PipeIInv, BeforeJoin, ReaderCloses, ReaderAt,
           CheckFlag, CloseWfd, bytes, fds
  <2>2. ~Wedged => upc' \in {"idle", "join"} \/ AfterJoin'
    <3> SUFFICES ASSUME ~Wedged, upc \notin {"idle", "join"} PROVE AfterJoin'
      BY <1>1, <1>4 DEF ReaderCloses, ReaderAt, CheckFlag, bytes, fds
    <3>1. upc \in {"release", "closed"} /\ rpc = "check flag"
      BY <1>4 DEF PipeIInv, AfterJoin, Stuck, ReaderCloses, ReaderAt, PipeTypeOK, UserSteps
    <3>2. /\ ~harm /\ (released => upc = "closed")
          /\ rfd # "pipe" /\ flag /\ wfd # "pipe"
      BY <3>1 DEF PipeIInv, AfterJoin
    <3>3. rpc' = "done" /\ UNCHANGED <<upc, flag, rfd, wfd, released, harm>>
      BY <1>4, <3>1, <3>2 DEF ReaderCloses, ReaderAt, CheckFlag, fds
    <3>4. QED
      BY <3>1, <3>2, <3>3 DEF AfterJoin
  <2>3. chunk' = <<>> /\ ~sawEof' /\ UNCHANGED <<upc, stop>>
    BY <1>1, <1>4 DEF PipeIInv, ReaderCloses, ReaderAt, bytes
  <2>4. QED
    BY <1>1, <2>1, <2>2, <2>3 DEF PipeIInv
<1>5. QED
  BY <1>3, <1>4

LEMMA CloseKeeps ==
    ASSUME PipeIInv, Close \/ CloseStep
    PROVE  PipeIInv'
<1>1. UNCHANGED <<bytes, rpc>> /\ PipeTypeOK'
  BY DEF PipeIInv, PipeTypeOK, Close, CloseStep, JoinEnds, JoinTimesOut, UserCloses,
         CloseRfd, Release, UserAt, CheckFlag, CloseWfd, UserSteps, bytes, fds
<1>2. (Carried' <=> Carried) /\ Room' = Room
  BY <1>1, NothingMoves DEF bytes
<1>3. CASE Close
  BY <1>1, <1>2, <1>3 DEF PipeIInv, BeforeJoin, AfterJoin, Close, UserAt, bytes, fds
<1>4. CASE JoinEnds \/ JoinTimesOut
  <2>1. upc' \in {"idle", "join"} => BeforeJoin'
    BY <1>1, <1>2, <1>4 DEF PipeIInv, BeforeJoin, JoinEnds, JoinTimesOut,
           UserAt, bytes, fds
  <2>2. ~Wedged => upc' \in {"idle", "join"} \/ AfterJoin'
    BY <1>1, <1>2, <1>4 DEF PipeIInv, BeforeJoin, AfterJoin, Stuck, JoinEnds, JoinTimesOut,
           UserAt, bytes, fds
  <2>3. QED
    BY <1>1, <1>2, <1>4, <2>1, <2>2 DEF PipeIInv, JoinEnds, JoinTimesOut,
           UserAt, bytes, fds
<1>5. CASE UserCloses
  <2>1. upc' \in {"idle", "join"} => BeforeJoin'
    BY <1>1, <1>2, <1>5 DEF PipeIInv, BeforeJoin, UserCloses, UserAt,
           CheckFlag, CloseWfd, bytes, fds
  <2>2. ~Wedged => upc' \in {"idle", "join"} \/ AfterJoin'
    BY <1>1, <1>2, <1>5 DEF PipeIInv, BeforeJoin, AfterJoin, Stuck, UserCloses, UserAt,
           CheckFlag, CloseWfd, bytes, fds
  <2>3. QED
    BY <1>1, <1>2, <1>5, <2>1, <2>2 DEF PipeIInv, UserCloses, UserAt,
           CheckFlag, CloseWfd, bytes, fds
<1>6. CASE CloseRfd \/ Release
  <2>1. upc' \in {"idle", "join"} => BeforeJoin'
    BY <1>1, <1>2, <1>6 DEF PipeIInv, BeforeJoin, CloseRfd, Release,
           UserAt, bytes, fds
  <2>2. ~Wedged => upc' \in {"idle", "join"} \/ AfterJoin'
    BY <1>1, <1>2, <1>6 DEF PipeIInv, BeforeJoin, AfterJoin, Stuck, CloseRfd, Release,
           UserAt, bytes, fds
  <2>3. QED
    BY <1>1, <1>2, <1>6, <2>1, <2>2 DEF PipeIInv, CloseRfd, Release,
           UserAt, bytes, fds
<1>7. QED
  BY <1>3, <1>4, <1>5, <1>6 DEF CloseStep

LEMMA RestKeeps ==
    ASSUME PipeIInv, ReadEof \/ OtherOpens \/ UNCHANGED pipeVars
    PROVE  PipeIInv'
<1>1. UNCHANGED <<sent, pipe, chunk, consumed, rpc, upc, stop>> /\ PipeTypeOK'
  BY DEF PipeIInv, PipeTypeOK, ReadEof, OtherOpens, pipeVars, bytes, fds
<1>2. (Carried' <=> Carried) /\ Room' = Room
  BY <1>1, NothingMoves
<1>3. CASE ReadEof
  <2>1. rpc = "done"
    BY <1>3 DEF PipeIInv, BeforeJoin, ReadEof, WriteEndOpen
  <2>2. Len(consumed) = sent
    <3>1. chunk = <<>> /\ pipe = <<>> /\ consumed \o pipe \o chunk = Upto(sent)
      BY <1>3, <2>1 DEF PipeIInv, BeforeJoin, Carried, ReadEof
    <3>2. consumed \in Seq(1 .. MaxSent) /\ sent \in Nat
      BY PipeSeqs DEF PipeIInv
    <3>3. consumed = Upto(sent)
      BY <3>1, <3>2, ConcatEmptySeq
    <3>4. QED
      BY <3>2, <3>3 DEF Upto
  <2>3. rfd' = rfd /\ UNCHANGED <<flag, wfd, released, harm>>
    BY <1>3 DEF ReadEof, fds
  <2>4. BeforeJoin => BeforeJoin'
    BY <1>1, <1>2, <2>3 DEF BeforeJoin
  <2>5. upc \in {"idle", "join"}
    BY <1>3 DEF ReadEof
  <2>6. QED
    BY <1>1, <1>3, <2>1, <2>2, <2>4, <2>5 DEF PipeIInv, ReadEof
<1>4. CASE OtherOpens
  <2>1. upc' \in {"idle", "join"} => BeforeJoin'
    BY <1>1, <1>2, <1>4 DEF PipeIInv, BeforeJoin, OtherOpens, bytes
  <2>2. ~Wedged => upc' \in {"idle", "join"} \/ AfterJoin'
    BY <1>1, <1>2, <1>4 DEF PipeIInv, BeforeJoin, AfterJoin, Stuck, OtherOpens, bytes
  <2>3. QED
    BY <1>1, <1>2, <1>4, <2>1, <2>2 DEF PipeIInv, OtherOpens, bytes
<1>5. CASE UNCHANGED pipeVars
  <2>1. upc' \in {"idle", "join"} => BeforeJoin'
    BY <1>1, <1>2, <1>5 DEF PipeIInv, BeforeJoin, pipeVars, bytes, fds
  <2>2. ~Wedged => upc' \in {"idle", "join"} \/ AfterJoin'
    BY <1>1, <1>2, <1>5 DEF PipeIInv, BeforeJoin, AfterJoin, Stuck, pipeVars, bytes, fds
  <2>3. QED
    BY <1>1, <1>2, <1>5, <2>1, <2>2 DEF PipeIInv, pipeVars, bytes, fds
<1>6. QED
  BY <1>3, <1>4, <1>5

LEMMA PipeStepHolds == PipeIInv /\ [PipeNext]_pipeVars => PipeIInv'
<1> SUFFICES ASSUME PipeIInv, [PipeNext]_pipeVars PROVE PipeIInv'
  OBVIOUS
<1>1. CASE ReaderStep
  BY <1>1, BulkReadKeeps, WriteKeeps, WriteEndsKeep, ReaderKeeps DEF ReaderStep
<1>2. CASE Read
  BY <1>2, ReadKeeps
<1>3. CASE Close \/ CloseStep
  BY <1>3, CloseKeeps
<1>4. CASE ReadEof \/ OtherOpens \/ Ended \/ UNCHANGED pipeVars
  BY <1>4, RestKeeps DEF Ended
<1>5. QED
  BY <1>1, <1>2, <1>3, <1>4 DEF PipeNext

-----------------------------------------------------------------------------
(* The TCP transport.                                                      *)

Unit == Nat \X {"flag", "body", "trailer", "text", "OK", "ERR"}

\* Until a connection has ended there has been only one, and on it the frames of
\* the peer, behind the reply of a broker.
FirstConnection ==
    /\ conn = "up" /\ pc \notin {"fresh", "accept to read", "accept to write"}
    /\ pc \in {"subscribe", "reply"} =>
          /\ role = "broker" /\ read = <<>>
          /\ \/ offered = 0 /\ wire \in {<<>>, <<Text>>, <<Refused>>}
             \/ wire = <<Accepted>> \o StreamOf(offered)
    /\ pc = "subscribe" => wire = <<>> /\ offered = 0
    /\ pc \notin {"subscribe", "reply", "over"} => read \o wire = StreamOf(offered)

\* The inductive invariant of the TCP transport.
TcpIInv ==
    /\ TcpTypeOK
    /\ {wire, resume, pend, taken, read} \subseteq Seq(Unit)
    /\ taken \o pend = read
    /\ breaks = 0 => FirstConnection

\* The stream grows by a frame.
LEMMA StreamGrows ==
    ASSUME NEW n \in Nat
    PROVE  /\ FrameOf(n) \in Seq(Unit) /\ Len(FrameOf(n)) = 3
           /\ StreamOf(n) \in Seq(Unit)
           /\ StreamOf(n + 1) = StreamOf(n) \o FrameOf(n + 1)
<1>1. ASSUME NEW k \in Nat
      PROVE  FrameOf(k) \in Seq(Unit) /\ Len(FrameOf(k)) = 3
  <2>1. Body(k) \in Unit /\ Trailer(k) \in Unit /\ Flag \in Unit
    BY DEF Body, Trailer, Flag, Unit
  <2>2. Contents(k) \in Seq(Unit)
    BY <2>1 DEF Contents
  <2>3. Len(Contents(k)) = 2
    BY DEF Contents
  <2>4. FrameOf(k) \in Seq(Unit) /\ Len(FrameOf(k)) = Len(Contents(k)) + 1
    BY <2>1, <2>2, AppendProperties DEF FrameOf
  <2>5. QED
    BY <2>3, <2>4
<1>2. \A k \in Nat, i \in 1 .. 3 : FrameOf(k)[i] \in Unit
  BY <1>1, ElementOfSeq
<1>3. ASSUME NEW m \in Nat, NEW i \in 1 .. 3 * m
      PROVE  (i + 2) \div 3 \in 1 .. m /\ 1 + ((i + 2) % 3) \in 1 .. 3
  OBVIOUS
<1>4. ASSUME NEW m \in Nat
      PROVE  /\ StreamOf(m) \in Seq(Unit) /\ Len(StreamOf(m)) = 3 * m
             /\ \A i \in 1 .. 3 * m :
                   StreamOf(m)[i] = FrameOf((i + 2) \div 3)[1 + ((i + 2) % 3)]
  <2>1. \A i \in 1 .. 3 * m : FrameOf((i + 2) \div 3)[1 + ((i + 2) % 3)] \in Unit
    BY <1>2, <1>3
  <2>2. 3 * m \in Nat
    OBVIOUS
  <2> HIDE DEF FrameOf
  <2>3. QED
    BY <2>1, <2>2 DEF StreamOf, UnitAt
<1>5. /\ StreamOf(n) \o FrameOf(n + 1) \in Seq(Unit)
      /\ Len(StreamOf(n) \o FrameOf(n + 1)) = 3 * n + 3
      /\ \A i \in 1 .. 3 * n + 3 : (StreamOf(n) \o FrameOf(n + 1))[i] =
            IF i <= 3 * n THEN StreamOf(n)[i] ELSE FrameOf(n + 1)[i - 3 * n]
  <2> DEFINE s == StreamOf(n)
             t == FrameOf(n + 1)
  <2>1. s \in Seq(Unit) /\ t \in Seq(Unit)
    BY <1>1, <1>4, n + 1 \in Nat
  <2>2. Len(s) = 3 * n /\ Len(t) = 3
    BY <1>1, <1>4, n + 1 \in Nat
  <2> HIDE DEF s, t
  <2>3. /\ s \o t \in Seq(Unit) /\ Len(s \o t) = Len(s) + Len(t)
        /\ \A i \in 1 .. Len(s) + Len(t) :
              (s \o t)[i] = IF i <= Len(s) THEN s[i] ELSE t[i - Len(s)]
    BY <2>1, ConcatProperties
  <2>4. /\ s \o t \in Seq(Unit) /\ Len(s \o t) = 3 * n + 3
        /\ \A i \in 1 .. 3 * n + 3 :
              (s \o t)[i] = IF i <= 3 * n THEN s[i] ELSE t[i - 3 * n]
    BY <2>2, <2>3
  <2>5. QED
    BY <2>4 DEF s, t
<1>6. ASSUME NEW i \in 1 .. 3 * n + 3
      PROVE  StreamOf(n + 1)[i] = (StreamOf(n) \o FrameOf(n + 1))[i]
  <2>1. StreamOf(n + 1)[i] = FrameOf((i + 2) \div 3)[1 + ((i + 2) % 3)]
    BY <1>4
  <2>2. CASE i <= 3 * n
    <3>1. i \in 1 .. 3 * n
      BY <2>2
    <3>2. QED
      BY <1>4, <1>5, <2>1, <2>2, <3>1
  <2>3. CASE i > 3 * n
    <3>1. (i + 2) \div 3 = n + 1 /\ 1 + ((i + 2) % 3) = i - 3 * n
      BY <2>3
    <3>2. QED
      BY <1>5, <2>1, <2>3, <3>1
  <2>4. i <= 3 * n \/ i > 3 * n
    OBVIOUS
  <2>5. QED
    BY <2>2, <2>3, <2>4
<1>7. StreamOf(n + 1) \in Seq(Unit) /\ Len(StreamOf(n + 1)) = 3 * n + 3
  BY <1>4, n + 1 \in Nat, 3 * (n + 1) = 3 * n + 3
<1>8. StreamOf(n + 1) = StreamOf(n) \o FrameOf(n + 1)
  BY <1>5, <1>6, <1>7, SeqEqual
<1>9. QED
  BY <1>1, <1>4, <1>8

\* Behind an accepting reply stands nothing but the stream.
LEMMA BehindTheReply ==
    ASSUME NEW n \in Nat
    PROVE  /\ Head(<<Accepted>> \o StreamOf(n)) = Accepted
           /\ Tail(<<Accepted>> \o StreamOf(n)) = StreamOf(n)
           /\ <<Accepted>> \o StreamOf(n) # <<>>
           /\ <<Accepted>> \o StreamOf(n) \in Seq(Unit)
           /\ (<<Accepted>> \o StreamOf(n)) \o FrameOf(n + 1) = <<Accepted>> \o StreamOf(n + 1)
<1> DEFINE s == StreamOf(n)
           f == FrameOf(n + 1)
<1>1. s \in Seq(Unit) /\ f \in Seq(Unit) /\ StreamOf(n + 1) = s \o f
  BY StreamGrows, n + 1 \in Nat
<1>2. Accepted \in Unit
  BY DEF Accepted, Unit
<1> HIDE DEF s, f
<1>3. <<Accepted>> \in Seq(Unit)
  BY <1>2
<1>4. (<<Accepted>> \o s) \o f = <<Accepted>> \o (s \o f)
  BY <1>1, <1>3, ConcatAssociative
<1>5. Head(<<Accepted>> \o s) = Accepted /\ <<Accepted>> \o s # <<>>
  BY <1>1, <1>3
<1>6. <<Accepted>> \o s \in Seq(Unit)
  BY <1>1, <1>3, ConcatProperties
<1>7. Tail(<<Accepted>> \o s) = s
  BY <1>1, <1>3, <1>6
<1>8. (<<Accepted>> \o s) \o f = <<Accepted>> \o StreamOf(n + 1)
  BY <1>1, <1>4
<1>9. QED
  BY <1>5, <1>6, <1>7, <1>8 DEF s, f

LEMMA TcpBounds == LineMax \in Nat /\ MaxFrames \in Nat /\ MaxBreaks \in Nat
  BY TcpAssumption

LEMMA TcpInitHolds == TcpInit => TcpIInv
<1> SUFFICES ASSUME TcpInit PROVE TcpIInv
  OBVIOUS
<1>1. TcpTypeOK
  <2>1. 0 \in 0 .. LineMax + 1 /\ 0 \in 0 .. MaxFrames /\ 0 \in 0 .. MaxFrames - 0
        /\ 0 \in 0 .. MaxBreaks
    BY TcpBounds
  <2>2. QED
    BY <2>1 DEF TcpInit, TcpTypeOK
<1>2. <<>> \in Seq(Unit) /\ <<>> \o <<>> = <<>>
  BY EmptySeq, ConcatEmptySeq
<1>3. StreamOf(0) = <<>>
  BY DEF StreamOf, UnitAt
<1>4. FirstConnection
  BY <1>2, <1>3 DEF TcpInit, FirstConnection
<1>5. QED
  BY <1>1, <1>2, <1>4 DEF TcpInit, TcpIInv

\* What the invariant says of the sequences, and of the counts.
LEMMA TcpSeqs ==
    ASSUME TcpIInv
    PROVE  /\ wire \in Seq(Unit) /\ resume \in Seq(Unit) /\ pend \in Seq(Unit)
           /\ taken \in Seq(Unit) /\ read \in Seq(Unit)
  BY DEF TcpIInv

LEMMA TcpCounts ==
    ASSUME TcpIInv
    PROVE  /\ offered \in Nat /\ wrote \in Nat /\ breaks \in Nat
           /\ offered + wrote < MaxFrames =>
                 /\ offered + 1 \in 0 .. MaxFrames /\ wrote \in 0 .. MaxFrames - (offered + 1)
                 /\ wrote + 1 \in 0 .. MaxFrames - offered
           /\ breaks < MaxBreaks => breaks + 1 \in 0 .. MaxBreaks /\ breaks + 1 # 0
<1>1. /\ offered \in 0 .. MaxFrames /\ wrote \in 0 .. MaxFrames - offered
      /\ breaks \in 0 .. MaxBreaks
  BY DEF TcpIInv, TcpTypeOK
<1>2. QED
  BY <1>1, TcpBounds

\* A unit of the broker's reply.
LEMMA ReplyByteKeeps ==
    ASSUME TcpIInv, ReplyByte
    PROVE  TcpIInv'
<1>1. wire # <<>> /\ wire' = Tail(wire) /\ pc = "reply"
      /\ pc' \in {"reply", "over", "idle"}
      /\ UNCHANGED <<role, conn, resume, offered, breaks, late, pend, tail, taken, read, wrote>>
  BY DEF ReplyByte, TakeOne, At
<1>2. wire' \in Seq(Unit)
  BY <1>1, TcpSeqs, HeadTailProperties
<1>3. line' \in 0 .. LineMax + 1
  <2>1. line \in 0 .. LineMax + 1
    BY DEF TcpIInv, TcpTypeOK
  <2>2. line' = line \/ line' = IF line > LineMax THEN line ELSE line + 1
    BY DEF ReplyByte
  <2>3. QED
    BY <2>1, <2>2, TcpBounds
<1>4. TcpTypeOK'
  BY <1>1, <1>3 DEF TcpIInv, TcpTypeOK
<1>5. ASSUME breaks = 0
      PROVE  FirstConnection'
  <2>1. FirstConnection /\ read = <<>> /\ role = "broker"
    BY <1>1, <1>5 DEF TcpIInv, FirstConnection
  <2>2. CASE wire = <<Accepted>> \o StreamOf(offered)
    <3>1. Head(wire) = Accepted /\ wire' = StreamOf(offered)
      BY <1>1, <2>2, TcpSeqs, TcpCounts, BehindTheReply
    <3>2. pc' = "idle"
      BY <3>1 DEF ReplyByte, At, Accepted, Text
    <3>3. read' \o wire' = StreamOf(offered')
      BY <1>1, <1>2, <2>1, <3>1, ConcatEmptySeq
    <3>4. QED
      BY <1>1, <2>1, <3>2, <3>3 DEF FirstConnection
  <2>3. CASE offered = 0 /\ wire \in {<<Text>>, <<Refused>>}
    <3>1. Head(wire) \in {Text, Refused} /\ wire' = <<>>
      BY <1>1, <2>3
    <3>2. pc' \in {"reply", "over"}
      BY <3>1 DEF ReplyByte, At, Accepted, Text, Refused
    <3>3. QED
      BY <1>1, <2>1, <2>3, <3>1, <3>2 DEF FirstConnection
  <2>4. QED
    BY <1>1, <2>1, <2>2, <2>3 DEF FirstConnection
<1>6. QED
  BY <1>1, <1>2, <1>4, <1>5 DEF TcpIInv

\* A read moves the front of the wire to the end of _pend.
LEMMA SocketReadKeeps ==
    ASSUME TcpIInv, ReadMore \/ FreshRead
    PROVE  TcpIInv'
<1>1. PICK n \in 1 .. Len(wire) :
          /\ pend' = pend \o SubSeq(wire, 1, n)
          /\ read' = read \o SubSeq(wire, 1, n)
          /\ wire' = SubSeq(wire, n + 1, Len(wire))
  BY DEF ReadMore, FreshRead, SocketRead
<1>2. /\ UNCHANGED <<role, conn, resume, offered, breaks, late, tail, line, taken, wrote>>
      /\ pc \in {"recv", "fresh"} /\ pc' = "recv"
  BY DEF ReadMore, FreshRead, SocketRead, Reading
<1>3. wire \in Seq(Unit) /\ n \in 0 .. Len(wire)
  BY TcpSeqs
<1> DEFINE w == SubSeq(wire, 1, n)
<1>4. w \in Seq(Unit) /\ wire' \in Seq(Unit)
  BY <1>1, <1>3, CutInTwo
<1>5. read' \o wire' = read \o wire
  BY <1>1, <1>3, TcpSeqs, FrontMoves
<1> HIDE DEF w
<1>6. (taken \o pend) \o w = taken \o (pend \o w)
  <2>1. taken \in Seq(Unit) /\ pend \in Seq(Unit)
    BY TcpSeqs
  <2>2. QED
    BY SMTT(30), <1>4, <2>1, ConcatAssociative
<1>7. taken' \o pend' = read'
  BY <1>1, <1>2, <1>6 DEF TcpIInv, w
<1>8. pend' \in Seq(Unit) /\ read' \in Seq(Unit)
  BY <1>1, <1>4, TcpSeqs, ConcatProperties DEF w
<1>9. TcpTypeOK'
  BY <1>2 DEF TcpIInv, TcpTypeOK
<1>10. FirstConnection => FirstConnection'
  BY <1>2, <1>5 DEF FirstConnection
<1>11. QED
  BY <1>2, <1>4, <1>7, <1>8, <1>9, <1>10 DEF TcpIInv

\* The first delimiter of _pend is one of its units.
LEMMA FirstFlag ==
    ASSUME NEW s \in Seq(Unit), Contains(s, Flag)
    PROVE  LET n == SelectInSeq(s, LAMBDA u : u = Flag)
           IN  n \in 1 .. Len(s) /\ s[n] = Flag
<1> DEFINE I == {i \in 1 .. Len(s) : s[i] = Flag}
<1>1. I \subseteq Nat /\ I # {}
  BY DEF Contains
<1>2. Min(I) \in I
  BY <1>1, MinIsLeast
<1>3. QED
  BY <1>1, <1>2 DEF SelectInSeq

\* recv() takes the first frame off _pend, delimiter and all.
LEMMA TakeFrameKeeps ==
    ASSUME TcpIInv, TakeFrame
    PROVE  TcpIInv'
<1> DEFINE n == SelectInSeq(pend, LAMBDA u : u = Flag)
<1>1. n \in 1 .. Len(pend) /\ pend[n] = Flag
  BY TcpSeqs, FirstFlag DEF TakeFrame, HasFrame
<1>2. /\ taken' = taken \o Append(SubSeq(pend, 1, n - 1), Flag)
      /\ pend' = SubSeq(pend, n + 1, Len(pend))
      /\ pc = "recv" /\ pc' \in {"recv", "over", "idle"}
      /\ UNCHANGED <<role, net, late, tail, line, read, wrote>>
  BY DEF TakeFrame, At
<1> HIDE DEF n
<1>3. pend \in Seq(Unit) /\ Len(pend) \in Nat /\ n \in Nat
  BY <1>1, TcpSeqs
<1>4. Append(SubSeq(pend, 1, n - 1), Flag) = SubSeq(pend, 1, n)
  <2>1. SubSeq(pend, 1, n) = SubSeq(pend, 1, n - 1) \o <<pend[n]>>
    BY <1>1, <1>3, SubSeqRecursiveSecond, 1 \in 1 .. Len(pend), n \in 1 .. Len(pend)
  <2>2. SubSeq(pend, 1, n - 1) \in Seq(Unit)
    BY <1>1, <1>3, CutInTwo, n - 1 \in 0 .. Len(pend)
  <2>3. Flag \in Unit
    BY DEF Flag, Unit
  <2>4. Append(SubSeq(pend, 1, n - 1), Flag) = SubSeq(pend, 1, n - 1) \o <<Flag>>
    BY <2>2, <2>3, AppendIsConcat
  <2>5. QED
    BY <1>1, <2>1, <2>4
<1>5. taken' \o pend' = taken \o pend
  BY <1>1, <1>2, <1>3, <1>4, TcpSeqs, FrontMoves, n \in 0 .. Len(pend)
<1>6. taken' \in Seq(Unit) /\ pend' \in Seq(Unit)
  <2>1. SubSeq(pend, 1, n) \in Seq(Unit) /\ SubSeq(pend, n + 1, Len(pend)) \in Seq(Unit)
    BY <1>1, <1>3, CutInTwo, n \in 0 .. Len(pend)
  <2>2. QED
    BY <1>2, <1>4, <2>1, TcpSeqs, ConcatProperties
<1>7. TcpTypeOK'
  BY <1>2 DEF TcpIInv, TcpTypeOK, net
<1>8. FirstConnection => FirstConnection'
  BY <1>2 DEF FirstConnection, net
<1>9. QED
  BY <1>2, <1>5, <1>6, <1>7, <1>8 DEF TcpIInv, net

\* The rest of what the client does leaves what was read alone.
LEMMA ClientKeeps ==
    ASSUME TcpIInv,
           \/ Subscribe \/ NoReply \/ Recv \/ RecvTimesOut \/ ReadFails \/ FreshFails
           \/ AcceptTimesOut \/ StartWrite \/ Send \/ SendFails \/ DeadlinePasses
    PROVE  TcpIInv'
<1>1. UNCHANGED <<role, conn, wire, resume, offered, breaks, pend, line, taken, read>>
  BY DEF Subscribe, NoReply, Recv, RecvTimesOut, ReadFails, FreshFails, AcceptTimesOut,
         StartWrite, Send, SendFails, DeadlinePasses, net, host
<1>2. TcpTypeOK'
  <2>1. CASE StartWrite
    BY <1>1, <2>1, TcpCounts DEF TcpIInv, TcpTypeOK, StartWrite, At
  <2>2. CASE Send
    <3>1. late' = late /\ wrote' = wrote /\ pc' \in {"idle", "write"}
          /\ (tail' # <<>> => pc' = "write")
      BY <2>2 DEF Send, At
    <3>2. QED
      BY <1>1, <3>1 DEF TcpIInv, TcpTypeOK
  <2>3. CASE DeadlinePasses \/ Recv \/ RecvTimesOut
    BY <1>1, <2>3 DEF TcpIInv, TcpTypeOK, DeadlinePasses, Recv, RecvTimesOut, At
  <2>4. CASE \/ Subscribe \/ NoReply \/ ReadFails \/ FreshFails \/ AcceptTimesOut
             \/ SendFails
    <3>1. UNCHANGED <<late, tail, wrote>>
      BY <2>4 DEF Subscribe, NoReply, ReadFails, FreshFails, AcceptTimesOut, SendFails, net
    <3>2. pc' \in {"reply", "accept to read", "accept to write", "over"}
      BY <2>4 DEF Subscribe, NoReply, ReadFails, FreshFails, AcceptTimesOut, SendFails, At
    <3>3. pc' \in {"reply", "accept to read"} => tail = <<>>
      BY <2>4 DEF TcpIInv, TcpTypeOK, Subscribe, NoReply, ReadFails, FreshFails,
             AcceptTimesOut, SendFails, At, Reading
    <3>4. QED
      BY <1>1, <3>1, <3>2, <3>3 DEF TcpIInv, TcpTypeOK
  <2>5. QED
    BY <2>1, <2>2, <2>3, <2>4
<1>3. breaks = 0 => FirstConnection'
  BY <1>1 DEF TcpIInv, FirstConnection, Subscribe, NoReply, Recv, RecvTimesOut, ReadFails,
         FreshFails, AcceptTimesOut, StartWrite, Send, SendFails, DeadlinePasses, At, AtEnd
<1>4. QED
  BY <1>1, <1>2, <1>3 DEF TcpIInv

\* The peer's next frame stands at the end of the wire.
LEMMA PeerSendsKeeps ==
    ASSUME TcpIInv, PeerSends
    PROVE  TcpIInv'
<1>1. /\ wire' = wire \o FrameOf(offered + 1) /\ offered' = offered + 1
      /\ UNCHANGED <<role, conn, resume, breaks, host>>
      /\ ~Replying /\ ~Contains(wire, Refused) /\ offered + wrote < MaxFrames
  BY DEF PeerSends
<1>2. FrameOf(offered + 1) \in Seq(Unit) /\ offered \in Nat
  <2>1. offered \in Nat /\ offered + 1 \in Nat
    BY TcpCounts
  <2>2. QED
    BY <2>1, StreamGrows
<1>3. wire' \in Seq(Unit)
  BY <1>1, <1>2, TcpSeqs, ConcatProperties
<1>4. TcpTypeOK'
  BY <1>1, TcpCounts DEF TcpIInv, TcpTypeOK, host
<1>5. ASSUME FirstConnection
      PROVE  FirstConnection'
  <2>1. CASE pc \in {"subscribe", "reply"}
    <3>1. Contains(wire, Accepted) /\ role = "broker"
      BY <1>1, <1>5, <2>1 DEF FirstConnection, Replying
    <3>2. wire # <<>> /\ wire # <<Text>> /\ wire # <<Refused>>
      BY <3>1 DEF Contains, Accepted, Text, Refused
    <3>3. wire = <<Accepted>> \o StreamOf(offered) /\ pc # "subscribe"
      BY <1>5, <2>1, <3>2 DEF FirstConnection
    <3>4. wire' = <<Accepted>> \o StreamOf(offered')
      BY <1>1, <1>2, <3>3, BehindTheReply
    <3>5. QED
      BY <1>1, <1>5, <2>1, <3>3, <3>4 DEF FirstConnection, host
  <2>2. CASE pc \notin {"subscribe", "reply", "over"}
    <3>1. (read \o wire) \o FrameOf(offered + 1) = read \o (wire \o FrameOf(offered + 1))
      <4>1. read \in Seq(Unit) /\ wire \in Seq(Unit)
        BY TcpSeqs
      <4>2. QED
        BY <1>2, <4>1, ConcatAssociative
    <3>2. read \o wire' = StreamOf(offered')
      BY <1>1, <1>2, <1>5, <2>2, <3>1, StreamGrows DEF FirstConnection
    <3>3. QED
      BY <1>1, <1>5, <2>2, <3>2 DEF FirstConnection, host
  <2>3. CASE pc = "over"
    BY <1>1, <1>5, <2>3 DEF FirstConnection, host
  <2>4. QED
    BY <2>1, <2>2, <2>3
<1>6. QED
  BY <1>1, <1>3, <1>4, <1>5 DEF TcpIInv, host

\* The other steps of the peer.
LEMMA PeerKeeps ==
    ASSUME TcpIInv, Accept \/ PeerReplies \/ PeerReads \/ Break
    PROVE  TcpIInv'
<1>1. CASE Accept
  <2>1. TcpTypeOK' /\ breaks' # 0
    BY <1>1 DEF TcpIInv, TcpTypeOK, FirstConnection, Accept, At
  <2>2. <<>> \in Seq(Unit)
    BY EmptySeq
  <2>3. QED
    BY <1>1, <2>1, <2>2 DEF TcpIInv, Accept
<1>2. CASE PeerReplies
  <2>1. /\ wire = <<>> /\ wire' \in {<<Text>>, <<Accepted>>, <<Refused>>}
        /\ role = "broker" /\ pc = "reply"
        /\ UNCHANGED <<role, conn, resume, out, reached, offered, breaks, host>>
    BY <1>2 DEF PeerReplies, Replying
  <2>2. {<<Text>>, <<Accepted>>, <<Refused>>} \subseteq Seq(Unit)
    BY DEF Text, Accepted, Refused, Unit
  <2>3. FirstConnection => FirstConnection'
    <3>1. StreamOf(0) = <<>> /\ <<Accepted>> \in Seq(Unit)
      BY <2>2 DEF StreamOf, UnitAt
    <3>2. <<Accepted>> = <<Accepted>> \o StreamOf(0)
      BY <3>1, ConcatEmptySeq
    <3>3. FirstConnection => offered = 0
      BY <2>1, BehindTheReply, TcpCounts DEF FirstConnection
    <3>4. QED
      BY <2>1, <3>2, <3>3 DEF FirstConnection, host
  <2>4. QED
    BY <2>1, <2>2, <2>3 DEF TcpIInv, TcpTypeOK, host
<1>3. CASE PeerReads
  BY <1>3 DEF TcpIInv, TcpTypeOK, FirstConnection, PeerReads, host
<1>4. CASE Break
  <2>1. PICK i \in 0 .. Len(wire) :
           /\ wire' = SubSeq(wire, 1, i)
           /\ \E k \in 0 .. 3 :
                 /\ k <= Len(SubSeq(wire, i + 1, Len(wire)))
                 /\ resume' = SubSeq(SubSeq(wire, i + 1, Len(wire)),
                                     Len(SubSeq(wire, i + 1, Len(wire))) - k + 1,
                                     Len(SubSeq(wire, i + 1, Len(wire))))
    BY <1>4 DEF Break
  <2> DEFINE gone == SubSeq(wire, i + 1, Len(wire))
  <2>2. wire' \in Seq(Unit) /\ gone \in Seq(Unit)
    BY <2>1, TcpSeqs, CutInTwo
  <2>3. PICK k \in 0 .. 3 : k <= Len(gone) /\ resume' = SubSeq(gone, Len(gone) - k + 1, Len(gone))
    BY <2>1
  <2> HIDE DEF gone
  <2>4. resume' \in Seq(Unit)
    <3>1. Len(gone) - k \in 0 .. Len(gone)
      BY <2>2, <2>3, LenProperties
    <3>2. QED
      BY <2>2, <2>3, <3>1, CutInTwo
  <2>5. TcpTypeOK' /\ breaks' # 0
    BY <1>4, TcpCounts DEF TcpIInv, TcpTypeOK, Break, host
  <2>6. QED
    BY <1>4, <2>2, <2>4, <2>5 DEF TcpIInv, Break, host
<1>5. QED
  BY <1>1, <1>2, <1>3, <1>4

LEMMA TcpStepHolds == TcpIInv /\ [TcpNext]_tcpVars => TcpIInv'
<1> SUFFICES ASSUME TcpIInv, [TcpNext]_tcpVars PROVE TcpIInv'
  OBVIOUS
<1>1. CASE ClientStep \/ Recv \/ StartWrite \/ DeadlinePasses
  BY <1>1, ReplyByteKeeps, SocketReadKeeps, TakeFrameKeeps, ClientKeeps DEF ClientStep
<1>2. CASE PeerStep
  BY <1>2, PeerSendsKeeps, PeerKeeps DEF PeerStep
<1>3. CASE Over \/ UNCHANGED tcpVars
  BY <1>3 DEF Over, TcpIInv, TcpTypeOK, FirstConnection, tcpVars, net, host
<1>4. QED
  BY <1>1, <1>2, <1>3 DEF TcpNext

-----------------------------------------------------------------------------
(* A stream of frames with places left out.                                *)

Places == Nat \ {0}

\* Where a list of places does not go on with the next place.
Jumps(p, m) == {i \in 1 .. m : p[i] # 1 + (IF i = 1 THEN 0 ELSE p[i - 1])}

\* The units of s stand at the places p, in order, and place a is still to come.
Located(s, p, a) ==
    /\ p \in [1 .. Len(s) + 1 -> Places]
    /\ \A i, j \in 1 .. Len(s) + 1 : i < j => p[i] < p[j]
    /\ \A i \in 1 .. Len(s) : s[i] = UnitAt(p[i])
    /\ p[Len(s) + 1] = a

\* s is of that stream up to place a, with at most n gaps.
Gappy(s, a, n) ==
    /\ s \in Seq(Unit)
    /\ \E p : Located(s, p, a) /\ Cardinality(Jumps(p, Len(s) + 1)) <= n

LEMMA UnitPlaces ==
    ASSUME NEW q \in Nat
    PROVE  /\ UnitAt(3 * q + 1) = Body(q + 1)
           /\ UnitAt(3 * q + 2) = Trailer(q + 1)
           /\ UnitAt(3 * q + 3) = Flag
<1>1. /\ ((3 * q + 1) + 2) \div 3 = q + 1 /\ 1 + (((3 * q + 1) + 2) % 3) = 1
      /\ ((3 * q + 2) + 2) \div 3 = q + 1 /\ 1 + (((3 * q + 2) + 2) % 3) = 2
      /\ ((3 * q + 3) + 2) \div 3 = q + 1 /\ 1 + (((3 * q + 3) + 2) % 3) = 3
  OBVIOUS
<1>2. /\ FrameOf(q + 1)[1] = Body(q + 1) /\ FrameOf(q + 1)[2] = Trailer(q + 1)
      /\ FrameOf(q + 1)[3] = Flag
  BY DEF FrameOf, Contents
<1> HIDE DEF FrameOf
<1>3. QED
  BY <1>1, <1>2 DEF UnitAt

\* Every place is one of the three of a frame.
LEMMA PlaceInFrame ==
    ASSUME NEW p \in Places
    PROVE  \E q \in Nat : p = 3 * q + 1 \/ p = 3 * q + 2 \/ p = 3 * q + 3
<1>1. p - 1 \in Int /\ 3 \in Nat \ {0} /\ p \in Nat /\ p # 0
  BY DEF Places
<1>2. PICK q \in Int, r \in 0 .. 3 - 1 : p - 1 = 3 * q + r /\ (p - 1) % 3 = r
  BY <1>1, DivMod
<1>3. q \in Nat /\ (p = 3 * q + 1 \/ p = 3 * q + 2 \/ p = 3 * q + 3)
  BY <1>1, <1>2
<1>4. QED
  BY <1>3

\* A unit tells what its place is in the frame, and that of its body which frame.
LEMMA PlaceOfUnit ==
    ASSUME NEW p \in Places
    PROVE  /\ UnitAt(p) \in Unit
           /\ UnitAt(p) = Flag => \E q \in Nat : p = 3 * q + 3
           /\ \A k : UnitAt(p) = Body(k) => k \in Nat /\ p + 2 = 3 * k
<1>1. PICK q \in Nat : p = 3 * q + 1 \/ p = 3 * q + 2 \/ p = 3 * q + 3
  BY PlaceInFrame
<1>2. CASE p = 3 * q + 1
  <2>1. UnitAt(p) = <<q + 1, "body">>
    BY <1>2, UnitPlaces DEF Body
  <2>2. \A k : Body(k) = UnitAt(p) => k = q + 1
    BY <2>1 DEF Body
  <2>3. p + 2 = 3 * (q + 1)
    BY <1>2
  <2>4. QED
    BY <2>1, <2>2, <2>3 DEF Flag, Unit
<1>3. CASE p = 3 * q + 2
  <2>1. UnitAt(p) = <<q + 1, "trailer">>
    BY <1>3, UnitPlaces DEF Trailer
  <2>2. QED
    BY <2>1 DEF Flag, Unit, Body
<1>4. CASE p = 3 * q + 3
  <2>1. UnitAt(p) = <<0, "flag">>
    BY <1>4, UnitPlaces DEF Flag
  <2>2. QED
    BY <1>4, <2>1 DEF Flag, Unit, Body
<1>5. QED
  BY <1>1, <1>2, <1>3, <1>4

LEMMA SegmentIs ==
    ASSUME NEW a \in Places, NEW k \in Nat
    PROVE  /\ Segment(a, k) \in Seq(Unit) /\ Len(Segment(a, k)) = k
           /\ \A i \in 1 .. k : Segment(a, k)[i] = UnitAt(a + i - 1)
<1>1. \A i \in 1 .. k : a + i - 1 \in Places
  BY DEF Places
<1>2. \A i \in 1 .. k : UnitAt(a + i - 1) \in Unit
  BY <1>1, PlaceOfUnit
<1> HIDE DEF UnitAt
<1>3. QED
  BY <1>2 DEF Segment

\* Cutting a segment.
LEMMA SegmentCut ==
    ASSUME NEW a \in Places, NEW k \in Nat, NEW i \in 0 .. k
    PROVE  /\ SubSeq(Segment(a, k), 1, i) = Segment(a, i)
           /\ SubSeq(Segment(a, k), i + 1, k) = Segment(a + i, k - i)
<1> DEFINE s == Segment(a, k)
<1>1. /\ s \in Seq(Unit) /\ Len(s) = k
      /\ \A j \in 1 .. k : s[j] = UnitAt(a + j - 1)
  BY SegmentIs
<1>2. /\ i \in Nat /\ k - i \in Nat /\ a \in Nat /\ a + i \in Places
      /\ \A j \in 1 .. k : s[j] \in Unit
  BY <1>1, ElementOfSeq DEF Places
<1> HIDE DEF s, UnitAt
<1>3. /\ SubSeq(s, 1, i) \in Seq(Unit) /\ Len(SubSeq(s, 1, i)) = i
      /\ \A j \in 1 .. i : SubSeq(s, 1, i)[j] = s[j]
  <2>1. \A j \in 1 .. i : s[j] \in Unit
    BY <1>2
  <2>2. /\ SubSeq(s, 1, i) \in Seq(Unit)
        /\ Len(SubSeq(s, 1, i)) = IF 1 <= i THEN i - 1 + 1 ELSE 0
        /\ \A j \in 1 .. i - 1 + 1 : SubSeq(s, 1, i)[j] = s[1 + j - 1]
    BY <1>2, <2>1, SubSeqProperties
  <2>3. QED
    BY <1>2, <2>2
<1>4. /\ SubSeq(s, i + 1, k) \in Seq(Unit) /\ Len(SubSeq(s, i + 1, k)) = k - i
      /\ \A j \in 1 .. k - i : SubSeq(s, i + 1, k)[j] = s[i + j]
  <2>1. (\A j \in i + 1 .. k : s[j] \in Unit) /\ i + 1 \in Int
    BY <1>2
  <2>2. /\ SubSeq(s, i + 1, k) \in Seq(Unit)
        /\ Len(SubSeq(s, i + 1, k)) = IF i + 1 <= k THEN k - (i + 1) + 1 ELSE 0
        /\ \A j \in 1 .. k - (i + 1) + 1 : SubSeq(s, i + 1, k)[j] = s[(i + 1) + j - 1]
    BY <1>2, <2>1, SubSeqProperties
  <2>3. k - (i + 1) + 1 = k - i /\ (IF i + 1 <= k THEN k - (i + 1) + 1 ELSE 0) = k - i
        /\ \A j \in 1 .. k - i : (i + 1) + j - 1 = i + j
    BY <1>2
  <2>4. QED
    BY <2>2, <2>3
<1>5. SubSeq(s, 1, i) = Segment(a, i)
  <2>1. /\ Segment(a, i) \in Seq(Unit) /\ Len(Segment(a, i)) = i
        /\ \A j \in 1 .. i : Segment(a, i)[j] = UnitAt(a + j - 1)
    BY <1>2, SegmentIs
  <2>2. \A j \in 1 .. i : SubSeq(s, 1, i)[j] = Segment(a, i)[j]
    BY <1>1, <1>2, <1>3, <2>1
  <2>3. QED
    BY <1>3, <2>1, <2>2, SeqEqual
<1>6. SubSeq(s, i + 1, k) = Segment(a + i, k - i)
  <2>1. /\ Segment(a + i, k - i) \in Seq(Unit) /\ Len(Segment(a + i, k - i)) = k - i
        /\ \A j \in 1 .. k - i : Segment(a + i, k - i)[j] = UnitAt((a + i) + j - 1)
    BY <1>2, SegmentIs
  <2>2. ASSUME NEW j \in 1 .. k - i
        PROVE  SubSeq(s, i + 1, k)[j] = Segment(a + i, k - i)[j]
    <3>1. i + j \in 1 .. k /\ a + (i + j) - 1 = (a + i) + j - 1
      BY <1>2
    <3>2. s[i + j] = UnitAt((a + i) + j - 1)
      BY <1>1, <3>1
    <3>3. QED
      BY <1>4, <2>1, <3>2
  <2>3. QED
    BY <1>4, <2>1, <2>2, SeqEqual
<1>7. QED
  BY <1>5, <1>6 DEF s

\* Joining two that follow each other.
LEMMA SegmentJoin ==
    ASSUME NEW a \in Places, NEW k \in Nat, NEW j \in Nat
    PROVE  Segment(a, k) \o Segment(a + k, j) = Segment(a, k + j)
<1>1. k + j \in Nat /\ k \in 0 .. k + j /\ (k + j) - k = j
  OBVIOUS
<1>2. Segment(a, k + j) \in Seq(Unit) /\ Len(Segment(a, k + j)) = k + j
  BY <1>1, SegmentIs
<1> DEFINE s == Segment(a, k + j)
<1>3. s = SubSeq(s, 1, k) \o SubSeq(s, k + 1, k + j)
  <2>1. s \in Seq(Unit) /\ k \in 0 .. Len(s) /\ Len(s) = k + j
    BY <1>1, <1>2
  <2> HIDE DEF s
  <2>2. s = SubSeq(s, 1, k) \o SubSeq(s, k + 1, Len(s))
    BY <2>1, CutInTwo
  <2>3. QED
    BY <2>1, <2>2
<1>4. SubSeq(s, 1, k) = Segment(a, k) /\ SubSeq(s, k + 1, k + j) = Segment(a + k, (k + j) - k)
  BY <1>1, SegmentCut
<1> HIDE DEF s
<1>5. s = Segment(a, k) \o Segment(a + k, j)
  BY <1>1, <1>3, <1>4
<1>6. QED
  BY <1>5 DEF s

\* A frame is the segment of its three places.
LEMMA FrameIsSegment ==
    ASSUME NEW n \in Nat
    PROVE  FrameOf(n + 1) = Segment(3 * n + 1, 3)
<1> DEFINE f == FrameOf(n + 1)
           s == Segment(3 * n + 1, 3)
<1>1. f[1] = Body(n + 1) /\ f[2] = Trailer(n + 1) /\ f[3] = Flag
  BY DEF FrameOf, Contents
<1>2. /\ (3 * n + 1) + 1 - 1 = 3 * n + 1 /\ (3 * n + 1) + 2 - 1 = 3 * n + 2
      /\ (3 * n + 1) + 3 - 1 = 3 * n + 3
  OBVIOUS
<1>3. 3 * n + 1 \in Places /\ 3 \in Nat /\ n + 1 \in Nat
  BY DEF Places
<1>4. /\ s \in Seq(Unit) /\ Len(s) = 3
      /\ \A i \in 1 .. 3 : s[i] = UnitAt((3 * n + 1) + i - 1)
  BY <1>3, SegmentIs
<1>5. f \in Seq(Unit) /\ Len(f) = 3
  BY <1>3, StreamGrows
<1> HIDE DEF s, f
<1>6. s[1] = Body(n + 1) /\ s[2] = Trailer(n + 1) /\ s[3] = Flag
  BY <1>2, <1>4, UnitPlaces, 1 \in 1 .. 3, 2 \in 1 .. 3, 3 \in 1 .. 3
<1>7. \A i \in 1 .. 3 : f[i] = s[i]
  <2>1. \A i \in 1 .. 3 : i = 1 \/ i = 2 \/ i = 3
    OBVIOUS
  <2>2. QED
    BY <1>1, <1>6, <2>1
<1>8. f = s
  BY <1>4, <1>5, <1>7, SeqEqual
<1>9. QED
  BY <1>8 DEF s, f

LEMMA JumpsFinite ==
    ASSUME NEW p, NEW m \in Nat
    PROVE  IsFiniteSet(Jumps(p, m)) /\ Cardinality(Jumps(p, m)) \in Nat
<1>1. IsFiniteSet(1 .. m)
  BY FS_Interval, 1 \in Int, m \in Int
<1>2. Jumps(p, m) \in SUBSET (1 .. m)
  BY DEF Jumps
<1>3. IsFiniteSet(Jumps(p, m))
  BY <1>1, <1>2, FS_Subset
<1>4. QED
  BY <1>3, FS_CardinalityType

\* Nothing of the stream has come.
LEMMA GappyAtFirst == Gappy(<<>>, 1, 0)
<1> DEFINE p == [i \in 1 .. 1 |-> 1]
<1>1. Len(<<>>) = 0 /\ 0 + 1 = 1 /\ <<>> \in Seq(Unit)
  BY EmptySeq
<1>2. p \in [1 .. 1 -> Places] /\ p[1] = 1
  BY DEF Places
<1> HIDE DEF p
<1>3. Located(<<>>, p, 1)
  BY <1>1, <1>2 DEF Located
<1>4. Jumps(p, 1) = {}
  BY <1>2 DEF Jumps
<1>5. Cardinality(Jumps(p, Len(<<>>) + 1)) <= 0
  BY <1>1, <1>4, FS_EmptySet
<1>6. QED
  BY <1>1, <1>3, <1>5 DEF Gappy

\* What a gappy stream is, with the list of places at hand.
LEMMA GappyIs ==
    ASSUME NEW s, NEW a, NEW n, Gappy(s, a, n)
    PROVE  /\ s \in Seq(Unit) /\ Len(s) \in Nat /\ a \in Places
           /\ \E p : Located(s, p, a) /\ Cardinality(Jumps(p, Len(s) + 1)) <= n
<1>1. s \in Seq(Unit) /\ Len(s) \in Nat
  BY LenProperties DEF Gappy
<1>2. PICK p : Located(s, p, a) /\ Cardinality(Jumps(p, Len(s) + 1)) <= n
  BY DEF Gappy
<1>3. a \in Places
  <2>1. p \in [1 .. Len(s) + 1 -> Places] /\ Len(s) + 1 \in 1 .. Len(s) + 1 /\ p[Len(s) + 1] = a
    BY <1>1, <1>2 DEF Located
  <2>2. QED
    BY <2>1
<1>4. QED
  BY <1>1, <1>2, <1>3

LEMMA GappyMonotone ==
    ASSUME NEW s, NEW a, NEW n \in Int, NEW m \in Int, n <= m, Gappy(s, a, n)
    PROVE  Gappy(s, a, m)
<1>1. PICK p : Located(s, p, a) /\ Cardinality(Jumps(p, Len(s) + 1)) <= n
  BY GappyIs
<1>2. Len(s) + 1 \in Nat
  BY GappyIs
<1>3. Cardinality(Jumps(p, Len(s) + 1)) \in Nat
  BY <1>2, JumpsFinite
<1>4. Cardinality(Jumps(p, Len(s) + 1)) <= m
  BY <1>1, <1>3
<1>5. QED
  BY <1>1, <1>4 DEF Gappy

\* What comes next in the stream is no gap.
LEMMA GappyGoesOn ==
    ASSUME NEW s, NEW a, NEW n \in Int, Gappy(s, a, n), NEW k \in Nat
    PROVE  Gappy(s \o Segment(a, k), a + k, n)
<1> DEFINE l == Len(s)
           t == s \o Segment(a, k)
<1>1. s \in Seq(Unit) /\ l \in Nat /\ a \in Places /\ a \in Nat
  BY GappyIs DEF Places
<1>2. PICK p : Located(s, p, a) /\ Cardinality(Jumps(p, l + 1)) <= n
  BY GappyIs
<1>3. /\ p \in [1 .. l + 1 -> Places] /\ p[l + 1] = a
      /\ \A i, j \in 1 .. l + 1 : i < j => p[i] < p[j]
      /\ \A i \in 1 .. l : s[i] = UnitAt(p[i])
  BY <1>2 DEF Located
<1>4. /\ t \in Seq(Unit) /\ Len(t) = l + k
      /\ \A i \in 1 .. l : t[i] = s[i]
      /\ \A i \in l + 1 .. l + k : t[i] = UnitAt(a + (i - l) - 1)
  <2>1. /\ Segment(a, k) \in Seq(Unit) /\ Len(Segment(a, k)) = k
        /\ \A i \in 1 .. k : Segment(a, k)[i] = UnitAt(a + i - 1)
    BY <1>1, SegmentIs
  <2> DEFINE g == Segment(a, k)
  <2> HIDE DEF g, UnitAt
  <2>2. /\ s \o g \in Seq(Unit) /\ Len(s \o g) = l + k
        /\ \A i \in 1 .. l + k : (s \o g)[i] = IF i <= l THEN s[i] ELSE g[i - l]
    <3>1. g \in Seq(Unit) /\ Len(g) = k
      BY <2>1 DEF g
    <3>2. /\ s \o g \in Seq(Unit) /\ Len(s \o g) = Len(s) + Len(g)
          /\ \A i \in 1 .. Len(s) + Len(g) :
                (s \o g)[i] = IF i <= Len(s) THEN s[i] ELSE g[i - Len(s)]
      BY <1>1, <3>1, ConcatProperties
    <3>3. QED
      BY <3>1, <3>2
  <2>3. \A i \in 1 .. l : (s \o g)[i] = s[i]
    BY <1>1, <2>2
  <2>4. ASSUME NEW i \in l + 1 .. l + k
        PROVE  (s \o g)[i] = UnitAt(a + (i - l) - 1)
    <3>1. i \in 1 .. l + k /\ ~(i <= l) /\ i - l \in 1 .. k
      BY <1>1
    <3>2. QED
      BY <2>1, <2>2, <3>1 DEF g
  <2>5. QED
    BY <2>2, <2>3, <2>4 DEF g
<1> DEFINE q == [i \in 1 .. (l + k) + 1 |-> IF i <= l THEN p[i] ELSE a + (i - l) - 1]
<1> HIDE DEF t, l
<1>5. /\ \A i \in 1 .. l + 1 : q[i] = p[i]
      /\ \A i \in l + 1 .. (l + k) + 1 : q[i] = a + (i - l) - 1
  <2>1. /\ \A i \in 1 .. l : q[i] = p[i]
        /\ \A i \in l + 1 .. (l + k) + 1 : q[i] = a + (i - l) - 1
    BY <1>1
  <2>2. l + 1 \in l + 1 .. (l + k) + 1 /\ a + ((l + 1) - l) - 1 = a
    BY <1>1
  <2>3. q[l + 1] = p[l + 1]
    BY <1>3, <2>1, <2>2
  <2>4. \A i \in 1 .. l + 1 : i \in 1 .. l \/ i = l + 1
    BY <1>1
  <2> HIDE DEF q
  <2>5. QED
    BY <2>1, <2>3, <2>4
<1>6. q \in [1 .. (l + k) + 1 -> Places]
  <2>1. \A i \in 1 .. (l + k) + 1 : i <= l => p[i] \in Places
    BY <1>1, <1>3
  <2>2. \A i \in 1 .. (l + k) + 1 : ~(i <= l) => a + (i - l) - 1 \in Places
    BY <1>1 DEF Places
  <2>3. QED
    BY <2>1, <2>2
<1> HIDE DEF q
<1>7. \A i, j \in 1 .. (l + k) + 1 : i < j => q[i] < q[j]
  <2>1. SUFFICES ASSUME NEW i \in 1 .. (l + k) + 1, NEW j \in 1 .. (l + k) + 1, i < j
                 PROVE  q[i] < q[j]
    OBVIOUS
  <2>2. CASE j <= l + 1
    <3>1. i \in 1 .. l + 1 /\ j \in 1 .. l + 1
      BY <1>1, <2>1, <2>2
    <3>2. QED
      BY <1>3, <1>5, <2>1, <3>1
  <2>3. CASE i <= l + 1 /\ ~(j <= l + 1)
    <3>1. i \in 1 .. l + 1 /\ l + 1 \in 1 .. l + 1 /\ q[i] = p[i] /\ q[j] = a + (j - l) - 1
      BY <1>1, <1>5, <2>3
    <3>2. p[i] <= a /\ p[i] \in Nat
      <4>1. p[i] \in Nat /\ p[l + 1] = a
        BY <1>3, <3>1 DEF Places
      <4>2. i < l + 1 => p[i] < p[l + 1]
        BY <1>3, <3>1
      <4>3. QED
        BY <1>1, <2>3, <4>1, <4>2
    <3>3. QED
      BY <1>1, <2>3, <3>1, <3>2
  <2>4. CASE ~(i <= l + 1)
    <3>1. q[i] = a + (i - l) - 1 /\ q[j] = a + (j - l) - 1
      BY <1>1, <1>5, <2>1, <2>4
    <3>2. QED
      BY <1>1, <2>1, <3>1
  <2>5. QED
    BY <2>2, <2>3, <2>4
<1>8. \A i \in 1 .. l + k : t[i] = UnitAt(q[i])
  <2>1. SUFFICES ASSUME NEW i \in 1 .. l + k
                 PROVE  t[i] = UnitAt(q[i])
    OBVIOUS
  <2> HIDE DEF UnitAt
  <2>2. CASE i <= l
    <3>1. i \in 1 .. l /\ i \in 1 .. l + 1
      BY <1>1, <2>2
    <3>2. QED
      BY <1>3, <1>4, <1>5, <3>1
  <2>3. CASE ~(i <= l)
    <3>1. i \in l + 1 .. l + k /\ i \in l + 1 .. (l + k) + 1
      BY <1>1, <2>3
    <3>2. QED
      BY <1>4, <1>5, <3>1
  <2>4. QED
    BY <2>2, <2>3
<1>9. q[(l + k) + 1] = a + k
  <2>1. (l + k) + 1 \in l + 1 .. (l + k) + 1 /\ a + (((l + k) + 1) - l) - 1 = a + k
    BY <1>1
  <2>2. QED
    BY <1>5, <2>1
<1>10. Jumps(q, (l + k) + 1) = Jumps(p, l + 1)
  <2>1. ASSUME NEW i \in 1 .. l + 1
        PROVE  i \in Jumps(q, (l + k) + 1) <=> i \in Jumps(p, l + 1)
    <3>1. i \in 1 .. (l + k) + 1 /\ q[i] = p[i] /\ (i # 1 => q[i - 1] = p[i - 1])
      <4>1. i \in 1 .. (l + k) + 1 /\ (i # 1 => i - 1 \in 1 .. l + 1)
        BY <1>1
      <4>2. QED
        BY <1>5, <4>1
    <3>2. QED
      BY <3>1 DEF Jumps
  <2>2. ASSUME NEW i \in 1 .. (l + k) + 1, ~(i <= l + 1)
        PROVE  i \notin Jumps(q, (l + k) + 1)
    <3>1. i # 1 /\ q[i] = a + (i - l) - 1 /\ q[i - 1] = a + ((i - 1) - l) - 1
      BY <1>1, <1>5, <2>2
    <3>2. q[i] = 1 + q[i - 1]
      BY <1>1, <3>1
    <3>3. QED
      BY <3>1, <3>2 DEF Jumps
  <2>3. Jumps(q, (l + k) + 1) \subseteq 1 .. (l + k) + 1 /\ Jumps(p, l + 1) \subseteq 1 .. l + 1
    BY DEF Jumps
  <2>4. \A i \in 1 .. (l + k) + 1 : i <= l + 1 => i \in 1 .. l + 1
    BY <1>1
  <2>5. QED
    BY <2>1, <2>2, <2>3, <2>4
<1>11. Located(t, q, a + k)
  BY <1>4, <1>6, <1>7, <1>8, <1>9 DEF Located
<1>12. Gappy(t, a + k, n)
  BY <1>2, <1>4, <1>10, <1>11 DEF Gappy
<1>13. QED
  BY <1>12 DEF t

\* Going on at a later place is a gap more.
LEMMA GappySkips ==
    ASSUME NEW s, NEW a, NEW n \in Int, Gappy(s, a, n), NEW b \in Nat, a <= b
    PROVE  Gappy(s, b, n + 1)
<1> DEFINE l == Len(s)
<1>1. s \in Seq(Unit) /\ l \in Nat /\ a \in Places /\ a \in Nat /\ a # 0 /\ b \in Places
  BY GappyIs DEF Places
<1>2. PICK p : Located(s, p, a) /\ Cardinality(Jumps(p, l + 1)) <= n
  BY GappyIs
<1>3. /\ p \in [1 .. l + 1 -> Places] /\ p[l + 1] = a
      /\ \A i, j \in 1 .. l + 1 : i < j => p[i] < p[j]
      /\ \A i \in 1 .. l : s[i] = UnitAt(p[i])
  BY <1>2 DEF Located
<1> DEFINE q == [i \in 1 .. l + 1 |-> IF i <= l THEN p[i] ELSE b]
<1> HIDE DEF l
<1>4. /\ q \in [1 .. l + 1 -> Places] /\ q[l + 1] = b
      /\ \A i \in 1 .. l : q[i] = p[i]
  BY <1>1, <1>3
<1> HIDE DEF q
<1>5. \A i, j \in 1 .. l + 1 : i < j => q[i] < q[j]
  <2>1. SUFFICES ASSUME NEW i \in 1 .. l + 1, NEW j \in 1 .. l + 1, i < j
                 PROVE  q[i] < q[j]
    OBVIOUS
  <2>2. i \in 1 .. l /\ q[i] = p[i] /\ p[i] < p[j] /\ p[i] \in Nat /\ l + 1 \in 1 .. l + 1
    BY <1>1, <1>3, <1>4, <2>1 DEF Places
  <2>3. CASE j \in 1 .. l
    BY <1>4, <2>2, <2>3
  <2>4. CASE j = l + 1
    <3>1. q[j] = b /\ p[j] = a
      BY <1>3, <1>4, <2>4
    <3>2. QED
      BY <1>1, <2>2, <3>1
  <2>5. QED
    BY <1>1, <2>3, <2>4
<1>6. \A i \in 1 .. l : s[i] = UnitAt(q[i])
  BY <1>3, <1>4
<1>7. Located(s, q, b)
  BY <1>4, <1>5, <1>6 DEF Located, l
<1>8. Jumps(q, l + 1) \subseteq Jumps(p, l + 1) \cup {l + 1}
  <2>1. SUFFICES ASSUME NEW i \in Jumps(q, l + 1), i # l + 1
                 PROVE  i \in Jumps(p, l + 1)
    OBVIOUS
  <2>2. i \in 1 .. l + 1 /\ q[i] # 1 + (IF i = 1 THEN 0 ELSE q[i - 1])
    BY <2>1 DEF Jumps
  <2>3. i \in 1 .. l /\ (i # 1 => i - 1 \in 1 .. l)
    BY <1>1, <2>1, <2>2
  <2>4. q[i] = p[i] /\ (i # 1 => q[i - 1] = p[i - 1])
    BY <1>4, <2>3
  <2>5. QED
    BY <2>2, <2>4 DEF Jumps
<1>9. Cardinality(Jumps(q, l + 1)) <= n + 1
  <2>1. IsFiniteSet(Jumps(p, l + 1)) /\ Cardinality(Jumps(p, l + 1)) \in Nat
    BY <1>1, JumpsFinite, l + 1 \in Nat
  <2>2. /\ IsFiniteSet(Jumps(p, l + 1) \cup {l + 1})
        /\ Cardinality(Jumps(p, l + 1) \cup {l + 1})
             = IF l + 1 \in Jumps(p, l + 1) THEN Cardinality(Jumps(p, l + 1))
               ELSE Cardinality(Jumps(p, l + 1)) + 1
    BY <2>1, FS_AddElement
  <2>3. /\ IsFiniteSet(Jumps(q, l + 1))
        /\ Cardinality(Jumps(q, l + 1)) <= Cardinality(Jumps(p, l + 1) \cup {l + 1})
    BY <1>8, <2>2, FS_Subset
  <2>4. Cardinality(Jumps(q, l + 1)) \in Nat
    BY <2>3, FS_CardinalityType
  <2>5. QED
    BY <1>2, <2>1, <2>2, <2>3, <2>4
<1>10. QED
  BY <1>1, <1>7, <1>9 DEF Gappy, l

\* A first part has no more gaps.
LEMMA GappyInFront ==
    ASSUME NEW s \in Seq(Unit), NEW t \in Seq(Unit), NEW a, NEW n \in Int, Gappy(s \o t, a, n)
    PROVE  \E b \in Places : Gappy(s, b, n)
<1> DEFINE l == Len(s)
           m == Len(s \o t)
<1>1. /\ l \in Nat /\ m \in Nat /\ l <= m
      /\ \A i \in 1 .. l : (s \o t)[i] = s[i]
  <2>1. /\ Len(s) \in Nat /\ Len(t) \in Nat /\ Len(s \o t) = Len(s) + Len(t)
        /\ \A i \in 1 .. Len(s) + Len(t) :
              (s \o t)[i] = IF i <= Len(s) THEN s[i] ELSE t[i - Len(s)]
    BY LenProperties, ConcatProperties
  <2>2. QED
    BY <2>1
<1>2. PICK p : Located(s \o t, p, a) /\ Cardinality(Jumps(p, m + 1)) <= n
  BY GappyIs
<1>3. /\ p \in [1 .. m + 1 -> Places]
      /\ \A i, j \in 1 .. m + 1 : i < j => p[i] < p[j]
      /\ \A i \in 1 .. m : (s \o t)[i] = UnitAt(p[i])
  BY <1>2 DEF Located
<1> DEFINE q == [i \in 1 .. l + 1 |-> p[i]]
           b == p[l + 1]
<1> HIDE DEF l, m
<1>4. /\ q \in [1 .. l + 1 -> Places] /\ b \in Places /\ q[l + 1] = b
      /\ \A i \in 1 .. l + 1 : q[i] = p[i] /\ i \in 1 .. m + 1
  BY <1>1, <1>3
<1> HIDE DEF q, b
<1>5. \A i, j \in 1 .. l + 1 : i < j => q[i] < q[j]
  BY <1>3, <1>4
<1>6. \A i \in 1 .. l : s[i] = UnitAt(q[i])
  <2>1. \A i \in 1 .. l : i \in 1 .. m /\ i \in 1 .. l + 1
    BY <1>1
  <2>2. QED
    BY <1>1, <1>3, <1>4, <2>1
<1>7. Located(s, q, b)
  BY <1>4, <1>5, <1>6 DEF Located, l
<1>8. Jumps(q, l + 1) \subseteq Jumps(p, m + 1)
  <2>1. SUFFICES ASSUME NEW i \in Jumps(q, l + 1)
                 PROVE  i \in Jumps(p, m + 1)
    OBVIOUS
  <2>2. i \in 1 .. l + 1 /\ q[i] # 1 + (IF i = 1 THEN 0 ELSE q[i - 1])
    BY <2>1 DEF Jumps
  <2>3. i # 1 => i - 1 \in 1 .. l + 1
    BY <1>1, <2>2
  <2>4. i \in 1 .. m + 1 /\ q[i] = p[i] /\ (i # 1 => q[i - 1] = p[i - 1])
    BY <1>4, <2>2, <2>3
  <2>5. QED
    BY <2>2, <2>4 DEF Jumps
<1>9. Cardinality(Jumps(q, l + 1)) <= n
  <2>1. IsFiniteSet(Jumps(p, m + 1)) /\ Cardinality(Jumps(p, m + 1)) \in Nat
    BY <1>1, JumpsFinite, m + 1 \in Nat
  <2>2. IsFiniteSet(Jumps(q, l + 1)) /\ Cardinality(Jumps(q, l + 1)) <= Cardinality(Jumps(p, m + 1))
    BY <1>8, <2>1, FS_Subset
  <2>3. Cardinality(Jumps(q, l + 1)) \in Nat
    BY <2>2, FS_CardinalityType
  <2>4. QED
    BY <1>2, <2>1, <2>2, <2>3
<1>10. Gappy(s, b, n)
  BY <1>7, <1>9 DEF Gappy, l
<1>11. QED
  BY <1>4, <1>10

\* Where the frame before the delimiter at e begins.
LEMMA EndBeforeIs ==
    ASSUME NEW s \in Seq(Unit), NEW e \in Ends(s)
    PROVE  /\ e \in 1 .. Len(s) /\ s[e] = Flag
           /\ EndBefore(s, e) \in Nat /\ EndBefore(s, e) < e
           /\ EndBefore(s, e) = 0 \/ EndBefore(s, e) \in Ends(s)
           /\ \A d \in Ends(s) : d < e => d <= EndBefore(s, e)
<1> DEFINE T == {0} \cup {d \in Ends(s) : d < e}
           U == {e - x : x \in T}
<1>1. Ends(s) \subseteq 1 .. Len(s) /\ e \in 1 .. Len(s) /\ s[e] = Flag
  BY DEF Ends
<1>2. \A x \in T : x \in Nat /\ x < e
  BY <1>1
<1>3. U \subseteq Nat /\ U # {} /\ e \in Nat
  BY <1>1, <1>2
<1> HIDE DEF U
<1>4. PICK u \in U : \A y \in U : u <= y
  BY <1>3, LeastNatural
<1>5. PICK m \in T : u = e - m
  BY DEF U
<1>6. \A x \in T : x <= m
  <2>1. SUFFICES ASSUME NEW x \in T PROVE x <= m
    OBVIOUS
  <2>2. e - x \in U
    BY DEF U
  <2>3. e - m <= e - x /\ x \in Nat /\ m \in Nat
    BY <1>2, <1>4, <1>5, <2>2
  <2>4. QED
    BY <1>3, <2>3
<1>7. T \subseteq Int
  <2> HIDE DEF T
  <2>1. QED
    BY <1>2
<1>8. EndBefore(s, e) = m
  <2> HIDE DEF T
  <2>1. Max(T) = m
    BY <1>6, <1>7, MaxIsGreatest
  <2>2. QED
    BY <2>1 DEF EndBefore, T
<1>9. QED
  BY <1>1, <1>2, <1>6, <1>8

\* The frame of three units that stand in a row.
LEMMA FrameOfThree ==
    ASSUME NEW s \in Seq(Unit), NEW e \in Ends(s), NEW k, e = EndBefore(s, e) + 3,
           s[EndBefore(s, e) + 1] = Body(k), s[EndBefore(s, e) + 2] = Trailer(k)
    PROVE  FrameAt(s, e) = Contents(k) /\ Intact(FrameAt(s, e))
<1> DEFINE b == EndBefore(s, e)
<1>1. e \in 1 .. Len(s) /\ b \in Nat /\ b < e /\ Len(s) \in Nat /\ e = b + 3
  BY EndBeforeIs, LenProperties
<1>2. s[b + 1] = Body(k) /\ s[b + 2] = Trailer(k)
  OBVIOUS
<1> HIDE DEF b
<1>3. FrameAt(s, e) = Contents(k)
  <2>1. FrameAt(s, e) = SubSeq(s, b + 1, b + 2)
    <3>1. e - 1 = b + 2 /\ 1 + b = b + 1
      BY <1>1
    <3>2. QED
      BY <3>1 DEF FrameAt, EndBefore, b
  <2>2. \A i \in b + 1 .. b + 2 : s[i] \in Unit
    BY <1>1, ElementOfSeq
  <2>3. /\ SubSeq(s, b + 1, b + 2) \in Seq(Unit)
        /\ Len(SubSeq(s, b + 1, b + 2))
             = IF b + 1 <= b + 2 THEN (b + 2) - (b + 1) + 1 ELSE 0
        /\ \A i \in 1 .. (b + 2) - (b + 1) + 1 :
              SubSeq(s, b + 1, b + 2)[i] = s[(b + 1) + i - 1]
    BY <1>1, <2>2, SubSeqProperties
  <2> DEFINE f == SubSeq(s, b + 1, b + 2)
  <2> HIDE DEF f
  <2>4. f \in Seq(Unit) /\ Len(f) = 2 /\ f[1] = s[b + 1] /\ f[2] = s[b + 2]
    <3>1. /\ (b + 2) - (b + 1) + 1 = 2 /\ b + 1 <= b + 2
          /\ (b + 1) + 1 - 1 = b + 1 /\ (b + 1) + 2 - 1 = b + 2
          /\ 1 \in 1 .. 2 /\ 2 \in 1 .. 2
      BY <1>1
    <3>2. QED
      BY <2>3, <3>1 DEF f
  <2>5. f = <<f[1], f[2]>>
    BY <2>4
  <2>6. QED
    BY <1>2, <2>1, <2>4, <2>5 DEF f, Contents
<1>4. Intact(Contents(k))
  <2>1. Contents(k)[1] = Body(k) /\ Contents(k) # <<>> /\ Body(k)[1] = k
    BY DEF Contents, Body
  <2>2. QED
    BY <2>1 DEF Intact
<1>5. QED
  BY <1>3, <1>4

\* Frames with one of J each are no more than J.
LEMMA OneEach ==
    ASSUME NEW s \in Seq(Unit), NEW J \in SUBSET Nat, IsFiniteSet(J), NEW M \in SUBSET Ends(s),
           \A e \in M : \E i \in J : EndBefore(s, e) < i /\ i <= e
    PROVE  /\ IsFiniteSet(M) /\ Cardinality(M) \in Nat /\ Cardinality(J) \in Nat
           /\ Cardinality(M) <= Cardinality(J)
<1> DEFINE f == [e \in M |-> CHOOSE i \in J : EndBefore(s, e) < i /\ i <= e]
<1>1. \A e \in M : e \in Ends(s) /\ e \in Nat
  BY LenProperties DEF Ends
<1>2. \A e \in M : f[e] \in J /\ EndBefore(s, e) < f[e] /\ f[e] <= e
  OBVIOUS
<1>3. f \in [M -> J]
  OBVIOUS
<1> HIDE DEF f
<1>4. ASSUME NEW d \in M, NEW e \in M, d < e
      PROVE  f[d] # f[e]
  <2>1. d <= EndBefore(s, e) /\ d \in Nat /\ EndBefore(s, e) \in Nat
    BY <1>1, <1>4, EndBeforeIs
  <2>2. f[d] \in Nat /\ f[e] \in Nat
    BY <1>2
  <2>3. QED
    BY <1>2, <2>1, <2>2
<1>5. \A d, e \in M : d < e \/ e < d \/ d = e
  BY <1>1
<1>6. \A d, e \in M : f[d] = f[e] => d = e
  BY <1>4, <1>5
<1>7. f \in Injection(M, J)
  BY <1>3, <1>6 DEF Injection, IsInjective
<1>8. IsFiniteSet(M) /\ Cardinality(M) <= Cardinality(J)
  BY <1>7, FS_Injection
<1>9. QED
  BY <1>8, FS_CardinalityType

\* What stands between two delimiters with no gap is a frame as it was sent.
LEMMA NoGapNoDamage ==
    ASSUME NEW s \in Seq(Unit), NEW p, NEW a, Located(s, p, a), NEW e \in Ends(s),
           \A i \in EndBefore(s, e) + 1 .. e : i \notin Jumps(p, Len(s) + 1)
    PROVE  Intact(FrameAt(s, e))
<1> DEFINE b == EndBefore(s, e)
<1>1. /\ e \in 1 .. Len(s) /\ s[e] = Flag
      /\ b \in Nat /\ b < e
      /\ b = 0 \/ b \in Ends(s)
      /\ \A d \in Ends(s) : d < e => d <= b
  BY EndBeforeIs
<1>2. Len(s) \in Nat
  BY LenProperties
<1>3. /\ p \in [1 .. Len(s) + 1 -> Places]
      /\ \A i \in 1 .. Len(s) : s[i] = UnitAt(p[i])
  BY DEF Located
<1> HIDE DEF b
<1>4. \A i \in b + 1 .. e : p[i] = 1 + (IF i = 1 THEN 0 ELSE p[i - 1])
  <2>1. \A i \in b + 1 .. e : i \in 1 .. Len(s) + 1
    BY <1>1, <1>2
  <2>2. QED
    BY <2>1 DEF Jumps, b
<1>5. PICK q \in Nat : (IF b = 0 THEN 0 ELSE p[b]) = 3 * q
  <2>1. CASE b = 0
    BY <2>1, 0 = 3 * 0
  <2>2. CASE b \in Ends(s)
    <3>1. b \in 1 .. Len(s) /\ s[b] = Flag
      BY <2>2 DEF Ends
    <3>2. p[b] \in Places /\ UnitAt(p[b]) = Flag /\ b # 0
      BY <1>2, <1>3, <3>1
    <3>3. PICK r \in Nat : p[b] = 3 * r + 3
      BY <3>2, PlaceOfUnit
    <3>4. p[b] = 3 * (r + 1) /\ r + 1 \in Nat
      BY <3>3
    <3>5. QED
      BY <3>2, <3>4
  <2>3. QED
    BY <1>1, <2>1, <2>2
<1>6. p[b + 1] = 3 * q + 1
  <2>1. b + 1 \in b + 1 .. e
    BY <1>1
  <2>2. p[b + 1] = 1 + (IF b + 1 = 1 THEN 0 ELSE p[(b + 1) - 1])
    BY <1>4, <2>1
  <2>3. b + 1 = 1 <=> b = 0
    BY <1>1
  <2>4. (b + 1) - 1 = b
    BY <1>1
  <2>5. p[b + 1] = 1 + (IF b = 0 THEN 0 ELSE p[b])
    BY <2>2, <2>3, <2>4
  <2>6. QED
    BY <1>5, <2>5
<1>7. s[b + 1] = Body(q + 1) /\ b + 1 # e
  <2>1. b + 1 \in 1 .. Len(s)
    BY <1>1, <1>2
  <2>2. s[b + 1] = Body(q + 1)
    BY <1>3, <1>6, <2>1, UnitPlaces
  <2>3. Body(q + 1) # Flag
    BY DEF Body, Flag
  <2>4. QED
    BY <1>1, <2>2, <2>3
<1>8. p[b + 2] = 3 * q + 2
  <2>1. b + 2 \in b + 1 .. e /\ b + 2 # 1 /\ (b + 2) - 1 = b + 1
    BY <1>1, <1>7
  <2>2. QED
    BY <1>4, <1>6, <2>1
<1>9. s[b + 2] = Trailer(q + 1) /\ b + 2 # e /\ b + 2 < e
  <2>1. b + 2 \in 1 .. Len(s)
    BY <1>1, <1>2, <1>7
  <2>2. s[b + 2] = Trailer(q + 1)
    BY <1>3, <1>8, <2>1, UnitPlaces
  <2>3. Trailer(q + 1) # Flag
    BY DEF Trailer, Flag
  <2>4. b + 2 # e
    BY <1>1, <2>2, <2>3
  <2>5. QED
    BY <1>1, <1>7, <2>2, <2>4
<1>10. p[b + 3] = 3 * q + 3
  <2>1. b + 3 \in b + 1 .. e /\ b + 3 # 1 /\ (b + 3) - 1 = b + 2
    BY <1>1, <1>9
  <2>2. QED
    BY <1>4, <1>8, <2>1
<1>11. b + 3 = e
  <2>1. b + 3 \in 1 .. Len(s) /\ b + 3 <= e
    BY <1>1, <1>2, <1>9
  <2>2. s[b + 3] = Flag
    BY <1>3, <1>10, <2>1, UnitPlaces
  <2>3. b + 3 \in Ends(s)
    BY <2>1, <2>2 DEF Ends
  <2>4. ~(b + 3 < e)
    BY <1>1, <2>3
  <2>5. QED
    BY <1>1, <2>1, <2>4
<1>12. QED
  <2>1. /\ s[EndBefore(s, e) + 1] = Body(q + 1) /\ s[EndBefore(s, e) + 2] = Trailer(q + 1)
        /\ e = EndBefore(s, e) + 3
    BY <1>7, <1>9, <1>11 DEF b
  <2>2. QED
    BY <2>1, FrameOfThree

\* Each mangled frame has a gap of its own.
LEMMA DamageAtGaps ==
    ASSUME NEW s, NEW a, NEW n \in Int, Gappy(s, a, n)
    PROVE  Cardinality(Mangled(s)) <= n
<1>1. s \in Seq(Unit) /\ Len(s) \in Nat
  BY GappyIs
<1>2. PICK p : Located(s, p, a) /\ Cardinality(Jumps(p, Len(s) + 1)) <= n
  BY GappyIs
<1> DEFINE J == Jumps(p, Len(s) + 1)
           M == Mangled(s)
<1>3. M \in SUBSET Ends(s)
  BY DEF Mangled
<1>4. J \in SUBSET Nat /\ IsFiniteSet(J)
  <2>1. Len(s) + 1 \in Nat
    BY <1>1
  <2>2. IsFiniteSet(J) /\ J \subseteq 1 .. Len(s) + 1
    BY <2>1, JumpsFinite DEF Jumps
  <2>3. QED
    BY <2>1, <2>2
<1>5. \A e \in M : \E i \in J : EndBefore(s, e) < i /\ i <= e
  <2>1. SUFFICES ASSUME NEW e \in M, \A i \in J : ~(EndBefore(s, e) < i /\ i <= e)
                 PROVE  FALSE
    OBVIOUS
  <2>2. e \in Ends(s) /\ e \in Nat /\ EndBefore(s, e) \in Nat
    BY <1>1, <1>3, EndBeforeIs DEF Ends
  <2>3. \A i \in EndBefore(s, e) + 1 .. e : EndBefore(s, e) < i /\ i <= e
    BY <2>2
  <2>4. \A i \in EndBefore(s, e) + 1 .. e : i \notin Jumps(p, Len(s) + 1)
    BY <2>1, <2>3
  <2>5. Intact(FrameAt(s, e))
    BY <1>1, <1>2, <2>2, <2>4, NoGapNoDamage
  <2>6. QED
    BY <2>5 DEF Mangled
<1> HIDE DEF J, M
<1>6. Cardinality(M) <= Cardinality(J) /\ Cardinality(M) \in Nat /\ Cardinality(J) \in Nat
  BY <1>1, <1>3, <1>4, <1>5, OneEach
<1>7. Cardinality(M) <= n
  BY <1>2, <1>6 DEF J
<1>8. QED
  BY <1>7 DEF M

\* The frames that are whole stand in the order of the stream.
LEMMA IntactOnesInOrder ==
    ASSUME NEW s, NEW a, NEW n \in Int, Gappy(s, a, n)
    PROVE  IntactInOrder(s)
<1>1. s \in Seq(Unit) /\ Len(s) \in Nat
  BY GappyIs
<1>2. PICK p : Located(s, p, a) /\ Cardinality(Jumps(p, Len(s) + 1)) <= n
  BY GappyIs
<1>3. /\ p \in [1 .. Len(s) + 1 -> Places]
      /\ \A i, j \in 1 .. Len(s) + 1 : i < j => p[i] < p[j]
      /\ \A i \in 1 .. Len(s) : s[i] = UnitAt(p[i])
  BY <1>2 DEF Located
<1>4. ASSUME NEW e \in Ends(s), Intact(FrameAt(s, e))
      PROVE  /\ e - 2 \in 1 .. Len(s) /\ FrameAt(s, e)[1][1] \in Nat
             /\ p[e - 2] + 2 = 3 * FrameAt(s, e)[1][1]
  <2> DEFINE b == EndBefore(s, e)
             f == FrameAt(s, e)
             k == f[1][1]
  <2>1. e \in 1 .. Len(s) /\ b \in Nat /\ b < e
    BY <1>1, EndBeforeIs
  <2>2. f = SubSeq(s, b + 1, e - 1)
    <3>1. f = SubSeq(s, 1 + b, e - 1)
      BY DEF FrameAt, EndBefore
    <3> HIDE DEF b, f
    <3>2. 1 + b = b + 1
      BY <2>1
    <3>3. QED
      BY <3>1, <3>2
  <2>3. f = Contents(k)
    BY <1>4 DEF Intact
  <2> HIDE DEF b, f, k
  <2>4. Len(f) = 2 /\ f[1] = Body(k)
    BY <2>3 DEF Contents
  <2>5. \A i \in b + 1 .. e - 1 : s[i] \in Unit
    BY <1>1, <2>1, ElementOfSeq
  <2>6. /\ Len(f) = IF b + 1 <= e - 1 THEN (e - 1) - (b + 1) + 1 ELSE 0
        /\ \A i \in 1 .. (e - 1) - (b + 1) + 1 : f[i] = s[(b + 1) + i - 1]
    <3>1. b + 1 \in Int /\ e - 1 \in Int
      BY <2>1
    <3>2. /\ Len(SubSeq(s, b + 1, e - 1)) = IF b + 1 <= e - 1 THEN (e - 1) - (b + 1) + 1 ELSE 0
          /\ \A i \in 1 .. (e - 1) - (b + 1) + 1 : SubSeq(s, b + 1, e - 1)[i] = s[(b + 1) + i - 1]
      BY <2>5, <3>1, SubSeqProperties
    <3>3. QED
      BY <2>2, <3>2
  <2>7. e - 1 = b + 2 /\ e - 2 = b + 1
    <3>1. 2 = IF b + 1 <= e - 1 THEN (e - 1) - (b + 1) + 1 ELSE 0
      BY <2>4, <2>6
    <3>2. QED
      BY <1>1, <2>1, <3>1
  <2>8. f[1] = s[b + 1]
    <3>1. 1 \in 1 .. (e - 1) - (b + 1) + 1 /\ (b + 1) + 1 - 1 = b + 1
      BY <2>1, <2>7
    <3>2. QED
      BY <2>6, <3>1
  <2>9. b + 1 \in 1 .. Len(s)
    BY <1>1, <2>1, <2>7
  <2>10. p[b + 1] \in Places /\ UnitAt(p[b + 1]) = Body(k)
    BY <1>1, <1>3, <2>4, <2>8, <2>9
  <2>11. k \in Nat /\ p[b + 1] + 2 = 3 * k
    BY <2>10, PlaceOfUnit
  <2>12. QED
    BY <2>7, <2>9, <2>11 DEF k, f
<1>5. SUFFICES ASSUME NEW d \in Ends(s), NEW e \in Ends(s), d < e,
                      Intact(FrameAt(s, d)), Intact(FrameAt(s, e))
               PROVE  FrameAt(s, d)[1][1] < FrameAt(s, e)[1][1]
  BY DEF IntactInOrder
<1> DEFINE j == FrameAt(s, d)[1][1]
           k == FrameAt(s, e)[1][1]
<1>6. /\ d - 2 \in 1 .. Len(s) /\ j \in Nat /\ p[d - 2] + 2 = 3 * j
      /\ e - 2 \in 1 .. Len(s) /\ k \in Nat /\ p[e - 2] + 2 = 3 * k
  BY <1>4, <1>5
<1> HIDE DEF j, k
<1>7. d \in Int /\ e \in Int
  BY <1>1 DEF Ends
<1>8. d - 2 < e - 2 /\ d - 2 \in 1 .. Len(s) + 1 /\ e - 2 \in 1 .. Len(s) + 1
  BY <1>1, <1>5, <1>6, <1>7
<1>9. p[d - 2] < p[e - 2] /\ p[d - 2] \in Nat /\ p[e - 2] \in Nat
  BY <1>3, <1>8 DEF Places
<1>10. j < k
  BY <1>6, <1>9
<1>11. QED
  BY <1>10 DEF j, k

-----------------------------------------------------------------------------
(* The gaps of a TCP link: one for each connection that ended.             *)

\* The connection that has ended and has no successor yet.
Down == IF conn = "up" THEN 0 ELSE 1

\* Until the broker has accepted nothing is read, and a stream that is there
\* stands behind its reply.
InReply ==
    /\ role = "broker" /\ read = <<>>
    /\ \/ wire \in {<<>>, <<Text>>, <<Refused>>} /\ (conn = "up" => offered = 0)
       \/ \E k \in Nat : /\ wire = <<Accepted>> \o Segment(1, k)
                         /\ conn = "up" => k = 3 * offered

\* Then the wire goes on where the reading is, and has what the peer sent last;
\* behind a connection that ended it has a first part of that, and what the next
\* one starts with is the last part.
OnWire ==
    \E a \in Places, k \in Nat :
        /\ wire = Segment(a, k) /\ Gappy(read, a, breaks - Down)
        /\ conn = "up" => a + k = 3 * offered + 1
        /\ conn # "up" /\ role = "server" =>
              \E c \in Places, j \in Nat :
                  a + k <= c /\ resume = Segment(c, j) /\ c + j = 3 * offered + 1

\* Reading before the reply, behind it, and between two connections.
Inbound ==
    /\ pc \in {"accept to read", "accept to write"} => role = "server" /\ conn # "up"
    /\ pc \in {"subscribe", "reply"} => InReply
    /\ pc \notin {"subscribe", "reply", "over"} => OnWire
    /\ \E a \in Places : Gappy(read, a, breaks)

\* The other direction: what is sent goes on where the modem's reading is.
Outbound ==
    \E b \in Places, k \in Nat, j \in Nat :
        /\ out = Segment(b, k) /\ Gappy(reached, b, breaks - Down)
        /\ tail = Segment((3 * wrote + 1) - j, j) /\ j <= 3 * wrote
        /\ conn = "up" => b + k = (3 * wrote + 1) - j
        /\ conn # "up" => k = 0 /\ b <= (3 * wrote + 1) - j

LEMMA NothingIsSegment ==
    /\ 1 \in Places /\ 0 \in Nat
    /\ \A a \in Places : Segment(a, 0) = <<>>
<1>1. 1 \in Places /\ 0 \in Nat
  BY DEF Places
<1>2. ASSUME NEW a \in Places
      PROVE  Segment(a, 0) = <<>>
  <2>1. Segment(a, 0) \in Seq(Unit) /\ Len(Segment(a, 0)) = 0
    BY SegmentIs, 0 \in Nat
  <2>2. QED
    BY <2>1
<1>3. QED
  BY <1>1, <1>2

LEMMA GapInit == TcpInit => Inbound /\ Outbound
<1> SUFFICES ASSUME TcpInit PROVE Inbound /\ Outbound
  OBVIOUS
<1>1. /\ role \in {"server", "client", "broker"} /\ conn = "up" /\ wire = <<>> /\ out = <<>>
      /\ pc = (IF role = "broker" THEN "subscribe" ELSE "idle")
      /\ tail = <<>> /\ read = <<>> /\ reached = <<>>
      /\ offered = 0 /\ wrote = 0 /\ breaks = 0
  BY TcpAssumption DEF TcpInit
<1>2. breaks - Down = 0
  BY <1>1 DEF Down
<1>3. Gappy(<<>>, 1, 0)
  BY GappyAtFirst
<1>4. Segment(1, 0) = <<>> /\ 1 \in Places /\ 0 \in Nat
  BY NothingIsSegment
<1>5. 1 + 0 = 3 * 0 + 1 /\ (3 * 0 + 1) - 0 = 1 /\ 0 <= 3 * 0
  OBVIOUS
<1>6. OnWire
  BY <1>1, <1>2, <1>3, <1>4, <1>5 DEF OnWire
<1>7. InReply \/ role # "broker"
  BY <1>1 DEF InReply
<1>8. Inbound
  BY <1>1, <1>3, <1>4, <1>6, <1>7 DEF Inbound
<1>9. Outbound
  BY <1>1, <1>2, <1>3, <1>4, <1>5 DEF Outbound
<1>10. QED
  BY <1>8, <1>9

\* A connection that has ended has been counted.
LEMMA BreaksCounted ==
    ASSUME TcpIInv
    PROVE  /\ breaks \in Nat /\ offered \in Nat /\ wrote \in Nat /\ breaks - Down \in Nat
           /\ breaks - Down <= breaks
           /\ conn = "up" => breaks - Down = breaks
           /\ conn # "up" => breaks - Down = breaks - 1
<1>1. breaks \in Nat /\ offered \in Nat /\ wrote \in Nat
  BY TcpCounts
<1>2. conn # "up" => breaks # 0
  BY DEF TcpIInv, FirstConnection
<1>3. QED
  BY <1>1, <1>2 DEF Down

\* A first part of what stands behind the reply, with the reply.
LEMMA ReplyCut ==
    ASSUME NEW k \in Nat, NEW i \in 0 .. k + 1
    PROVE  /\ Len(<<Accepted>> \o Segment(1, k)) = k + 1
           /\ SubSeq(<<Accepted>> \o Segment(1, k), 1, i)
                = IF i = 0 THEN <<>> ELSE <<Accepted>> \o Segment(1, i - 1)
           /\ Head(<<Accepted>> \o Segment(1, k)) = Accepted
           /\ Tail(<<Accepted>> \o Segment(1, k)) = Segment(1, k)
           /\ <<Accepted>> \o Segment(1, k) # <<>>
<1>1. <<Accepted>> \in Seq(Unit) /\ Len(<<Accepted>>) = 1
  BY DEF Accepted, Unit
<1>2. \A n \in Nat : Segment(1, n) \in Seq(Unit) /\ Len(Segment(1, n)) = n
  BY SegmentIs, NothingIsSegment
<1>3. \A n \in Nat : /\ <<Accepted>> \o Segment(1, n) \in Seq(Unit)
                     /\ Len(<<Accepted>> \o Segment(1, n)) = n + 1
  <2>1. ASSUME NEW n \in Nat
        PROVE  /\ <<Accepted>> \o Segment(1, n) \in Seq(Unit)
               /\ Len(<<Accepted>> \o Segment(1, n)) = n + 1
    <3> DEFINE g == Segment(1, n)
    <3>1. g \in Seq(Unit) /\ Len(g) = n
      BY <1>2
    <3> HIDE DEF g
    <3>2. <<Accepted>> \o g \in Seq(Unit) /\ Len(<<Accepted>> \o g) = Len(<<Accepted>>) + Len(g)
      BY <1>1, <3>1, ConcatProperties
    <3>3. QED
      BY <1>1, <3>1, <3>2 DEF g
  <2>2. QED
    BY <2>1
<1>4. SubSeq(<<Accepted>> \o Segment(1, k), 1, 0) = <<>>
  BY SubSeqEmpty, 0 < 1
<1>5. ASSUME i # 0
      PROVE  SubSeq(<<Accepted>> \o Segment(1, k), 1, i) = <<Accepted>> \o Segment(1, i - 1)
  <2> DEFINE x == <<Accepted>> \o Segment(1, i - 1)
             y == Segment(i, k - (i - 1))
             g == Segment(1, i - 1)
  <2>1. i - 1 \in Nat /\ k - (i - 1) \in Nat /\ i \in Places /\ 1 + (i - 1) = i
        /\ (i - 1) + (k - (i - 1)) = k /\ (i - 1) + 1 = i
    BY <1>5 DEF Places
  <2>2. x \in Seq(Unit) /\ Len(x) = i
    BY <1>3, <2>1
  <2>3. y \in Seq(Unit) /\ g \in Seq(Unit)
    BY <1>2, <2>1, SegmentIs
  <2>4. Segment(1, k) = g \o y
    <3>1. Segment(1, i - 1) \o Segment(1 + (i - 1), k - (i - 1)) = Segment(1, (i - 1) + (k - (i - 1)))
      BY <2>1, NothingIsSegment, SegmentJoin
    <3>2. QED
      BY <2>1, <3>1
  <2>5. <<Accepted>> \o Segment(1, k) = x \o y
    <3> HIDE DEF g, y
    <3>1. (<<Accepted>> \o g) \o y = <<Accepted>> \o (g \o y)
      BY <1>1, <2>3, ConcatAssociative
    <3>2. QED
      BY <2>4, <3>1 DEF g
  <2> HIDE DEF x, y, g
  <2>6. SubSeq(x \o y, 1, i) = SubSeq(x, 1, i)
    BY <2>1, <2>2, <2>3, SubSeqOfConcat1, 1 \in 1 .. Len(x), i \in 1 .. Len(x)
  <2>7. SubSeq(x, 1, i) = x
    BY <2>2, SubSeqFull
  <2>8. QED
    BY <2>5, <2>6, <2>7 DEF x
<1> DEFINE g == Segment(1, k)
<1>6. g \in Seq(Unit) /\ <<Accepted>> \o g \in Seq(Unit) /\ Len(<<Accepted>> \o g) = k + 1
  BY <1>2, <1>3
<1> HIDE DEF g
<1>7. Head(<<Accepted>> \o g) = Accepted /\ <<Accepted>> \o g # <<>>
  BY <1>1, <1>6
<1>8. Tail(<<Accepted>> \o g) = g
  BY <1>1, <1>6
<1>9. QED
  BY <1>4, <1>5, <1>6, <1>7, <1>8 DEF g

\* What the peer's next frame does to the wire.
LEMMA FrameBehind ==
    ASSUME NEW a \in Places, NEW k \in Nat, NEW n \in Nat, a + k = 3 * n + 1
    PROVE  /\ Segment(a, k) \o FrameOf(n + 1) = Segment(a, k + 3)
           /\ a + (k + 3) = 3 * (n + 1) + 1
<1>1. FrameOf(n + 1) = Segment(a + k, 3)
  BY FrameIsSegment
<1>2. Segment(a, k) \o Segment(a + k, 3) = Segment(a, k + 3)
  BY SegmentJoin, 3 \in Nat
<1>3. a \in Nat
  BY DEF Places
<1>4. a + (k + 3) = 3 * (n + 1) + 1
  BY <1>3
<1>5. QED
  BY <1>1, <1>2, <1>4

LEMMA SendKeepsInbound ==
    ASSUME TcpIInv, Inbound, PeerSends
    PROVE  Inbound'
<1>1. /\ wire' = wire \o FrameOf(offered + 1) /\ offered' = offered + 1 /\ conn = "up"
      /\ UNCHANGED <<role, conn, resume, breaks, pc, read>>
      /\ ~Replying /\ ~Contains(wire, Refused)
  BY DEF PeerSends, host
<1>2. offered \in Nat
  BY TcpCounts
<1>3. pc \in {"subscribe", "reply"} => InReply'
  <2>1. SUFFICES ASSUME pc \in {"subscribe", "reply"} PROVE InReply'
    OBVIOUS
  <2>2. InReply
    BY <2>1 DEF Inbound
  <2>3. Contains(wire, Accepted)
    BY <1>1, <2>1, <2>2 DEF Replying, InReply
  <2>4. wire # <<>> /\ wire # <<Text>> /\ wire # <<Refused>>
    BY <2>3 DEF Contains, Accepted, Text, Refused
  <2>5. wire = <<Accepted>> \o Segment(1, 3 * offered)
    BY <1>1, <2>2, <2>4 DEF InReply
  <2> DEFINE g == Segment(1, 3 * offered)
             f == FrameOf(offered + 1)
  <2>6. 1 \in Places /\ 3 * offered \in Nat /\ 1 + 3 * offered = 3 * offered + 1
    BY <1>2, NothingIsSegment
  <2>7. g \o f = Segment(1, 3 * offered + 3)
    BY <1>2, <2>6, FrameBehind
  <2>8. g \in Seq(Unit) /\ f \in Seq(Unit) /\ <<Accepted>> \in Seq(Unit)
    <3>1. <<Accepted>> \in Seq(Unit)
      BY DEF Accepted, Unit
    <3>2. QED
      BY <1>2, <2>6, <3>1, SegmentIs, StreamGrows, offered + 1 \in Nat
  <2> HIDE DEF g, f
  <2>9. (<<Accepted>> \o g) \o f = <<Accepted>> \o (g \o f)
    BY <2>8, ConcatAssociative
  <2>10. wire' = <<Accepted>> \o Segment(1, 3 * offered + 3)
    BY <1>1, <2>5, <2>7, <2>9 DEF g, f
  <2>11. 3 * offered + 3 \in Nat /\ 3 * offered + 3 = 3 * (offered + 1)
    BY <1>2
  <2>12. QED
    BY <1>1, <2>2, <2>10, <2>11 DEF InReply
<1>4. pc \notin {"subscribe", "reply", "over"} => OnWire'
  <2>1. SUFFICES ASSUME pc \notin {"subscribe", "reply", "over"} PROVE OnWire'
    OBVIOUS
  <2>2. PICK a \in Places, k \in Nat :
            wire = Segment(a, k) /\ Gappy(read, a, breaks - Down) /\ a + k = 3 * offered + 1
    BY <1>1, <2>1 DEF Inbound, OnWire
  <2>3. wire' = Segment(a, k + 3) /\ a + (k + 3) = 3 * (offered + 1) + 1
    BY <1>1, <1>2, <2>2, FrameBehind
  <2>4. Gappy(read', a, breaks' - Down')
    BY <1>1, <2>2 DEF Down
  <2>5. k + 3 \in Nat
    OBVIOUS
  <2>6. QED
    BY <1>1, <2>3, <2>4, <2>5 DEF OnWire
<1>5. QED
  BY <1>1, <1>3, <1>4 DEF Inbound

LEMMA ReadKeepsInbound ==
    ASSUME TcpIInv, Inbound, ReadMore \/ FreshRead
    PROVE  Inbound'
<1>1. PICK n \in 1 .. Len(wire) :
          /\ read' = read \o SubSeq(wire, 1, n)
          /\ wire' = SubSeq(wire, n + 1, Len(wire))
  BY DEF ReadMore, FreshRead, SocketRead
<1>2. /\ UNCHANGED <<role, conn, resume, offered, breaks>>
      /\ pc \in {"recv", "fresh"} /\ pc' = "recv"
  BY DEF ReadMore, FreshRead, SocketRead, Reading
<1>3. PICK a \in Places, k \in Nat :
          /\ wire = Segment(a, k) /\ Gappy(read, a, breaks - Down)
          /\ conn = "up" => a + k = 3 * offered + 1
          /\ conn # "up" /\ role = "server" =>
                \E c \in Places, j \in Nat :
                    a + k <= c /\ resume = Segment(c, j) /\ c + j = 3 * offered + 1
  BY <1>2 DEF Inbound, OnWire
<1>4. Len(wire) = k
  BY <1>3, SegmentIs
<1>5. n \in 0 .. k /\ n \in Nat /\ k - n \in Nat /\ a + n \in Places /\ (a + n) + (k - n) = a + k
  BY <1>1, <1>4 DEF Places
<1>6. SubSeq(wire, 1, n) = Segment(a, n) /\ wire' = Segment(a + n, k - n)
  <2>1. /\ SubSeq(Segment(a, k), 1, n) = Segment(a, n)
        /\ SubSeq(Segment(a, k), n + 1, k) = Segment(a + n, k - n)
    BY <1>5, SegmentCut
  <2>2. SubSeq(wire, 1, n) = Segment(a, n)
    BY <1>3, <2>1
  <2>3. SubSeq(wire, n + 1, Len(wire)) = Segment(a + n, k - n)
    BY <1>3, <1>4, <2>1
  <2>4. QED
    BY <1>1, <2>2, <2>3
<1>7. Gappy(read', a + n, breaks' - Down')
  <2>1. breaks - Down \in Int
    BY BreaksCounted
  <2>2. Gappy(read \o Segment(a, n), a + n, breaks - Down)
    BY <1>3, <1>5, <2>1, GappyGoesOn
  <2>3. breaks' - Down' = breaks - Down
    BY <1>2 DEF Down
  <2>4. QED
    BY <1>1, <1>6, <2>2, <2>3
<1>8. OnWire'
  <2>1. conn' = "up" => (a + n) + (k - n) = 3 * offered' + 1
    BY <1>2, <1>3, <1>5
  <2>2. conn' # "up" /\ role' = "server" =>
            \E c \in Places, j \in Nat :
                (a + n) + (k - n) <= c /\ resume' = Segment(c, j) /\ c + j = 3 * offered' + 1
    BY <1>2, <1>3, <1>5
  <2>3. QED
    BY <1>5, <1>6, <1>7, <2>1, <2>2 DEF OnWire
<1>9. Gappy(read', a + n, breaks')
  <2>1. breaks - Down \in Int /\ breaks \in Int /\ breaks - Down <= breaks
    BY BreaksCounted
  <2>2. Gappy(read', a + n, breaks - Down)
    BY <1>2, <1>7 DEF Down
  <2>3. QED
    BY <1>2, <2>1, <2>2, GappyMonotone
<1>10. QED
  BY <1>2, <1>5, <1>8, <1>9 DEF Inbound

LEMMA ReplyKeepsInbound ==
    ASSUME TcpIInv, Inbound, ReplyByte
    PROVE  Inbound'
<1>1. /\ wire # <<>> /\ wire' = Tail(wire) /\ pc = "reply"
      /\ pc' \in {"reply", "over", "idle"}
      /\ UNCHANGED <<role, conn, resume, offered, breaks, read>>
  BY DEF ReplyByte, TakeOne, At
<1>2. InReply
  BY <1>1 DEF Inbound
<1>3. \E a \in Places : Gappy(read', a, breaks')
  BY <1>1 DEF Inbound
<1>4. CASE wire \in {<<Text>>, <<Refused>>} /\ (conn = "up" => offered = 0)
  <2>1. Head(wire) \in {Text, Refused} /\ wire' = <<>>
    BY <1>1, <1>4
  <2>2. pc' \in {"reply", "over"}
    BY <2>1 DEF ReplyByte, At, Accepted, Text, Refused
  <2>3. InReply'
    BY <1>1, <1>2, <1>4, <2>1 DEF InReply
  <2>4. QED
    BY <1>3, <2>2, <2>3 DEF Inbound
<1>5. ASSUME NEW k \in Nat, wire = <<Accepted>> \o Segment(1, k), conn = "up" => k = 3 * offered
      PROVE  Inbound'
  <2>1. Head(wire) = Accepted /\ wire' = Segment(1, k)
    BY <1>1, <1>5, ReplyCut, 0 \in 0 .. k + 1
  <2>2. pc' = "idle"
    BY <2>1 DEF ReplyByte, At, Accepted, Text
  <2>3. Gappy(read', 1, breaks' - Down')
    <3>1. Gappy(<<>>, 1, 0) /\ breaks - Down \in Nat
      BY BreaksCounted, GappyAtFirst
    <3>2. Gappy(<<>>, 1, breaks - Down)
      BY <3>1, GappyMonotone
    <3>3. read' = <<>> /\ breaks' - Down' = breaks - Down
      BY <1>1, <1>2 DEF InReply, Down
    <3>4. QED
      BY <3>2, <3>3
  <2>4. conn = "up" => 1 + k = 3 * offered + 1
    BY <1>5, BreaksCounted
  <2>5. role # "server"
    BY <1>2 DEF InReply
  <2>6. OnWire'
    BY <1>1, <2>1, <2>3, <2>4, <2>5, NothingIsSegment DEF OnWire
  <2>7. QED
    BY <1>3, <2>2, <2>6 DEF Inbound
<1>6. QED
  BY <1>1, <1>2, <1>4, <1>5 DEF InReply

LEMMA AcceptKeepsInbound ==
    ASSUME TcpIInv, Inbound, Accept
    PROVE  Inbound'
<1>1. /\ pc \in {"accept to read", "accept to write"} /\ pc' \in {"fresh", "write"}
      /\ conn' = "up" /\ wire' = resume
      /\ UNCHANGED <<role, offered, breaks, read>>
  BY DEF Accept, At
<1>2. role = "server" /\ conn # "up" /\ OnWire
  BY <1>1 DEF Inbound
<1>3. PICK a \in Places, k \in Nat, c \in Places, j \in Nat :
          /\ Gappy(read, a, breaks - Down)
          /\ a + k <= c /\ resume = Segment(c, j) /\ c + j = 3 * offered + 1
  BY <1>2 DEF OnWire
<1>4. Gappy(read, c, breaks)
  <2>1. breaks - Down \in Int /\ (breaks - Down) + 1 = breaks
    BY <1>2, BreaksCounted
  <2>2. c \in Nat /\ a <= c
    BY <1>3 DEF Places
  <2>3. Gappy(read, c, (breaks - Down) + 1)
    BY <1>3, <2>1, <2>2, GappySkips
  <2>4. QED
    BY <2>1, <2>3
<1>5. breaks' - Down' = breaks
  <2>1. Down' = 0
    BY <1>1 DEF Down
  <2>2. breaks \in Nat
    BY TcpCounts
  <2>3. breaks' = breaks
    BY <1>1
  <2>4. QED
    BY <2>1, <2>2, <2>3
<1>6. OnWire'
  BY <1>1, <1>3, <1>4, <1>5 DEF OnWire
<1>7. QED
  BY <1>1, <1>3, <1>4, <1>6 DEF Inbound

LEMMA RepliesKeepInbound ==
    ASSUME TcpIInv, Inbound, PeerReplies
    PROVE  Inbound'
<1>1. /\ conn = "up" /\ wire = <<>> /\ pc = "reply"
      /\ wire' \in {<<Text>>, <<Accepted>>, <<Refused>>}
      /\ UNCHANGED <<role, conn, resume, offered, breaks, pc, read>>
  BY DEF PeerReplies, host
<1>2. InReply /\ offered = 0
  <2>1. InReply
    BY <1>1 DEF Inbound
  <2>2. \A k \in Nat : <<Accepted>> \o Segment(1, k) # <<>>
    BY ReplyCut, \A k \in Nat : 0 \in 0 .. k + 1
  <2>3. QED
    BY <1>1, <2>1, <2>2 DEF InReply
<1>3. InReply'
  <2>1. CASE wire' = <<Accepted>>
    <3>1. <<Accepted>> \in Seq(Unit)
      BY DEF Accepted, Unit
    <3>2. <<Accepted>> \o Segment(1, 0) = <<Accepted>>
      BY <3>1, NothingIsSegment, ConcatEmptySeq
    <3>3. 0 = 3 * offered' /\ 0 \in Nat
      BY <1>1, <1>2
    <3>4. QED
      BY <1>1, <1>2, <2>1, <3>2, <3>3 DEF InReply
  <2>2. CASE wire' # <<Accepted>>
    BY <1>1, <1>2, <2>2 DEF InReply
  <2>3. QED
    BY <2>1, <2>2
<1>4. QED
  BY <1>1, <1>3 DEF Inbound

LEMMA BreakKeepsInbound ==
    ASSUME TcpIInv, Inbound, Break
    PROVE  Inbound'
<1>1. /\ conn = "up" /\ conn' # "up" /\ breaks' = breaks + 1
      /\ UNCHANGED <<role, offered, pc, read>>
  BY DEF Break, host
<1>2. PICK i \in 0 .. Len(wire) :
         /\ wire' = SubSeq(wire, 1, i)
         /\ \E n \in 0 .. 3 :
               /\ n <= Len(SubSeq(wire, i + 1, Len(wire)))
               /\ resume' = SubSeq(SubSeq(wire, i + 1, Len(wire)),
                                   Len(SubSeq(wire, i + 1, Len(wire))) - n + 1,
                                   Len(SubSeq(wire, i + 1, Len(wire))))
  BY DEF Break
<1>3. breaks' - Down' = breaks /\ breaks \in Nat /\ breaks - Down = breaks
  BY <1>1, TcpCounts DEF Down
<1>4. pc \in {"subscribe", "reply"} => InReply'
  <2>1. SUFFICES ASSUME InReply PROVE InReply'
    BY DEF Inbound
  <2>2. CASE wire \in {<<>>, <<Text>>, <<Refused>>}
    <3>1. SubSeq(<<Text>>, 1, 1) = <<Text>> /\ SubSeq(<<Refused>>, 1, 1) = <<Refused>>
      <4>1. <<Text>> \in Seq(Unit) /\ <<Refused>> \in Seq(Unit)
        BY DEF Text, Refused, Unit
      <4>2. Len(<<Text>>) = 1 /\ Len(<<Refused>>) = 1
        OBVIOUS
      <4>3. QED
        BY <4>1, <4>2, SubSeqFull
    <3>2. \A s : SubSeq(s, 1, 0) = <<>>
      BY SubSeqEmpty, 0 < 1
    <3>3. i = 0 \/ (wire # <<>> /\ i = 1)
      BY <1>2, <2>2
    <3>4. wire' \in {<<>>, <<Text>>, <<Refused>>}
      BY <1>2, <2>2, <3>1, <3>2, <3>3
    <3>5. QED
      BY <1>1, <2>1, <3>4 DEF InReply
  <2>3. ASSUME NEW k \in Nat, wire = <<Accepted>> \o Segment(1, k)
        PROVE  InReply'
    <3>1. Len(wire) = k + 1
      BY <2>3, ReplyCut, 0 \in 0 .. k + 1
    <3>2. i \in 0 .. k + 1
      BY <1>2, <3>1
    <3>3. wire' = IF i = 0 THEN <<>> ELSE <<Accepted>> \o Segment(1, i - 1)
      BY <1>2, <2>3, <3>2, ReplyCut
    <3>4. i = 0 \/ i - 1 \in Nat
      BY <3>2
    <3>5. QED
      BY <1>1, <2>1, <3>3, <3>4 DEF InReply
  <2>4. QED
    BY <2>1, <2>2, <2>3 DEF InReply
<1>5. pc \notin {"subscribe", "reply", "over"} => OnWire'
  <2>1. SUFFICES ASSUME OnWire PROVE OnWire'
    BY DEF Inbound
  <2>2. PICK a \in Places, k \in Nat :
            wire = Segment(a, k) /\ Gappy(read, a, breaks) /\ a + k = 3 * offered + 1
    BY <1>1, <1>3, <2>1 DEF OnWire
  <2>3. Len(wire) = k
    BY <2>2, SegmentIs
  <2>4. i \in 0 .. k /\ i \in Nat /\ k - i \in Nat /\ a + i \in Places /\ a \in Nat
    BY <1>2, <2>3 DEF Places
  <2>5. /\ SubSeq(Segment(a, k), 1, i) = Segment(a, i)
        /\ SubSeq(Segment(a, k), i + 1, k) = Segment(a + i, k - i)
    BY <2>4, SegmentCut
  <2>6. wire' = Segment(a, i) /\ SubSeq(wire, i + 1, Len(wire)) = Segment(a + i, k - i)
    BY <1>2, <2>2, <2>3, <2>5
  <2>7. Len(Segment(a + i, k - i)) = k - i
    BY <2>4, SegmentIs
  <2>8. PICK n \in 0 .. 3 :
            n <= k - i /\ resume' = SubSeq(Segment(a + i, k - i), (k - i) - n + 1, k - i)
    BY <1>2, <2>6, <2>7
  <2> DEFINE m == (k - i) - n
             c == (a + i) + m
  <2>9. /\ m \in 0 .. k - i /\ (k - i) - m = n /\ n \in Nat
        /\ c \in Places /\ a + i <= c /\ c + n = a + k
    BY <2>4, <2>8 DEF Places
  <2>10. SubSeq(Segment(a + i, k - i), m + 1, k - i) = Segment((a + i) + m, (k - i) - m)
    BY <2>4, <2>9, SegmentCut
  <2>11. resume' = Segment(c, n)
    BY <2>8, <2>9, <2>10
  <2> HIDE DEF c, m
  <2>12. c + n = 3 * offered' + 1
    BY <1>1, <2>2, <2>9
  <2>13. Gappy(read', a, breaks' - Down')
    BY <1>1, <1>3, <2>2
  <2>14. QED
    BY <1>1, <2>4, <2>6, <2>9, <2>11, <2>12, <2>13 DEF OnWire
<1>6. \E a \in Places : Gappy(read', a, breaks')
  <2>1. PICK a \in Places : Gappy(read, a, breaks)
    BY DEF Inbound
  <2>2. breaks \in Int /\ breaks + 1 \in Int /\ breaks <= breaks + 1
    BY <1>3
  <2>3. Gappy(read, a, breaks + 1)
    BY <2>1, <2>2, GappyMonotone
  <2>4. QED
    BY <1>1, <2>3
<1>7. QED
  BY <1>1, <1>4, <1>5, <1>6 DEF Inbound, TcpIInv, TcpTypeOK

\* What is not read leaves the reading as it is.
LEMMA RestKeepsInbound ==
    ASSUME Inbound,
           \/ Subscribe \/ NoReply \/ Recv \/ RecvTimesOut \/ TakeFrame \/ ReadFails
           \/ FreshFails \/ AcceptTimesOut \/ StartWrite \/ Send \/ SendFails
           \/ DeadlinePasses \/ PeerReads \/ Over \/ UNCHANGED tcpVars
    PROVE  Inbound'
<1>1. UNCHANGED <<role, conn, wire, resume, offered, breaks, read>>
  BY DEF Subscribe, NoReply, Recv, RecvTimesOut, TakeFrame, ReadFails, FreshFails,
         AcceptTimesOut, StartWrite, Send, SendFails, DeadlinePasses, PeerReads, Over,
         tcpVars, net, host
<1>2. /\ pc' \in {"subscribe", "reply"} => pc \in {"subscribe", "reply"}
      /\ pc' \notin {"subscribe", "reply", "over"} => pc \notin {"subscribe", "reply", "over"}
      /\ pc' \in {"accept to read", "accept to write"} =>
            \/ pc \in {"accept to read", "accept to write"}
            \/ role = "server" /\ conn # "up"
  BY DEF Subscribe, NoReply, Recv, RecvTimesOut, TakeFrame, ReadFails, FreshFails,
         AcceptTimesOut, StartWrite, Send, SendFails, DeadlinePasses, PeerReads, Over,
         tcpVars, net, host, At, AtEnd, Serving, Reading
<1>3. (InReply => InReply') /\ (OnWire => OnWire')
  BY <1>1 DEF InReply, OnWire, Down
<1>4. QED
  BY <1>1, <1>2, <1>3 DEF Inbound

LEMMA StepKeepsInbound ==
    ASSUME TcpIInv, Inbound, [TcpNext]_tcpVars
    PROVE  Inbound'
<1>1. \/ PeerSends \/ ReadMore \/ FreshRead \/ ReplyByte \/ Accept \/ PeerReplies \/ Break
      \/ Subscribe \/ NoReply \/ Recv \/ RecvTimesOut \/ TakeFrame \/ ReadFails
      \/ FreshFails \/ AcceptTimesOut \/ StartWrite \/ Send \/ SendFails
      \/ DeadlinePasses \/ PeerReads \/ Over \/ UNCHANGED tcpVars
  BY DEF TcpNext, ClientStep, PeerStep
<1>2. QED
  BY <1>1, SendKeepsInbound, ReadKeepsInbound, ReplyKeepsInbound, AcceptKeepsInbound,
     RepliesKeepInbound, BreakKeepsInbound, RestKeepsInbound

-----------------------------------------------------------------------------

\* A frame is added to the sending.
LEMMA StartWriteKeepsOutbound ==
    ASSUME TcpIInv, Outbound, StartWrite
    PROVE  Outbound'
<1>1. /\ pc = "idle" /\ wrote' = wrote + 1 /\ tail' = FrameOf(wrote + 1)
      /\ UNCHANGED <<conn, out, reached, breaks>>
  BY DEF StartWrite, At, net
<1>2. wrote \in Nat
  BY TcpCounts
<1>3. tail = <<>>
  BY <1>1 DEF TcpIInv, TcpTypeOK
<1>4. PICK b \in Places, k \in Nat, j \in Nat :
        /\ out = Segment(b, k) /\ Gappy(reached, b, breaks - Down)
        /\ tail = Segment((3 * wrote + 1) - j, j) /\ j <= 3 * wrote
        /\ conn = "up" => b + k = (3 * wrote + 1) - j
        /\ conn # "up" => k = 0 /\ b <= (3 * wrote + 1) - j
  BY DEF Outbound
<1>5. j = 0
  <2>1. (3 * wrote + 1) - j \in Places
    BY <1>2, <1>4 DEF Places
  <2>2. Len(tail) = j
    BY <1>4, <2>1, SegmentIs
  <2>3. QED
    BY <1>3, <2>2
<1>6. tail' = Segment((3 * wrote' + 1) - 3, 3)
  <2>1. FrameOf(wrote + 1) = Segment(3 * wrote + 1, 3)
    BY <1>2, FrameIsSegment
  <2>2. (3 * (wrote + 1) + 1) - 3 = 3 * wrote + 1
    BY <1>2
  <2>3. QED
    BY <1>1, <2>1, <2>2
<1>7. /\ 3 <= 3 * wrote' /\ 3 \in Nat
      /\ conn' = "up" => b + k = (3 * wrote' + 1) - 3
      /\ conn' # "up" => k = 0 /\ b <= (3 * wrote' + 1) - 3
  BY <1>1, <1>2, <1>4, <1>5 DEF Places
<1>8. Gappy(reached', b, breaks' - Down') /\ out' = Segment(b, k)
  BY <1>1, <1>4 DEF Down
<1>9. QED
  BY <1>6, <1>7, <1>8 DEF Outbound

LEMMA SendKeepsOutbound ==
    ASSUME TcpIInv, Outbound, Send
    PROVE  Outbound'
<1>1. PICK n \in 1 .. Len(tail) :
          /\ out' = IF conn = "up" THEN out \o SubSeq(tail, 1, n) ELSE out
          /\ tail' = SubSeq(tail, n + 1, Len(tail))
  BY DEF Send, Unsent
<1>2. UNCHANGED <<conn, reached, wrote, breaks>>
  BY DEF Send
<1>3. wrote \in Nat
  BY TcpCounts
<1>4. PICK b \in Places, k \in Nat, j \in Nat :
        /\ out = Segment(b, k) /\ Gappy(reached, b, breaks - Down)
        /\ tail = Segment((3 * wrote + 1) - j, j) /\ j <= 3 * wrote
        /\ conn = "up" => b + k = (3 * wrote + 1) - j
        /\ conn # "up" => k = 0 /\ b <= (3 * wrote + 1) - j
  BY DEF Outbound
<1> DEFINE t == (3 * wrote + 1) - j
<1>5. t \in Places /\ Len(tail) = j
  <2>1. t \in Places
    BY <1>3, <1>4 DEF Places
  <2> HIDE DEF t
  <2>2. QED
    BY <1>4, <2>1, SegmentIs DEF t
<1>6. /\ n \in 0 .. j /\ n \in Nat /\ j - n \in Nat /\ j - n <= 3 * wrote
      /\ (3 * wrote + 1) - (j - n) = t + n
  BY <1>1, <1>3, <1>4, <1>5
<1>7. conn = "up" => b + k = t
  BY <1>4
<1>8. conn # "up" => k = 0 /\ b <= t + n
  BY <1>3, <1>4, <1>6 DEF Places
<1>9. tail = Segment(t, j)
  BY <1>4
<1> HIDE DEF t
<1>10. /\ SubSeq(Segment(t, j), 1, n) = Segment(t, n)
       /\ SubSeq(Segment(t, j), n + 1, j) = Segment(t + n, j - n)
  BY <1>5, <1>6, SegmentCut
<1>11. SubSeq(tail, 1, n) = Segment(t, n) /\ tail' = Segment(t + n, j - n)
  BY <1>1, <1>5, <1>9, <1>10
<1>12. Gappy(reached', b, breaks' - Down')
  BY <1>2, <1>4 DEF Down
<1>13. CASE conn = "up"
  <2>1. out' = Segment(b, k + n)
    <3>1. Segment(b, k) \o Segment(b + k, n) = Segment(b, k + n)
      BY <1>6, SegmentJoin
    <3>2. QED
      BY <1>1, <1>4, <1>7, <1>11, <1>13, <3>1
  <2>2. k + n \in Nat /\ b + (k + n) = (3 * wrote + 1) - (j - n)
    BY <1>5, <1>6, <1>7, <1>13 DEF Places
  <2>3. QED
    BY <1>2, <1>6, <1>11, <1>12, <1>13, <2>1, <2>2 DEF Outbound
<1>14. CASE conn # "up"
  BY <1>1, <1>2, <1>4, <1>6, <1>8, <1>11, <1>12, <1>14 DEF Outbound
<1>15. QED
  BY <1>13, <1>14

\* What the peer reads, and what it has read when the connection ends.
LEMMA ReachKeepsOutbound ==
    ASSUME TcpIInv, Outbound, PeerReads \/ Break
    PROVE  Outbound'
<1>1. PICK n \in 0 .. Len(out) :
          /\ reached' = reached \o SubSeq(out, 1, n) /\ out' = <<>>
          /\ PeerReads => n = Len(out)
  <2>1. CASE PeerReads
    <3>1. PICK b \in Places, k \in Nat : out = Segment(b, k)
      BY DEF Outbound
    <3>2. out \in Seq(Unit)
      BY <3>1, SegmentIs
    <3>3. SubSeq(out, 1, Len(out)) = out /\ Len(out) \in 0 .. Len(out)
      BY <3>2, SubSeqFull, LenProperties
    <3>4. QED
      BY <2>1, <3>3 DEF PeerReads
  <2>2. CASE Break /\ ~PeerReads
    BY <2>2 DEF Break
  <2>3. QED
    BY <2>1, <2>2
<1>2. /\ conn = "up" /\ UNCHANGED <<tail, wrote>>
      /\ breaks' - Down' = breaks /\ breaks - Down = breaks /\ breaks \in Nat
      /\ PeerReads => conn' = "up"
  <2>1. breaks \in Nat
    BY TcpCounts
  <2>2. CASE PeerReads
    <3>1. /\ conn = "up" /\ conn' = "up" /\ breaks' = breaks
          /\ UNCHANGED <<tail, wrote>>
      BY <2>2 DEF PeerReads, host
    <3>2. Down = 0 /\ Down' = 0
      BY <3>1 DEF Down
    <3>3. QED
      BY <2>1, <3>1, <3>2
  <2>3. CASE Break /\ ~PeerReads
    <3>1. /\ conn = "up" /\ conn' # "up" /\ breaks' = breaks + 1
          /\ UNCHANGED <<tail, wrote>>
      BY <2>3 DEF Break, host
    <3>2. Down = 0 /\ Down' = 1
      BY <3>1 DEF Down
    <3>3. QED
      BY <2>1, <2>3, <3>1, <3>2
  <2>4. QED
    BY <2>2, <2>3
<1>3. wrote \in Nat
  BY TcpCounts
<1>4. PICK b \in Places, k \in Nat, j \in Nat :
        /\ out = Segment(b, k) /\ Gappy(reached, b, breaks)
        /\ tail = Segment((3 * wrote + 1) - j, j) /\ j <= 3 * wrote
        /\ b + k = (3 * wrote + 1) - j
  BY <1>2 DEF Outbound
<1>5. Len(out) = k
  BY <1>4, SegmentIs
<1>6. n \in 0 .. k /\ n \in Nat /\ b + n \in Places /\ b + n <= b + k
  BY <1>1, <1>5 DEF Places
<1>7. Gappy(reached', b + n, breaks)
  <2>1. SubSeq(Segment(b, k), 1, n) = Segment(b, n)
    BY <1>6, SegmentCut
  <2>2. Gappy(reached \o Segment(b, n), b + n, breaks)
    BY <1>2, <1>4, <1>6, GappyGoesOn
  <2>3. QED
    BY <1>1, <1>4, <2>1, <2>2
<1>8. out' = Segment(b + n, 0) /\ 0 \in Nat
  BY <1>1, <1>6, NothingIsSegment
<1>9. /\ conn' = "up" => (b + n) + 0 = (3 * wrote + 1) - j
      /\ b + n <= (3 * wrote + 1) - j
  <2>1. conn' = "up" => PeerReads
    BY DEF Break
  <2>2. b + n <= (3 * wrote + 1) - j
    BY <1>4, <1>6
  <2>3. PeerReads => n = k
    BY <1>1, <1>5
  <2>4. n = k => (b + n) + 0 = (3 * wrote + 1) - j
    BY <1>4, <1>6 DEF Places
  <2>5. QED
    BY <2>1, <2>2, <2>3, <2>4
<1>10. QED
  BY <1>2, <1>4, <1>6, <1>7, <1>8, <1>9 DEF Outbound

\* A new connection goes on with the rest of the frame.
LEMMA AcceptKeepsOutbound ==
    ASSUME TcpIInv, Inbound, Outbound, Accept
    PROVE  Outbound'
<1>1. /\ conn # "up" /\ conn' = "up"
      /\ UNCHANGED <<out, tail, reached, wrote, breaks>>
  BY DEF Accept, Inbound, At
<1>2. wrote \in Nat /\ breaks - Down \in Int /\ (breaks - Down) + 1 = breaks' - Down'
  BY <1>1, BreaksCounted DEF Down
<1>3. PICK b \in Places, k \in Nat, j \in Nat :
        /\ out = Segment(b, k) /\ Gappy(reached, b, breaks - Down)
        /\ tail = Segment((3 * wrote + 1) - j, j) /\ j <= 3 * wrote
        /\ k = 0 /\ b <= (3 * wrote + 1) - j
  BY <1>1 DEF Outbound
<1> DEFINE t == (3 * wrote + 1) - j
<1>4. t \in Places /\ t \in Nat /\ b <= t /\ t + 0 = (3 * wrote + 1) - j
  BY <1>2, <1>3 DEF Places
<1> HIDE DEF t
<1>5. Gappy(reached', t, breaks' - Down')
  <2>1. Gappy(reached, t, (breaks - Down) + 1)
    BY <1>2, <1>3, <1>4, GappySkips
  <2>2. QED
    BY <1>1, <1>2, <2>1
<1>6. out' = Segment(t, 0) /\ 0 \in Nat
  BY <1>1, <1>3, <1>4, NothingIsSegment
<1>7. QED
  BY <1>1, <1>3, <1>4, <1>5, <1>6 DEF Outbound

LEMMA RestKeepsOutbound ==
    ASSUME Outbound,
           \/ PeerSends \/ ReadMore \/ FreshRead \/ ReplyByte \/ PeerReplies
           \/ Subscribe \/ NoReply \/ Recv \/ RecvTimesOut \/ TakeFrame \/ ReadFails
           \/ FreshFails \/ AcceptTimesOut \/ SendFails
           \/ DeadlinePasses \/ Over \/ UNCHANGED tcpVars
    PROVE  Outbound'
<1>1. UNCHANGED <<conn, out, tail, reached, wrote, breaks>>
  BY DEF PeerSends, ReadMore, FreshRead, SocketRead, ReplyByte, PeerReplies, Subscribe,
         NoReply, Recv, RecvTimesOut, TakeFrame, ReadFails, FreshFails, AcceptTimesOut,
         SendFails, DeadlinePasses, Over, tcpVars, net, host
<1>2. QED
  BY <1>1 DEF Outbound, Down

LEMMA StepKeepsOutbound ==
    ASSUME TcpIInv, Inbound, Outbound, [TcpNext]_tcpVars
    PROVE  Outbound'
<1>1. \/ StartWrite \/ Send \/ PeerReads \/ Break \/ Accept
      \/ PeerSends \/ ReadMore \/ FreshRead \/ ReplyByte \/ PeerReplies
      \/ Subscribe \/ NoReply \/ Recv \/ RecvTimesOut \/ TakeFrame \/ ReadFails
      \/ FreshFails \/ AcceptTimesOut \/ SendFails
      \/ DeadlinePasses \/ Over \/ UNCHANGED tcpVars
  BY DEF TcpNext, ClientStep, PeerStep
<1>2. QED
  BY <1>1, StartWriteKeepsOutbound, SendKeepsOutbound, ReachKeepsOutbound,
     AcceptKeepsOutbound, RestKeepsOutbound

\* What the gaps allow: no more damage than connections that ended.
LEMMA DamageBounded ==
    ASSUME TcpIInv, Inbound, Outbound
    PROVE  OneMangledPerBreak
<1>1. breaks \in Int /\ breaks - Down \in Int /\ breaks - Down <= breaks
  BY BreaksCounted
<1>2. \E a \in Places : Gappy(taken, a, breaks)
  <2>1. PICK a \in Places : Gappy(read, a, breaks)
    BY DEF Inbound
  <2>2. taken \in Seq(Unit) /\ pend \in Seq(Unit) /\ taken \o pend = read
    BY DEF TcpIInv
  <2>3. QED
    BY <1>1, <2>1, <2>2, GappyInFront
<1>3. \E a \in Places : Gappy(reached, a, breaks)
  <2>1. PICK b \in Places : Gappy(reached, b, breaks - Down)
    BY DEF Outbound
  <2>2. QED
    BY <1>1, <2>1, GappyMonotone
<1>4. \A s \in {taken, reached} : Cardinality(Mangled(s)) <= breaks /\ IntactInOrder(s)
  BY <1>1, <1>2, <1>3, DamageAtGaps, IntactOnesInOrder
<1>5. QED
  BY <1>4 DEF OneMangledPerBreak

-----------------------------------------------------------------------------
(* The UDP broadcast transport.                                            *)

LastPlace == received[Len(received)]

\* The inductive invariant: what _seq_expected says of the last datagram, and
\* that one of those received was the farthest.
BroadcastIInv ==
    /\ flying \in Seq(Places) /\ received \in Seq(Places) /\ nextOut \in Places
    /\ drops \in Nat
    /\ received # <<>> =>
          /\ Max(ToSet(received)) \in ToSet(received)
          /\ \A x \in ToSet(received) : x <= Max(ToSet(received))
    /\ numbered =>
          expected = IF received = <<>> THEN -1 ELSE (FirstSeq + LastPlace) % NumMod
    /\ ~numbered => expected = -1
    /\ DropsSuffice

LEMMA BroadcastBounds ==
    /\ NumMod \in Nat \ {0} /\ GapMax \in Nat /\ GapMax < NumMod - 1
    /\ FirstSeq \in Nat
  BY BroadcastAssumption

LEMMA BroadcastInitHolds == BroadcastInit => BroadcastIInv
  BY EmptySeq DEF BroadcastInit, BroadcastIInv, DropsSuffice, Places

\* What is received with one more datagram.
LEMMA OneMoreReceived ==
    ASSUME BroadcastIInv, NEW p \in Places, received' = Append(received, p)
    PROVE  /\ received' \in Seq(Places) /\ received' # <<>> /\ LastPlace' = p
           /\ ToSet(received') = ToSet(received) \cup {p}
           /\ ToSet(received) \subseteq Places
           /\ received # <<>> =>
                 /\ received'[1] = received[1] /\ LastPlace \in ToSet(received)
                 /\ NoRestart' => NoRestart /\ p - LastPlace - 1 <= GapMax
<1>1. received \in Seq(Places) /\ Len(received) \in Nat
  BY LenProperties DEF BroadcastIInv
<1>2. /\ received' \in Seq(Places) /\ received' # <<>>
      /\ Len(received') = Len(received) + 1
      /\ \A i \in 1 .. Len(received) : received'[i] = received[i]
      /\ received'[Len(received) + 1] = p
  BY <1>1, AppendProperties
<1>3. /\ DOMAIN received = 1 .. Len(received)
      /\ DOMAIN received' = 1 .. Len(received) + 1
  BY <1>1, <1>2, LenProperties
<1>4. LastPlace' = p
  BY <1>2 DEF LastPlace
<1>5. ToSet(received') = ToSet(received) \cup {p}
  BY <1>1, <1>2, <1>3 DEF ToSet
<1>6. ToSet(received) \subseteq Places
  BY <1>1, <1>3, ElementOfSeq DEF ToSet
<1>7. ASSUME received # <<>>
      PROVE  /\ received'[1] = received[1] /\ LastPlace \in ToSet(received)
             /\ NoRestart' => NoRestart /\ p - LastPlace - 1 <= GapMax
  <2>1. Len(received) >= 1
    BY <1>1, <1>7, EmptySeq
  <2>2. received'[1] = received[1] /\ LastPlace \in ToSet(received)
    BY <1>1, <1>2, <1>3, <2>1 DEF LastPlace, ToSet
  <2>3. ASSUME NoRestart'
        PROVE  NoRestart /\ p - LastPlace - 1 <= GapMax
    <3>1. \A i \in 2 .. Len(received) + 1 : received'[i] - received'[i - 1] - 1 <= GapMax
      BY <1>2, <2>3 DEF NoRestart
    <3>2. NoRestart
      BY <1>1, <1>2, <3>1 DEF NoRestart
    <3>3. p - LastPlace - 1 <= GapMax
      BY <1>1, <1>2, <2>1, <3>1 DEF LastPlace
    <3>4. QED
      BY <3>2, <3>3
  <2>4. QED
    BY <2>2, <2>3
<1>8. QED
  BY <1>2, <1>4, <1>5, <1>6, <1>7

\* The farthest of them.
LEMMA FarthestReceived ==
    ASSUME BroadcastIInv, NEW p \in Places, received' = Append(received, p)
    PROVE  LET m == Max(ToSet(received')) IN
           /\ m = IF received # <<>> /\ p <= Max(ToSet(received))
                  THEN Max(ToSet(received)) ELSE p
           /\ m \in ToSet(received') /\ \A x \in ToSet(received') : x <= m
<1> DEFINE old == Max(ToSet(received))
           new == IF received # <<>> /\ p <= old THEN old ELSE p
           T   == ToSet(received')
<1>1. T = ToSet(received) \cup {p} /\ T \subseteq Places
  BY OneMoreReceived
<1>2. new \in T /\ \A x \in T : x <= new
  <2>1. CASE received = <<>>
    <3>1. ToSet(received) = {}
      BY <2>1, EmptySeq DEF ToSet
    <3>2. QED
      BY <1>1, <2>1, <3>1 DEF Places
  <2>2. CASE received # <<>>
    <3>1. old \in ToSet(received) /\ \A x \in ToSet(received) : x <= old
      BY <2>2 DEF BroadcastIInv
    <3>2. old \in Nat /\ p \in Nat /\ T \subseteq Nat
      BY <1>1, <3>1 DEF Places
    <3> HIDE DEF old
    <3>3. QED
      BY <1>1, <2>2, <3>1, <3>2
  <2>3. QED
    BY <2>1, <2>2
<1> HIDE DEF T, new
<1>3. Max(T) = new
  <2>1. T \subseteq Int
    BY <1>1 DEF Places
  <2>2. QED
    BY <1>2, <2>1, MaxIsGreatest
<1>4. QED
  BY <1>2, <1>3 DEF T, new

\* The gap of a datagram that does not overtake is what it passes over.
LEMMA GapIsPassedOver ==
    ASSUME BroadcastIInv, numbered, received # <<>>, NEW p \in Places,
           LastPlace \in Places, p > LastPlace, p - LastPlace - 1 <= GapMax
    PROVE  Gap(NumberOf(p)) = p - LastPlace - 1
<1> DEFINE a == FirstSeq + p - 1
           b == FirstSeq + LastPlace
<1>1. a \in Int /\ b \in Int /\ a - b = p - LastPlace - 1 /\ 0 <= a - b /\ a - b < NumMod
  BY BroadcastBounds DEF Places
<1>2. NumberOf(p) = a % NumMod /\ expected = b % NumMod
  BY DEF BroadcastIInv, NumberOf
<1> HIDE DEF a, b
<1>3. ((a % NumMod) - (b % NumMod)) % NumMod = a - b
  BY <1>1, ModSub, BroadcastBounds
<1>4. QED
  BY <1>1, <1>2, <1>3 DEF Gap

\* The number that is expected behind a datagram.
LEMMA ExpectedBehind ==
    ASSUME NEW p \in Places
    PROVE  (NumberOf(p) + 1) % NumMod = (FirstSeq + p) % NumMod
<1> DEFINE a == FirstSeq + p
<1>1. a \in Int /\ NumberOf(p) = (a - 1) % NumMod
  BY BroadcastBounds DEF NumberOf, Places
<1> HIDE DEF a
<1>2. (((a - 1) % NumMod) + 1) % NumMod = a % NumMod
  BY <1>1, ModSucc, BroadcastBounds
<1>3. QED
  BY <1>1, <1>2 DEF a

\* What is missing is finite.
LEMMA MissingFinite ==
    ASSUME BroadcastIInv, received # <<>>
    PROVE  IsFiniteSet(Missing) /\ Cardinality(Missing) \in Nat
<1> DEFINE m == Max(ToSet(received))
<1>1. received[1] \in Places /\ m \in Places
  <2>1. received \in Seq(Places) /\ Len(received) >= 1 /\ Len(received) \in Nat
    BY EmptySeq, LenProperties DEF BroadcastIInv
  <2>2. \A i \in 1 .. Len(received) : received[i] \in Places
    BY <2>1, ElementOfSeq
  <2>3. ToSet(received) \subseteq Places
    BY <2>1, <2>2, LenProperties DEF ToSet
  <2>4. QED
    BY <2>1, <2>2, <2>3 DEF BroadcastIInv
<1> HIDE DEF m
<1>2. IsFiniteSet(received[1] .. m)
  BY <1>1, FS_Interval DEF Places
<1>3. Missing \in SUBSET (received[1] .. m)
  BY DEF Missing, m
<1>4. QED
  BY <1>2, <1>3, FS_Subset, FS_CardinalityType

\* A datagram that arrives is counted for no less than it adds to the missing.
LEMMA ReceiveCovers ==
    ASSUME BroadcastIInv, NEW p \in Places, received' = Append(received, p),
           numbered, numbered' = numbered, TrackSeq(NumberOf(p)), drops' \in Nat
    PROVE  DropsSuffice'
<1> DEFINE m == Max(ToSet(received))
<1>1. CASE received = <<>>
  <2>1. received' = <<p>> /\ ToSet(received) = {}
    BY <1>1, EmptySeq DEF ToSet
  <2>2. Max(ToSet(received')) = p /\ received'[1] = p /\ ToSet(received') = {p}
    BY <1>1, <2>1, FarthestReceived, OneMoreReceived
  <2>3. Missing' = {}
    BY <2>2 DEF Missing, Places
  <2>4. QED
    BY <2>3, FS_EmptySet DEF DropsSuffice
<1>2. CASE received # <<>>
  <2> SUFFICES ASSUME NoRestart' PROVE drops' >= Cardinality(Missing')
    BY DEF DropsSuffice
  <2>1. /\ received'[1] = received[1] /\ LastPlace \in ToSet(received)
        /\ ToSet(received') = ToSet(received) \cup {p}
        /\ LastPlace \in Places /\ p - LastPlace - 1 <= GapMax /\ NoRestart
    BY <1>2, OneMoreReceived
  <2>2. m \in Places /\ LastPlace <= m
    BY <1>2, <2>1, OneMoreReceived DEF BroadcastIInv
  <2>3. IsFiniteSet(Missing) /\ Cardinality(Missing) \in Nat /\ Cardinality(Missing) <= drops
    BY <1>2, <2>1, MissingFinite DEF BroadcastIInv, DropsSuffice
  <2>4. drops \in Nat /\ drops' >= drops
    BY BroadcastBounds DEF BroadcastIInv, TrackSeq
  <2>5. CASE p <= m
    <3>1. Max(ToSet(received')) = m
      BY <1>2, <2>5, FarthestReceived
    <3>2. Missing' \in SUBSET Missing
      BY <2>1, <3>1 DEF Missing
    <3>3. QED
      BY <2>3, <2>4, <3>2, FS_Subset, FS_CardinalityType
  <2>6. CASE p > m
    <3> DEFINE passed == m + 1 .. p - 1
    <3>1. Max(ToSet(received')) = p
      BY <1>2, <2>2, <2>6, FarthestReceived DEF Places
    <3>2. Missing' \in SUBSET (Missing \cup passed)
      BY <2>1, <2>2, <3>1 DEF Missing, Places
    <3>3. IsFiniteSet(passed) /\ Cardinality(passed) = p - 1 - m
      <4>1. m + 1 \in Int /\ p - 1 \in Int /\ m \in Int
        BY <2>2 DEF Places
      <4>2. /\ IsFiniteSet(passed)
            /\ Cardinality(passed) = IF m + 1 > p - 1 THEN 0 ELSE (p - 1) - (m + 1) + 1
        BY <4>1, FS_Interval
      <4>3. QED
        BY <2>6, <4>1, <4>2 DEF Places
    <3> HIDE DEF passed
    <3>4. /\ IsFiniteSet(Missing \cup passed)
          /\ Cardinality(Missing \cup passed) <= Cardinality(Missing) + (p - 1 - m)
      <4>1. /\ IsFiniteSet(Missing \cup passed)
            /\ Cardinality(Missing \cup passed)
                  = Cardinality(Missing) + Cardinality(passed) - Cardinality(Missing \cap passed)
        BY <2>3, <3>3, FS_Union
      <4>2. IsFiniteSet(Missing \cap passed)
        BY <2>3, FS_Subset, Missing \cap passed \in SUBSET Missing
      <4>3. Cardinality(Missing \cap passed) \in Nat
        BY <4>2, FS_CardinalityType
      <4>4. p - 1 - m \in Int
        BY <2>2 DEF Places
      <4>5. QED
        BY <2>3, <3>3, <4>1, <4>3, <4>4
    <3>5. /\ Cardinality(Missing') <= Cardinality(Missing \cup passed)
          /\ Cardinality(Missing') \in Nat /\ Cardinality(Missing \cup passed) \in Nat
      BY <3>2, <3>4, FS_Subset, FS_CardinalityType
    <3>6. drops' = drops + (p - LastPlace - 1)
      <4>1. p > LastPlace /\ p - LastPlace - 1 \in 0 .. GapMax
        BY <2>1, <2>2, <2>6, BroadcastBounds DEF Places
      <4>2. Gap(NumberOf(p)) = p - LastPlace - 1
        BY <1>2, <2>1, <4>1, GapIsPassedOver
      <4>3. expected # -1
        <5>1. \A x \in Int : x % NumMod # -1
          BY BroadcastBounds
        <5>2. FirstSeq + LastPlace \in Int
          BY <2>1, BroadcastBounds DEF Places
        <5>3. QED
          BY <1>2, <5>1, <5>2 DEF BroadcastIInv
      <4>4. QED
        BY <4>1, <4>2, <4>3 DEF TrackSeq
    <3>7. QED
      BY <2>1, <2>2, <2>3, <2>4, <2>6, <3>4, <3>5, <3>6 DEF Places
  <2>7. QED
    BY <2>2, <2>5, <2>6 DEF Places
<1>3. QED
  BY <1>1, <1>2

LEMMA BroadcastStepHolds == BroadcastIInv /\ [BroadcastNext]_broadcastVars => BroadcastIInv'
<1> SUFFICES ASSUME BroadcastIInv, [BroadcastNext]_broadcastVars PROVE BroadcastIInv'
  OBVIOUS
<1>1. ASSUME NEW i \in DOMAIN flying
      PROVE  flying[i] \in Places /\ RemoveAt(flying, i) \in Seq(Places)
  <2>1. flying \in Seq(Places) /\ Len(flying) \in Nat /\ i \in 1 .. Len(flying)
    BY LenProperties DEF BroadcastIInv
  <2>2. flying[i] \in Places
    BY <2>1, ElementOfSeq
  <2>3. /\ SubSeq(flying, 1, i - 1) \in Seq(Places)
        /\ SubSeq(flying, i + 1, Len(flying)) \in Seq(Places)
    BY <2>1, CutInTwo, i - 1 \in 0 .. Len(flying)
  <2>4. QED
    BY <2>2, <2>3, ConcatProperties DEF RemoveAt
<1>2. ASSUME NEW i \in DOMAIN flying, Receive(i)
      PROVE  BroadcastIInv'
  <2> DEFINE p == flying[i]
  <2>1. /\ p \in Places /\ flying' \in Seq(Places)
        /\ received' = Append(received, p)
        /\ numbered' = numbered /\ nextOut' = nextOut
        /\ IF numbered THEN TrackSeq(NumberOf(p)) ELSE UNCHANGED <<expected, drops, total>>
    BY <1>1, <1>2 DEF Receive
  <2> HIDE DEF p
  <2>2. drops' \in Nat
    <3>1. NumberOf(p) \in Int /\ (numbered => expected \in Int)
      BY SMTT(30), <2>1, BroadcastBounds, LenProperties, EmptySeq, ElementOfSeq
         DEF NumberOf, BroadcastIInv, LastPlace, Places
    <3>2. numbered => Gap(NumberOf(p)) \in Int
      BY <3>1, BroadcastBounds DEF Gap
    <3>3. QED
      BY <2>1, <3>2 DEF BroadcastIInv, TrackSeq
  <2>3. received' \in Seq(Places) /\ received' # <<>> /\ LastPlace' = p
    BY <2>1, OneMoreReceived
  <2>4. numbered => expected' = (FirstSeq + p) % NumMod
    BY <2>1, ExpectedBehind DEF TrackSeq
  <2>5. DropsSuffice'
    <3>1. CASE numbered
      BY <2>1, <2>2, <3>1, ReceiveCovers
    <3>2. CASE ~numbered
      BY <2>1, <3>2 DEF DropsSuffice
    <3>3. QED
      BY <3>1, <3>2
  <2>6. /\ Max(ToSet(received')) \in ToSet(received')
        /\ \A x \in ToSet(received') : x <= Max(ToSet(received'))
    BY <2>1, FarthestReceived
  <2>7. QED
    BY <2>1, <2>2, <2>3, <2>4, <2>5, <2>6 DEF BroadcastIInv
<1>3. CASE SendNext
  <2>1. /\ flying' = Append(flying, nextOut) /\ nextOut' = nextOut + 1
        /\ UNCHANGED <<numbered, expected, drops, received>>
    BY <1>3 DEF SendNext
  <2>2. flying' \in Seq(Places) /\ nextOut' \in Places
    BY <2>1, AppendProperties DEF BroadcastIInv, Places
  <2>3. QED
    BY <2>1, <2>2 DEF BroadcastIInv, LastPlace, DropsSuffice, NoRestart, Missing
<1>4. ASSUME NEW i \in DOMAIN flying, Lose(i)
      PROVE  BroadcastIInv'
  <2>1. flying' \in Seq(Places) /\ UNCHANGED <<numbered, nextOut, expected, drops, received>>
    BY <1>1, <1>4 DEF Lose
  <2>2. QED
    BY <2>1 DEF BroadcastIInv, LastPlace, DropsSuffice, NoRestart, Missing
<1>5. CASE Return \/ AllThrough \/ UNCHANGED broadcastVars
  <2>1. UNCHANGED <<numbered, flying, nextOut, expected, drops, received>>
    BY <1>5 DEF Return, AllThrough, broadcastVars
  <2>2. QED
    BY <2>1 DEF BroadcastIInv, LastPlace, DropsSuffice, NoRestart, Missing
<1>6. QED
  BY <1>2, <1>3, <1>4, <1>5 DEF BroadcastNext

Distinct(s) == \A i, j \in 1 .. Len(s) : i # j => s[i] # s[j]

\* Each datagram is under way, received or lost, but for those still to be sent.
PathInv ==
    /\ nextOut \in 1 .. Len(Cuts) + 1 /\ lost \in SUBSET Places
    /\ Distinct(flying) /\ Distinct(received)
    /\ ToSet(received) \cap lost = {} /\ ToSet(flying) \cap lost = {}
    /\ ToSet(flying) \cap ToSet(received) = {}
    /\ \A x \in ToSet(flying) \cup ToSet(received) \cup lost : x < nextOut
    /\ total = IF numbered THEN Len(received) ELSE 0

LEMMA CutsType == Cuts \in Seq(Nat) /\ Len(Cuts) \in Nat /\ DOMAIN Cuts = 1 .. Len(Cuts)
  BY BroadcastAssumption, LenProperties

\* Taking an element out of a sequence.
LEMMA RemovedIs ==
    ASSUME NEW s \in Seq(Places), NEW i \in 1 .. Len(s), Distinct(s)
    PROVE  /\ RemoveAt(s, i) \in Seq(Places) /\ Distinct(RemoveAt(s, i))
           /\ ToSet(RemoveAt(s, i)) = ToSet(s) \ {s[i]}
<1> DEFINE n == Len(s)
           l == SubSeq(s, 1, i - 1)
           r == SubSeq(s, i + 1, n)
           t == l \o r
<1>1. n \in Nat /\ i \in Nat /\ i <= n /\ DOMAIN s = 1 .. n /\ \A k \in 1 .. n : s[k] \in Places
  BY LenProperties, ElementOfSeq
<1>2. l \in Seq(Places) /\ Len(l) = i - 1 /\ \A k \in 1 .. i - 1 : l[k] = s[k]
  <2>1. /\ SubSeq(s, 1, i - 1) \in Seq(Places)
        /\ Len(SubSeq(s, 1, i - 1)) = IF 1 <= i - 1 THEN (i - 1) - 1 + 1 ELSE 0
        /\ \A k \in 1 .. (i - 1) - 1 + 1 : SubSeq(s, 1, i - 1)[k] = s[1 + k - 1]
    BY <1>1, SubSeqProperties, i - 1 \in Int, \A k \in 1 .. i - 1 : s[k] \in Places
  <2>2. QED
    BY <1>1, <2>1
<1>3. r \in Seq(Places) /\ Len(r) = n - i /\ \A k \in 1 .. n - i : r[k] = s[k + i]
  <2>0. \A k \in i + 1 .. n : s[k] \in Places
    BY <1>1
  <2>1. /\ SubSeq(s, i + 1, n) \in Seq(Places)
        /\ Len(SubSeq(s, i + 1, n)) = IF i + 1 <= n THEN n - (i + 1) + 1 ELSE 0
        /\ \A k \in 1 .. n - (i + 1) + 1 : SubSeq(s, i + 1, n)[k] = s[(i + 1) + k - 1]
    BY <1>1, <2>0, SubSeqProperties, i + 1 \in Int
  <2>2. n - (i + 1) + 1 = n - i /\ \A k \in 1 .. n - i : (i + 1) + k - 1 = k + i
    BY <1>1
  <2>3. /\ SubSeq(s, i + 1, n) \in Seq(Places) /\ Len(SubSeq(s, i + 1, n)) = n - i
        /\ \A k \in 1 .. n - i : SubSeq(s, i + 1, n)[k] = s[(i + 1) + k - 1]
    <3>1. (IF i + 1 <= n THEN n - (i + 1) + 1 ELSE 0) = n - i
      <4> HIDE DEF n
      <4>1. CASE i + 1 <= n
        BY <1>1, <4>1
      <4>2. CASE ~(i + 1 <= n)
        <5>1. i = n
          BY <1>1, <4>2
        <5>2. QED
          BY <1>1, <4>2, <5>1
      <4>3. QED
        BY <4>1, <4>2
    <3>2. QED
      BY <2>1, <2>2, <3>1
  <2>4. QED
    BY <2>2, <2>3
<1> HIDE DEF l, r
<1>4. /\ t \in Seq(Places) /\ Len(t) = n - 1 /\ DOMAIN t = 1 .. n - 1
      /\ \A k \in 1 .. n - 1 : t[k] = IF k < i THEN s[k] ELSE s[k + 1]
  <2>1. /\ l \o r \in Seq(Places) /\ Len(l \o r) = Len(l) + Len(r)
        /\ \A k \in 1 .. Len(l) + Len(r) :
              (l \o r)[k] = IF k <= Len(l) THEN l[k] ELSE r[k - Len(l)]
    BY <1>2, <1>3, ConcatProperties
  <2>2. Len(l) + Len(r) = n - 1
    BY <1>1, <1>2, <1>3
  <2>3. ASSUME NEW k \in 1 .. n - 1
        PROVE  t[k] = IF k < i THEN s[k] ELSE s[k + 1]
    <3>1. CASE k < i
      <4>1. k \in 1 .. i - 1 /\ k <= Len(l)
        BY <1>1, <1>2, <3>1
      <4>2. QED
        BY <1>2, <2>1, <2>2, <3>1, <4>1
    <3>2. CASE ~(k < i)
      <4>1. ~(k <= Len(l)) /\ k - Len(l) \in 1 .. n - i /\ (k - Len(l)) + i = k + 1
        BY <1>1, <1>2, <3>2
      <4>2. QED
        BY <1>3, <2>1, <2>2, <3>2, <4>1
    <3>3. QED
      BY <3>1, <3>2
  <2>4. t \in Seq(Places) /\ Len(t) = n - 1
    BY <2>1, <2>2
  <2>5. QED
    BY <2>3, <2>4, LenProperties
<1> HIDE DEF t
<1>5. \A a, b \in 1 .. n : a # b => s[a] # s[b]
  BY DEF Distinct
<1>6. Distinct(t)
  <2>1. SUFFICES ASSUME NEW a \in 1 .. n - 1, NEW b \in 1 .. n - 1, a # b PROVE t[a] # t[b]
    BY <1>4 DEF Distinct
  <2>2. /\ t[a] = s[IF a < i THEN a ELSE a + 1] /\ t[b] = s[IF b < i THEN b ELSE b + 1]
    BY <1>4
  <2>3. /\ (IF a < i THEN a ELSE a + 1) \in 1 .. n /\ (IF b < i THEN b ELSE b + 1) \in 1 .. n
        /\ (IF a < i THEN a ELSE a + 1) # (IF b < i THEN b ELSE b + 1)
    BY <1>1, <2>1
  <2>4. QED
    BY <1>5, <2>2, <2>3
<1>7. ToSet(t) = ToSet(s) \ {s[i]}
  <2>1. ASSUME NEW x \in ToSet(t)
        PROVE  x \in ToSet(s) \ {s[i]}
    <3>1. PICK k \in 1 .. n - 1 : x = t[k]
      BY <1>4 DEF ToSet
    <3>2. x = s[IF k < i THEN k ELSE k + 1] /\ (IF k < i THEN k ELSE k + 1) \in 1 .. n
          /\ (IF k < i THEN k ELSE k + 1) # i
      BY <1>1, <1>4, <3>1
    <3>3. QED
      BY <1>1, <1>5, <3>2 DEF ToSet
  <2>2. ASSUME NEW x \in ToSet(s) \ {s[i]}
        PROVE  x \in ToSet(t)
    <3>1. PICK k \in 1 .. n : x = s[k]
      BY <1>1 DEF ToSet
    <3>2. k # i
      BY <2>2, <3>1
    <3>3. CASE k < i
      <4>1. k \in 1 .. n - 1 /\ t[k] = x
        BY <1>1, <1>4, <3>1, <3>3
      <4>2. QED
        BY <1>4, <4>1 DEF ToSet
    <3>4. CASE k > i
      <4>1. k - 1 \in 1 .. n - 1 /\ ~(k - 1 < i) /\ (k - 1) + 1 = k
        BY <1>1, <3>4
      <4>2. t[k - 1] = x
        BY <1>4, <3>1, <4>1
      <4>3. QED
        BY <1>4, <4>1, <4>2 DEF ToSet
    <3>5. QED
      BY <1>1, <3>1, <3>2, <3>3, <3>4
  <2>3. QED
    BY <2>1, <2>2
<1>8. RemoveAt(s, i) = t
  BY DEF RemoveAt, t, l, r, n
<1>9. QED
  BY <1>4, <1>6, <1>7, <1>8

\* Adding one that is not in it.
LEMMA AppendedIs ==
    ASSUME NEW s \in Seq(Places), NEW x \in Places, x \notin ToSet(s), Distinct(s)
    PROVE  /\ Append(s, x) \in Seq(Places) /\ Distinct(Append(s, x))
           /\ ToSet(Append(s, x)) = ToSet(s) \cup {x}
<1>1. Len(s) \in Nat /\ DOMAIN s = 1 .. Len(s)
  BY LenProperties
<1>2. /\ Append(s, x) \in Seq(Places) /\ Len(Append(s, x)) = Len(s) + 1
      /\ \A i \in 1 .. Len(s) : Append(s, x)[i] = s[i]
      /\ Append(s, x)[Len(s) + 1] = x
  BY AppendProperties
<1>3. DOMAIN Append(s, x) = 1 .. Len(s) + 1
  BY <1>2, LenProperties
<1>4. ToSet(Append(s, x)) = ToSet(s) \cup {x}
  BY <1>1, <1>2, <1>3 DEF ToSet
<1>5. \A i \in 1 .. Len(s) : s[i] # x
  BY <1>1 DEF ToSet
<1>6. Distinct(Append(s, x))
  BY <1>1, <1>2, <1>5 DEF Distinct
<1>7. QED
  BY <1>2, <1>4, <1>6

LEMMA PathInitHolds == BroadcastInit => PathInv
<1> SUFFICES ASSUME BroadcastInit PROVE PathInv
  OBVIOUS
<1>1. ToSet(<<>>) = {} /\ Distinct(<<>>) /\ Len(<<>>) = 0
  BY EmptySeq DEF ToSet, Distinct
<1>2. QED
  BY <1>1, CutsType DEF BroadcastInit, PathInv

LEMMA PathStepHolds ==
    BroadcastIInv /\ PathInv /\ [BroadcastNext]_broadcastVars => PathInv'
<1> SUFFICES ASSUME BroadcastIInv, PathInv, [BroadcastNext]_broadcastVars PROVE PathInv'
  OBVIOUS
<1>0. /\ flying \in Seq(Places) /\ received \in Seq(Places) /\ Len(received) \in Nat
      /\ DOMAIN flying = 1 .. Len(flying) /\ nextOut \in Places /\ Len(Cuts) \in Nat
  BY LenProperties, CutsType DEF BroadcastIInv
<1>1. ASSUME NEW i \in DOMAIN flying, Receive(i)
      PROVE  PathInv'
  <2> DEFINE p == flying[i]
  <2>1. /\ flying' = RemoveAt(flying, i) /\ received' = Append(received, p)
        /\ UNCHANGED <<numbered, nextOut, lost>>
        /\ IF numbered THEN total' = total + 1 ELSE UNCHANGED total
    BY <1>1 DEF Receive, TrackSeq
  <2>2. p \in Places /\ p \in ToSet(flying) /\ i \in 1 .. Len(flying)
    BY <1>0, ElementOfSeq DEF ToSet
  <2>3. /\ Distinct(flying') /\ ToSet(flying') = ToSet(flying) \ {p}
    BY <1>0, <2>1, <2>2, RemovedIs DEF PathInv
  <2>4. /\ Distinct(received') /\ ToSet(received') = ToSet(received) \cup {p}
        /\ Len(received') = Len(received) + 1
    BY <1>0, <2>1, <2>2, AppendedIs, AppendProperties DEF PathInv
  <2> HIDE DEF p
  <2>5. QED
    BY <1>0, <2>1, <2>2, <2>3, <2>4 DEF PathInv
<1>2. CASE SendNext
  <2>1. /\ flying' = Append(flying, nextOut) /\ nextOut' = nextOut + 1
        /\ nextOut <= Len(Cuts) /\ UNCHANGED <<numbered, total, received, lost>>
    BY <1>2 DEF SendNext
  <2>2. nextOut \notin ToSet(flying) \cup ToSet(received) \cup lost
    BY <1>0 DEF PathInv, Places
  <2>3. Distinct(flying') /\ ToSet(flying') = ToSet(flying) \cup {nextOut}
    BY <1>0, <2>1, <2>2, AppendedIs DEF PathInv
  <2>4. \A x \in ToSet(flying) \cup ToSet(received) \cup lost : x < nextOut + 1
    <3>1. ToSet(received) \subseteq Nat /\ ToSet(flying) \subseteq Nat
      BY <1>0, ElementOfSeq, LenProperties DEF ToSet, Places
    <3>2. \A x \in ToSet(flying) \cup ToSet(received) \cup lost : x \in Nat /\ x < nextOut
      BY <3>1 DEF PathInv, Places
    <3>3. \A x \in Nat : x < nextOut => x < nextOut + 1
      BY <1>0 DEF Places
    <3>4. QED
      BY <3>2, <3>3
  <2>5. QED
    BY <1>0, <2>1, <2>2, <2>3, <2>4 DEF PathInv, Places
<1>3. ASSUME NEW i \in DOMAIN flying, Lose(i)
      PROVE  PathInv'
  <2> DEFINE p == flying[i]
  <2>1. /\ flying' = RemoveAt(flying, i) /\ lost' = lost \cup {p}
        /\ UNCHANGED <<numbered, nextOut, total, received>>
    BY <1>3 DEF Lose
  <2>2. p \in Places /\ p \in ToSet(flying) /\ i \in 1 .. Len(flying)
    BY <1>0, ElementOfSeq DEF ToSet
  <2>3. /\ Distinct(flying') /\ ToSet(flying') = ToSet(flying) \ {p}
    BY <1>0, <2>1, <2>2, RemovedIs DEF PathInv
  <2> HIDE DEF p
  <2>4. QED
    BY <1>0, <2>1, <2>2, <2>3 DEF PathInv
<1>4. CASE Return \/ AllThrough \/ UNCHANGED broadcastVars
  <2>1. UNCHANGED <<numbered, flying, nextOut, total, received, lost>>
    BY <1>4 DEF Return, AllThrough, broadcastVars
  <2>2. QED
    BY <2>1 DEF PathInv
<1>5. QED
  BY <1>1, <1>2, <1>3, <1>4 DEF BroadcastNext

\* A sequence without repetition is as long as it has elements.
LEMMA DistinctLength ==
    ASSUME NEW s \in Seq(Places), Distinct(s)
    PROVE  IsFiniteSet(ToSet(s)) /\ Cardinality(ToSet(s)) = Len(s)
<1>1. Len(s) \in Nat /\ DOMAIN s = 1 .. Len(s)
  BY LenProperties
<1> DEFINE D == 1 .. Len(s)
<1>2. IsFiniteSet(D) /\ Cardinality(D) = Len(s)
  <2>1. /\ IsFiniteSet(1 .. Len(s))
        /\ Cardinality(1 .. Len(s)) = IF 1 > Len(s) THEN 0 ELSE Len(s) - 1 + 1
    BY <1>1, FS_Interval
  <2>2. QED
    BY <1>1, <2>1
<1>3. s \in Surjection(D, ToSet(s))
  <2>1. s \in [D -> ToSet(s)]
    <3>1. s \in [DOMAIN s -> Places]
      BY <1>1, LenProperties
    <3>2. QED
      BY <1>1, <3>1 DEF ToSet
  <2>2. QED
    BY <1>1, <2>1 DEF ToSet, Surjection
<1>4. s \in Injection(D, ToSet(s))
  <2>1. \A a, b \in D : s[a] = s[b] => a = b
    BY DEF Distinct
  <2>2. s \in [D -> ToSet(s)] /\ DOMAIN s = D
    BY <1>1, <1>3 DEF Surjection
  <2> HIDE DEF D
  <2>3. IsInjective(s)
    BY <2>1, <2>2 DEF IsInjective
  <2>4. QED
    BY <2>2, <2>3 DEF Injection
<1>5. ExistsBijection(D, ToSet(s))
  BY <1>3, <1>4 DEF Bijection, ExistsBijection
<1>6. QED
  BY <1>2, <1>5, FS_Bijection DEF ExistsBijection

\* The read side's counters and the datagrams on their way.
LEMMA BroadcastTyped == BroadcastIInv /\ PathInv => BroadcastTypeOK
<1> SUFFICES ASSUME BroadcastIInv, PathInv PROVE BroadcastTypeOK
  OBVIOUS
<1>1. received \in Seq(Places) /\ Len(received) \in Nat /\ nextOut \in Nat /\ Len(Cuts) \in Nat
  BY LenProperties, CutsType DEF BroadcastIInv, Places
<1>2. Len(received) <= Len(Cuts)
  <2> DEFINE D == 1 .. Len(Cuts)
  <2>1. ToSet(received) \in SUBSET D
    <3>1. \A x \in ToSet(received) : x \in Nat /\ 1 <= x
      BY <1>1, ElementOfSeq, LenProperties DEF ToSet, Places
    <3>2. \A x \in ToSet(received) : x < nextOut /\ nextOut <= Len(Cuts) + 1
      BY <1>1 DEF PathInv
    <3>3. QED
      BY <1>1, <3>1, <3>2
  <2>2. IsFiniteSet(D) /\ Cardinality(D) = Len(Cuts)
    <3>1. /\ IsFiniteSet(1 .. Len(Cuts))
          /\ Cardinality(1 .. Len(Cuts)) = IF 1 > Len(Cuts) THEN 0 ELSE Len(Cuts) - 1 + 1
      BY <1>1, FS_Interval, 1 \in Int, Len(Cuts) \in Int
    <3>2. QED
      BY <1>1, <3>1
  <2> HIDE DEF D
  <2>3. Cardinality(ToSet(received)) <= Cardinality(D)
    BY <2>1, <2>2, FS_Subset
  <2>4. Cardinality(ToSet(received)) = Len(received)
    BY <1>1, DistinctLength DEF PathInv
  <2>5. QED
    BY <2>2, <2>3, <2>4
<1>3. expected \in -1 .. NumMod - 1
  <2>0. NumMod \in Nat \ {0} /\ FirstSeq \in Nat
    BY BroadcastBounds
  <2>1. CASE numbered
    <3>1. CASE received = <<>>
      BY <2>0, <2>1, <3>1 DEF BroadcastIInv
    <3>2. CASE received # <<>>
      <4>1. Len(received) \in 1 .. Len(received)
        BY <1>1, <3>2, EmptySeq
      <4>2. LastPlace \in Places
        BY <1>1, <4>1, ElementOfSeq DEF LastPlace
      <4>3. FirstSeq + LastPlace \in Int /\ expected = (FirstSeq + LastPlace) % NumMod
        BY <2>0, <2>1, <3>2, <4>2 DEF BroadcastIInv, Places
      <4>4. \A x \in Int : x % NumMod \in 0 .. NumMod - 1
        BY <2>0
      <4>5. expected \in 0 .. NumMod - 1
        BY <4>3, <4>4
      <4>6. QED
        BY <2>0, <4>5
    <3>3. QED
      BY <3>1, <3>2
  <2>2. CASE ~numbered
    BY <2>0, <2>2 DEF BroadcastIInv
  <2>3. QED
    BY <2>1, <2>2
<1>4. total \in 0 .. Len(Cuts)
  BY <1>1, <1>2 DEF PathInv
<1>5. QED
  BY <1>3, <1>4 DEF BroadcastTypeOK, BroadcastIInv, PathInv

-----------------------------------------------------------------------------
(* The bound from above.                                                   *)

\* What was counted too much is what the numbers went back by, but for what they
\* have yet to make up.
DropsBounded ==
    numbered /\ received # <<>> /\ NoRestart /\ NoneTooLate =>
        drops + Max(ToSet(received)) - LastPlace
            <= Cardinality(Missing) + Cardinality(CountedAgain)

DropsInv ==
    /\ IsFiniteSet(CountedAgain) /\ DropsBounded
    /\ received = <<>> => drops = 0

\* What is counted again when one more datagram has come.
LEMMA OneMoreAgain ==
    ASSUME BroadcastIInv, received # <<>>, NEW p \in Places, received' = Append(received, p),
           IsFiniteSet(CountedAgain), p # LastPlace
    PROVE  /\ IsFiniteSet(CountedAgain')
           /\ Cardinality(CountedAgain) \in Nat
           /\ Cardinality(CountedAgain') = Cardinality(CountedAgain)
                  + (IF p < LastPlace THEN LastPlace - p + 1 ELSE 0)
<1> DEFINE n == Len(received)
           again == {n + 1} \X (p .. LastPlace)
<1>1. /\ n \in Nat /\ n >= 1 /\ LastPlace \in Nat /\ p \in Nat
      /\ received' \in Seq(Places) /\ Len(received') = n + 1
      /\ \A i \in 1 .. n : received'[i] = received[i]
      /\ received'[n + 1] = p /\ LastPlace = received[n]
  <2>1. received \in Seq(Places) /\ n \in Nat /\ n >= 1
    BY LenProperties, EmptySeq DEF BroadcastIInv
  <2>2. LastPlace \in Places
    BY <2>1, ElementOfSeq, n \in 1 .. n DEF LastPlace
  <2>3. QED
    BY <2>1, <2>2, AppendProperties DEF Places, LastPlace
<1>2. LateOnes \in SUBSET (2 .. n)
  BY DEF LateOnes
<1>3. LateOnes' = LateOnes \cup (IF p < LastPlace THEN {n + 1} ELSE {})
  <2>1. \A i \in 2 .. n : (received'[i] < received'[i - 1]) <=> (received[i] < received[i - 1])
    BY <1>1
  <2>2. (received'[n + 1] < received'[(n + 1) - 1]) <=> p < LastPlace
    BY <1>1
  <2>3. 2 .. n + 1 = (2 .. n) \cup {n + 1}
    BY <1>1
  <2> HIDE DEF n
  <2>4. LateOnes' = {i \in 2 .. n + 1 : received'[i] < received'[i - 1]}
    BY <1>1 DEF LateOnes
  <2>5. LateOnes = {i \in 2 .. n : received[i] < received[i - 1]}
    BY DEF LateOnes, n
  <2>6. QED
    BY <2>1, <2>2, <2>3, <2>4, <2>5
<1>4. \A i \in LateOnes : received'[i] = received[i] /\ received'[i - 1] = received[i - 1]
  <2>1. \A i \in 2 .. n : i \in 1 .. n /\ i - 1 \in 1 .. n
    BY <1>1
  <2>2. QED
    BY <1>1, <1>2, <2>1
<1>5. CountedAgain' = CountedAgain \cup (IF p < LastPlace THEN again ELSE {})
  <2>1. /\ received'[n + 1] = p /\ received'[(n + 1) - 1] = LastPlace
    BY <1>1
  <2>2. \A x : x \in CountedAgain <=>
                \E i \in LateOnes : x \in {i} \X (received[i] .. received[i - 1])
    BY DEF CountedAgain
  <2>3. \A x : x \in CountedAgain' <=>
                \E i \in LateOnes' : x \in {i} \X (received'[i] .. received'[i - 1])
    BY DEF CountedAgain
  <2>4. \A x : x \in CountedAgain' <=>
                \/ \E i \in LateOnes : x \in {i} \X (received[i] .. received[i - 1])
                \/ p < LastPlace /\ x \in {n + 1} \X (received'[n + 1] .. received'[(n + 1) - 1])
    BY <1>3, <1>4, <2>3
  <2>5. again = {n + 1} \X (received'[n + 1] .. received'[(n + 1) - 1])
    BY <2>1
  <2> HIDE DEF again
  <2>6. QED
    BY <2>2, <2>4, <2>5
<1>6. Cardinality(CountedAgain) \in Nat
  BY FS_CardinalityType
<1>7. CASE p < LastPlace
  <2>1. IsFiniteSet(p .. LastPlace) /\ Cardinality(p .. LastPlace) = LastPlace - p + 1
    <3>1. /\ IsFiniteSet(p .. LastPlace)
          /\ Cardinality(p .. LastPlace) = IF p > LastPlace THEN 0 ELSE LastPlace - p + 1
      <4>1. p \in Int /\ LastPlace \in Int
        BY <1>1
      <4> HIDE DEF n
      <4>2. QED
        BY <4>1, FS_Interval
    <3>2. QED
      BY <1>1, <1>7, <3>1
  <2>2. IsFiniteSet({n + 1}) /\ Cardinality({n + 1}) = 1
    BY FS_Singleton
  <2>3. IsFiniteSet(again) /\ Cardinality(again) = 1 * Cardinality(p .. LastPlace)
    BY <2>1, <2>2, FS_Product
  <2>4. CountedAgain \cap again = {}
    <3>1. \A i \in LateOnes : i # n + 1
      BY <1>1, <1>2
    <3> HIDE DEF n
    <3>2. QED
      BY <3>1 DEF CountedAgain
  <2> HIDE DEF again
  <2>5. /\ IsFiniteSet(CountedAgain \cup again)
        /\ Cardinality(CountedAgain \cup again)
              = Cardinality(CountedAgain) + Cardinality(again) - Cardinality(CountedAgain \cap again)
    BY <2>3, FS_Union
  <2>6. Cardinality(CountedAgain \cap again) = 0
    BY <2>4, FS_EmptySet
  <2>7. CountedAgain' = CountedAgain \cup again
    BY <1>5, <1>7
  <2>8. QED
    BY <1>1, <1>6, <1>7, <2>1, <2>3, <2>5, <2>6, <2>7
<1>8. CASE ~(p < LastPlace)
  <2> HIDE DEF again
  <2>1. CountedAgain' = CountedAgain
    BY <1>5, <1>8
  <2>2. QED
    BY <1>6, <1>8, <2>1
<1>9. QED
  BY <1>7, <1>8

\* The distance back to a number, when it is less than m.
LEMMA ModSubBack ==
    ASSUME NEW m \in Nat \ {0}, NEW a \in Int, NEW b \in Int, -m < a - b, a - b < 0
    PROVE  ((a % m) - (b % m)) % m = (a - b) + m
<1>1. PICK q \in Int, r \in 0 .. m - 1 : a = m * q + r /\ a % m = r
  BY DivMod
<1>2. a + m = m * (q + 1) + r /\ q + 1 \in Int
  BY <1>1
<1>3. (a + m) % m = a % m
  BY <1>1, <1>2, ModIs
<1>4. (((a + m) % m) - (b % m)) % m = (a + m) - b
  BY ModSub, a + m \in Int, 0 <= (a + m) - b, (a + m) - b < m
<1>5. QED
  BY <1>3, <1>4

\* The gap of a datagram that comes late is too wide to be one.
LEMMA LateHasNoGap ==
    ASSUME BroadcastIInv, numbered, received # <<>>, NEW p \in Places,
           LastPlace \in Places, p < LastPlace, GapMax - NumMod < p - LastPlace - 1
    PROVE  Gap(NumberOf(p)) > GapMax
<1> DEFINE a == FirstSeq + p - 1
           b == FirstSeq + LastPlace
<1>1. /\ a \in Int /\ b \in Int /\ a - b = p - LastPlace - 1 /\ -NumMod < a - b /\ a - b < 0
      /\ (a - b) + NumMod > GapMax
  BY BroadcastBounds DEF Places
<1>2. NumberOf(p) = a % NumMod /\ expected = b % NumMod
  BY DEF BroadcastIInv, NumberOf
<1> HIDE DEF a, b
<1>3. ((a % NumMod) - (b % NumMod)) % NumMod = (a - b) + NumMod
  BY <1>1, ModSubBack, BroadcastBounds
<1>4. QED
  BY <1>1, <1>2, <1>3 DEF Gap

\* What drops, the missing and the farthest become.
LEMMA DropsGrow ==
    ASSUME BroadcastIInv, NEW p \in Places, received' = Append(received, p), received # <<>>,
           numbered, TrackSeq(NumberOf(p)), NoRestart', NoneTooLate', p # LastPlace
    PROVE  /\ NoRestart /\ NoneTooLate
           /\ p > LastPlace => drops' = drops + (p - LastPlace - 1)
           /\ p < LastPlace => drops' = drops
<1>1. /\ NoRestart /\ p - LastPlace - 1 <= GapMax /\ LastPlace \in Places
  BY OneMoreReceived
<1>2. NoneTooLate /\ GapMax - NumMod < p - LastPlace - 1
  <2> DEFINE n == Len(received)
  <2>1. n \in Nat /\ n >= 1
    BY EmptySeq, LenProperties DEF BroadcastIInv
  <2>2. /\ Len(received') = n + 1 /\ \A i \in 1 .. n : received'[i] = received[i]
        /\ received'[n + 1] = p /\ LastPlace = received[n]
    BY AppendProperties DEF BroadcastIInv, LastPlace
  <2>3. \A i \in 2 .. n + 1 : GapMax - NumMod < received'[i] - received'[i - 1] - 1
    BY <2>2 DEF NoneTooLate
  <2> HIDE DEF n
  <2>4. \A i \in 2 .. n : i \in 2 .. n + 1 /\ i \in 1 .. n /\ i - 1 \in 1 .. n
    BY <2>1
  <2>5. n + 1 \in 2 .. n + 1 /\ (n + 1) - 1 = n /\ n \in 1 .. n
    BY <2>1
  <2>6. \A i \in 2 .. n : GapMax - NumMod < received[i] - received[i - 1] - 1
    BY <2>2, <2>3, <2>4
  <2>7. GapMax - NumMod < p - LastPlace - 1
    BY <2>2, <2>3, <2>5
  <2>8. QED
    BY <2>6, <2>7 DEF NoneTooLate, n
<1>3. expected # -1
  <2>1. FirstSeq + LastPlace \in Int /\ expected = (FirstSeq + LastPlace) % NumMod
    BY <1>1, BroadcastBounds DEF BroadcastIInv, Places
  <2>2. \A x \in Int : x % NumMod # -1
    BY BroadcastBounds
  <2>3. QED
    BY <2>1, <2>2
<1>4. ASSUME p > LastPlace
      PROVE  drops' = drops + (p - LastPlace - 1)
  <2>1. p - LastPlace - 1 \in 0 .. GapMax
    BY <1>1, <1>4, BroadcastBounds DEF Places
  <2>2. Gap(NumberOf(p)) = p - LastPlace - 1
    BY <1>1, <1>4, GapIsPassedOver
  <2>3. QED
    BY <1>3, <2>1, <2>2 DEF TrackSeq
<1>5. ASSUME p < LastPlace
      PROVE  drops' = drops
  <2>1. Gap(NumberOf(p)) > GapMax
    BY <1>1, <1>2, <1>5, LateHasNoGap
  <2>2. Gap(NumberOf(p)) \notin 0 .. GapMax
    BY <2>1, BroadcastBounds
  <2>3. QED
    BY <2>2 DEF TrackSeq
<1>6. QED
  BY <1>1, <1>2, <1>4, <1>5

\* The missing, when the datagram is the farthest and when it is not.
LEMMA MissingGrows ==
    ASSUME BroadcastIInv, NEW p \in Places, received' = Append(received, p), received # <<>>,
           p \notin ToSet(received)
    PROVE  LET m == Max(ToSet(received)) IN
           /\ m \in Places /\ LastPlace \in Places /\ LastPlace <= m /\ p # m
           /\ Cardinality(Missing) \in Nat
           /\ Max(ToSet(received')) = IF p < m THEN m ELSE p
           /\ Cardinality(Missing') \in Nat
           /\ p > m => Cardinality(Missing') = Cardinality(Missing) + (p - 1 - m)
           /\ p < m => Cardinality(Missing') >= Cardinality(Missing) - 1
<1> DEFINE m == Max(ToSet(received))
<1>1. /\ received'[1] = received[1] /\ LastPlace \in ToSet(received)
      /\ ToSet(received') = ToSet(received) \cup {p} /\ ToSet(received) \subseteq Places
  BY OneMoreReceived
<1>2. m \in ToSet(received) /\ \A x \in ToSet(received) : x <= m
  BY DEF BroadcastIInv
<1>3. received[1] \in ToSet(received)
  BY LenProperties, EmptySeq DEF BroadcastIInv, ToSet
<1>4. /\ m \in Places /\ LastPlace \in Places /\ LastPlace <= m /\ p # m
      /\ received[1] \in Places /\ received[1] <= m
  BY <1>1, <1>2, <1>3
<1>5. IsFiniteSet(Missing) /\ Cardinality(Missing) \in Nat
  BY MissingFinite
<1> HIDE DEF m
<1>6. Max(ToSet(received')) = IF p < m THEN m ELSE p
  BY <1>4, FarthestReceived DEF m, Places
<1>7. Missing = {n \in received[1] .. m : n \notin ToSet(received)}
  BY DEF Missing, m
<1>8. ASSUME p > m
      PROVE  Cardinality(Missing') = Cardinality(Missing) + (p - 1 - m)
  <2> DEFINE passed == m + 1 .. p - 1
  <2>1. Missing' = {n \in received[1] .. p : n \notin ToSet(received) \cup {p}}
    BY <1>1, <1>4, <1>6, <1>8 DEF Missing, Places
  <2>2. \A n \in ToSet(received) : n <= m
    BY <1>2
  <2>3. Missing' = Missing \cup passed
    BY <1>4, <1>7, <1>8, <2>1, <2>2 DEF Places
  <2>4. Missing \cap passed = {}
    BY <1>4, <1>7 DEF Places
  <2>5. IsFiniteSet(passed) /\ Cardinality(passed) = p - 1 - m
    <3>1. m + 1 \in Int /\ p - 1 \in Int /\ m \in Int
      BY <1>4 DEF Places
    <3>2. /\ IsFiniteSet(passed)
          /\ Cardinality(passed) = IF m + 1 > p - 1 THEN 0 ELSE (p - 1) - (m + 1) + 1
      BY <3>1, FS_Interval
    <3>3. QED
      BY <1>8, <3>1, <3>2 DEF Places
  <2> HIDE DEF passed
  <2>6. Cardinality(Missing \cup passed)
            = Cardinality(Missing) + Cardinality(passed) - Cardinality(Missing \cap passed)
    BY <1>5, <2>5, FS_Union
  <2>7. Cardinality(Missing \cap passed) = 0
    BY <2>4, FS_EmptySet
  <2>8. p - 1 - m \in Int
    BY <1>4 DEF Places
  <2>9. QED
    BY <1>5, <2>3, <2>5, <2>6, <2>7, <2>8
<1>9. ASSUME p < m
      PROVE  Cardinality(Missing') >= Cardinality(Missing) - 1
  <2>1. Missing' = Missing \ {p}
    BY <1>1, <1>4, <1>6, <1>7, <1>9 DEF Missing
  <2>2. IsFiniteSet(Missing \ {p})
        /\ Cardinality(Missing \ {p}) = IF p \in Missing THEN Cardinality(Missing) - 1
                                        ELSE Cardinality(Missing)
    BY <1>5, FS_RemoveElement
  <2>3. QED
    BY <1>5, <2>1, <2>2
<1>10. Cardinality(Missing') \in Nat
  <2>1. CASE p < m
    <3>1. Missing' = Missing \ {p}
      BY <1>1, <1>4, <1>6, <1>7, <2>1 DEF Missing
    <3>2. QED
      BY <1>5, <3>1, FS_RemoveElement, FS_CardinalityType
  <2>2. CASE p > m
    BY <1>4, <1>5, <1>8, <2>2 DEF Places
  <2>3. QED
    BY <1>4, <2>1, <2>2 DEF Places
<1>11. QED
  BY <1>4, <1>5, <1>6, <1>8, <1>9, <1>10 DEF m

\* One more that has come is within the bound.
LEMMA ReceiveBounded ==
    ASSUME BroadcastIInv, PathInv, DropsInv, NEW p \in Places, p \notin ToSet(received),
           received' = Append(received, p), numbered' = numbered,
           IF numbered THEN TrackSeq(NumberOf(p)) ELSE UNCHANGED <<expected, drops, total>>
    PROVE  DropsInv'
<1>1. received' # <<>> /\ LastPlace' = p
  BY OneMoreReceived
<1>2. CASE received = <<>>
  <2>1. received' = <<p>> /\ ToSet(received) = {} /\ Len(<<p>>) = 1 /\ <<p>>[1] = p
    BY <1>2, EmptySeq DEF ToSet
  <2>2. Max(ToSet(received')) = p /\ ToSet(received') = {p}
    BY <1>2, <2>1, FarthestReceived, OneMoreReceived
  <2>3. Missing' = {}
    BY <2>1, <2>2 DEF Missing, Places
  <2>4. LateOnes' = {}
    BY <2>1 DEF LateOnes
  <2>5. CountedAgain' = {}
    BY <2>4 DEF CountedAgain
  <2>6. drops' = 0
    BY <1>2 DEF BroadcastIInv, DropsInv, TrackSeq
  <2>7. Cardinality({}) = 0 /\ IsFiniteSet({})
    BY FS_EmptySet
  <2>8. 0 + p - p <= 0 + 0
    BY DEF Places
  <2>9. QED
    BY <1>1, <2>2, <2>3, <2>5, <2>6, <2>7, <2>8 DEF DropsInv, DropsBounded
<1>3. CASE received # <<>>
  <2> DEFINE m == Max(ToSet(received))
             c == Cardinality(Missing)
             d == Cardinality(Missing')
             a == Cardinality(CountedAgain)
             b == Cardinality(CountedAgain')
  <2>1. /\ m \in Places /\ LastPlace \in Places /\ LastPlace <= m /\ p # m
        /\ c \in Nat /\ d \in Nat
        /\ Max(ToSet(received')) = IF p < m THEN m ELSE p
        /\ p > m => d = c + (p - 1 - m)
        /\ p < m => d >= c - 1
    BY <1>3, MissingGrows
  <2>2. p # LastPlace
    BY <1>3, OneMoreReceived
  <2>3. /\ IsFiniteSet(CountedAgain') /\ a \in Nat
        /\ b = a + (IF p < LastPlace THEN LastPlace - p + 1 ELSE 0)
    BY <1>3, <2>2, OneMoreAgain DEF DropsInv
  <2>4. ASSUME numbered', NoRestart', NoneTooLate'
        PROVE  drops' + Max(ToSet(received')) - LastPlace' <= d + b
    <3>1. /\ NoRestart /\ NoneTooLate
          /\ p > LastPlace => drops' = drops + (p - LastPlace - 1)
          /\ p < LastPlace => drops' = drops
      BY <1>3, <2>2, <2>4, DropsGrow
    <3>2. drops + m - LastPlace <= c + a
      BY <1>3, <2>4, <3>1 DEF DropsInv, DropsBounded
    <3>3. drops \in Nat
      BY DEF BroadcastIInv
    <3> DEFINE L == LastPlace
               M == Max(ToSet(received'))
               e == drops'
    <3>4. M = IF p < m THEN m ELSE p
      BY <2>1
    <3> HIDE DEF m, a, b, c, d, L, M, e
    <3>5. CASE p > m
      <4>1. p > L /\ e = drops + (p - L - 1) /\ M = p /\ b = a /\ d = c + (p - 1 - m)
        BY <2>1, <2>3, <3>1, <3>4, <3>5 DEF Places, L, e
      <4>2. e + M - p <= d + b
        BY <2>1, <2>3, <3>2, <3>3, <4>1 DEF Places, L
      <4>3. QED
        BY <1>1, <4>2 DEF M, e
    <3>6. CASE p < m /\ p > L
      <4>1. e = drops + (p - L - 1) /\ M = m /\ b = a /\ d >= c - 1
        BY <2>1, <2>3, <3>1, <3>4, <3>6 DEF Places, L, e
      <4>2. e + M - p <= d + b
        BY <2>1, <2>3, <3>2, <3>3, <4>1 DEF Places, L
      <4>3. QED
        BY <1>1, <4>2 DEF M, e
    <3>7. CASE p < L
      <4>1. e = drops /\ M = m /\ b = a + (L - p + 1) /\ d >= c - 1
        BY <2>1, <2>3, <3>1, <3>4, <3>7 DEF Places, L, e
      <4>2. e + M - p <= d + b
        BY <2>1, <2>3, <3>2, <3>3, <4>1 DEF Places, L
      <4>3. QED
        BY <1>1, <4>2 DEF M, e
    <3>8. QED
      BY <2>1, <2>2, <3>5, <3>6, <3>7 DEF Places, L
  <2>5. QED
    BY <1>1, <2>3, <2>4 DEF DropsInv, DropsBounded
<1>4. QED
  BY <1>2, <1>3

LEMMA DropsInitHolds == BroadcastInit => DropsInv
<1> SUFFICES ASSUME BroadcastInit PROVE DropsInv
  OBVIOUS
<1>1. received = <<>> /\ drops = 0 /\ Len(received) = 0
  BY EmptySeq DEF BroadcastInit
<1>2. LateOnes = {}
  BY <1>1 DEF LateOnes
<1>3. IsFiniteSet(CountedAgain)
  BY <1>2, FS_EmptySet DEF CountedAgain
<1>4. QED
  BY <1>1, <1>3 DEF DropsInv, DropsBounded

LEMMA DropsStepHolds ==
    BroadcastIInv /\ PathInv /\ DropsInv /\ [BroadcastNext]_broadcastVars => DropsInv'
<1> SUFFICES ASSUME BroadcastIInv, PathInv, DropsInv, [BroadcastNext]_broadcastVars
             PROVE  DropsInv'
  OBVIOUS
<1>1. ASSUME NEW i \in DOMAIN flying, Receive(i)
      PROVE  DropsInv'
  <2> DEFINE p == flying[i]
  <2>1. /\ received' = Append(received, p) /\ numbered' = numbered
        /\ IF numbered THEN TrackSeq(NumberOf(p)) ELSE UNCHANGED <<expected, drops, total>>
    BY <1>1 DEF Receive
  <2>2. p \in Places /\ p \in ToSet(flying)
    BY LenProperties, ElementOfSeq DEF ToSet, BroadcastIInv
  <2>3. p \notin ToSet(received)
    BY <2>2 DEF PathInv
  <2> HIDE DEF p
  <2>4. QED
    BY <2>1, <2>2, <2>3, ReceiveBounded
<1>2. ASSUME UNCHANGED <<numbered, received, drops>>
      PROVE  DropsInv'
  BY <1>2 DEF DropsInv, DropsBounded, LastPlace, NoRestart, NoneTooLate, Missing,
              CountedAgain, LateOnes
<1>3. ASSUME NEW i \in DOMAIN flying, Lose(i)
      PROVE  DropsInv'
  BY <1>2, <1>3 DEF Lose
<1>4. CASE SendNext \/ Return \/ AllThrough \/ UNCHANGED broadcastVars
  BY <1>2, <1>4 DEF SendNext, Return, AllThrough, broadcastVars
<1>5. QED
  BY <1>1, <1>3, <1>4 DEF BroadcastNext

LEMMA DropsCovered == BroadcastIInv /\ PathInv /\ DropsInv => DropsCoverLoss
<1> SUFFICES ASSUME BroadcastIInv, PathInv, DropsInv PROVE DropsCoverLoss
  OBVIOUS
<1>1. BroadcastTypeOK /\ DropsSuffice
  BY BroadcastTyped DEF BroadcastIInv
<1>2. ASSUME numbered, received # <<>>, NoRestart, NoneTooLate
      PROVE  drops <= Cardinality(Missing) + Cardinality(CountedAgain)
  <2>1. drops + Max(ToSet(received)) - LastPlace <= Cardinality(Missing) + Cardinality(CountedAgain)
    BY <1>2 DEF DropsInv, DropsBounded
  <2>2. received \in Seq(Places) /\ Len(received) \in 1 .. Len(received)
    BY <1>2, LenProperties, EmptySeq DEF BroadcastIInv
  <2>3. LastPlace \in ToSet(received) /\ LastPlace \in Places /\ ToSet(received) \subseteq Places
    BY <2>2, LenProperties, ElementOfSeq DEF LastPlace, ToSet
  <2>4. Max(ToSet(received)) \in Places /\ LastPlace <= Max(ToSet(received))
    BY <1>2, <2>3 DEF BroadcastIInv
  <2>5. IsFiniteSet(Missing) /\ Cardinality(Missing) \in Nat
    BY <1>2, MissingFinite
  <2>6. Cardinality(CountedAgain) \in Nat
    BY FS_CardinalityType DEF DropsInv
  <2>7. drops \in Nat
    BY DEF BroadcastIInv
  <2> DEFINE m == Max(ToSet(received))
             L == LastPlace
             c == Cardinality(Missing)
             a == Cardinality(CountedAgain)
  <2>8. m \in Nat /\ L \in Nat /\ L <= m /\ c \in Nat /\ a \in Nat /\ drops + m - L <= c + a
    BY <2>1, <2>4, <2>3, <2>5, <2>6 DEF Places
  <2> HIDE DEF m, L, c, a
  <2>9. drops <= c + a
    BY <2>7, <2>8
  <2>10. QED
    BY <2>9 DEF c, a
<1>3. QED
  BY <1>1, <1>2 DEF DropsCoverLoss

-----------------------------------------------------------------------------
(* Where a stream does not go on as a frame does.                          *)

Follows(u, v) ==
    \/ u = Flag /\ (v = Flag \/ v = Body(v[1]))
    \/ u = Body(u[1]) /\ v = Trailer(u[1])
    \/ u = Trailer(u[1]) /\ v = Flag

Breaks(s) == {i \in 1 .. Len(s) : ~Follows(IF i = 1 THEN Flag ELSE s[i - 1], s[i])}

LEMMA BreaksFinite ==
    ASSUME NEW s \in Seq(Unit)
    PROVE  /\ Breaks(s) \in SUBSET Nat /\ IsFiniteSet(Breaks(s))
           /\ Cardinality(Breaks(s)) \in Nat
<1>1. Len(s) \in Nat
  BY LenProperties
<1>2. IsFiniteSet(1 .. Len(s))
  BY <1>1, FS_Interval, 1 \in Int, Len(s) \in Int
<1>3. Breaks(s) \in SUBSET (1 .. Len(s))
  BY DEF Breaks
<1>4. IsFiniteSet(Breaks(s))
  BY <1>2, <1>3, FS_Subset
<1>5. QED
  BY <1>1, <1>3, <1>4, FS_CardinalityType

LEMMA UnitFollows ==
    /\ \A p \in Places : Follows(UnitAt(p), UnitAt(p + 1))
    /\ \A q \in Nat : Follows(Flag, UnitAt(3 * q + 1))
<1>1. ASSUME NEW q \in Nat
      PROVE  Follows(Flag, UnitAt(3 * q + 1))
  <2>1. UnitAt(3 * q + 1) = Body(q + 1) /\ Body(q + 1)[1] = q + 1
    BY UnitPlaces DEF Body
  <2>2. QED
    BY <2>1 DEF Follows
<1>2. ASSUME NEW p \in Places
      PROVE  Follows(UnitAt(p), UnitAt(p + 1))
  <2>1. PICK q \in Nat : p = 3 * q + 1 \/ p = 3 * q + 2 \/ p = 3 * q + 3
    BY PlaceInFrame
  <2>2. /\ UnitAt(3 * q + 1) = Body(q + 1)
        /\ UnitAt(3 * q + 2) = Trailer(q + 1)
        /\ UnitAt(3 * q + 3) = Flag
    BY UnitPlaces
  <2>3. /\ (3 * q + 1) + 1 = 3 * q + 2 /\ (3 * q + 2) + 1 = 3 * q + 3
        /\ (3 * q + 3) + 1 = 3 * (q + 1) + 1 /\ q + 1 \in Nat
    OBVIOUS
  <2>4. Body(q + 1)[1] = q + 1 /\ Trailer(q + 1)[1] = q + 1
    BY DEF Body, Trailer
  <2>5. CASE p = 3 * q + 1
    <3>1. UnitAt(p) = Body(q + 1) /\ UnitAt(p + 1) = Trailer(q + 1)
      BY <2>2, <2>3, <2>5
    <3>2. QED
      BY <2>4, <3>1 DEF Follows
  <2>6. CASE p = 3 * q + 2
    <3>1. UnitAt(p) = Trailer(q + 1) /\ UnitAt(p + 1) = Flag
      BY <2>2, <2>3, <2>6
    <3>2. QED
      BY <2>4, <3>1 DEF Follows
  <2>7. CASE p = 3 * q + 3
    <3>1. UnitAt(p) = Flag /\ Follows(Flag, UnitAt(p + 1))
      BY <1>1, <2>2, <2>3, <2>7
    <3>2. QED
      BY <3>1
  <2>8. QED
    BY <2>1, <2>5, <2>6, <2>7
<1>3. QED
  BY <1>1, <1>2

LEMMA WhatFollows ==
    /\ \A v : Follows(Flag, v) => v = Flag \/ v = Body(v[1])
    /\ \A k, v : Follows(Body(k), v) => v = Trailer(k)
    /\ \A k, v : Follows(Trailer(k), v) => v = Flag
  BY DEF Follows, Flag, Body, Trailer

\* What stands between two delimiters with no break is a frame as it was sent, or
\* nothing.
LEMMA NoBreakNoDamage ==
    ASSUME NEW s \in Seq(Unit), NEW e \in Ends(s),
           \A i \in EndBefore(s, e) + 1 .. e : i \notin Breaks(s)
    PROVE  FrameAt(s, e) = <<>> \/ Intact(FrameAt(s, e))
<1> DEFINE b == EndBefore(s, e)
<1>1. /\ e \in 1 .. Len(s) /\ s[e] = Flag /\ Len(s) \in Nat
      /\ b \in Nat /\ b < e
      /\ b = 0 \/ b \in Ends(s)
      /\ \A d \in Ends(s) : d < e => d <= b
  BY EndBeforeIs, LenProperties
<1>2. \A i \in b + 1 .. e : Follows(IF i = 1 THEN Flag ELSE s[i - 1], s[i])
  <2>1. \A i \in b + 1 .. e : i \in 1 .. Len(s)
    <3> HIDE DEF b
    <3>1. QED
      BY <1>1
  <2>2. QED
    BY <2>1 DEF Breaks
<1>3. (IF b + 1 = 1 THEN Flag ELSE s[(b + 1) - 1]) = Flag
  <2>1. b = 0 \/ s[b] = Flag
    BY <1>1 DEF Ends
  <2> HIDE DEF b
  <2>2. (b + 1) - 1 = b /\ (b + 1 = 1 <=> b = 0)
    BY <1>1
  <2>3. QED
    BY <2>1, <2>2
<1> HIDE DEF b
<1>4. s[b + 1] = Flag \/ s[b + 1] = Body(s[b + 1][1])
  <2>1. b + 1 \in b + 1 .. e
    BY <1>1
  <2>2. Follows(IF b + 1 = 1 THEN Flag ELSE s[(b + 1) - 1], s[b + 1])
    BY <1>2, <2>1
  <2>3. Follows(Flag, s[b + 1])
    BY <1>3, <2>2
  <2>4. QED
    BY <2>3, WhatFollows
<1>5. \A i \in b + 1 .. e : s[i] = Flag => i = e
  <2>1. SUFFICES ASSUME NEW i \in b + 1 .. e, s[i] = Flag PROVE i = e
    OBVIOUS
  <2>2. i \in 1 .. Len(s)
    BY <1>1
  <2>3. i \in Ends(s)
    BY <2>1, <2>2, LenProperties DEF Ends
  <2>4. ~(i < e)
    BY <1>1, <2>3
  <2>5. QED
    BY <1>1, <2>4
<1>6. CASE b + 1 = e
  <2>1. FrameAt(s, e) = SubSeq(s, e, e - 1)
    BY <1>1, <1>6 DEF FrameAt, b
  <2>2. SubSeq(s, e, e - 1) = <<>>
    <3>1. \A i \in e .. e - 1 : s[i] \in Unit
      BY <1>1
    <3>2. SubSeq(s, e, e - 1) \in Seq(Unit) /\ Len(SubSeq(s, e, e - 1)) = IF e <= e - 1 THEN e - 1 - e + 1 ELSE 0
      BY <1>1, <3>1, SubSeqProperties, e - 1 \in Int
    <3>3. Len(SubSeq(s, e, e - 1)) = 0
      BY <1>1, <3>2
    <3>4. QED
      BY <3>2, <3>3, EmptySeq
  <2>3. QED
    BY <2>1, <2>2
<1>7. CASE b + 1 # e
  <2> DEFINE k == s[b + 1][1]
  <2>1. b + 1 < e /\ s[b + 1] = Body(k)
    BY <1>1, <1>4, <1>5, <1>7
  <2>2. s[b + 2] = Trailer(k) /\ b + 2 # e
    <3>1. b + 2 \in b + 1 .. e /\ b + 2 # 1 /\ (b + 2) - 1 = b + 1
      BY <1>1, <2>1
    <3>2. Follows(s[b + 1], s[b + 2])
      BY <1>2, <3>1
    <3>3. s[b + 2] = Trailer(k)
      BY <2>1, <3>2, WhatFollows
    <3>4. Trailer(k) # Flag
      BY DEF Trailer, Flag
    <3>5. QED
      BY <1>1, <3>3, <3>4
  <2>3. e = b + 3
    <3>1. b + 3 \in b + 1 .. e /\ b + 3 # 1 /\ (b + 3) - 1 = b + 2
      BY <1>1, <2>1, <2>2
    <3>2. Follows(s[b + 2], s[b + 3])
      BY <1>2, <3>1
    <3>3. s[b + 3] = Flag
      BY <2>2, <3>2, WhatFollows
    <3>4. QED
      BY <1>5, <3>1, <3>3
  <2> HIDE DEF k
  <2>4. QED
    BY <2>1, <2>2, <2>3, FrameOfThree DEF b
<1>8. QED
  BY <1>6, <1>7

\* Each mangled frame has a break of its own.
LEMMA DamageAtBreaks ==
    ASSUME NEW s \in Seq(Unit)
    PROVE  /\ IsFiniteSet(Mangled(s)) /\ Cardinality(Mangled(s)) \in Nat
           /\ Cardinality(Mangled(s)) <= Cardinality(Breaks(s))
<1>1. Mangled(s) \in SUBSET Ends(s)
  BY DEF Mangled
<1>2. \A e \in Mangled(s) : \E i \in Breaks(s) : EndBefore(s, e) < i /\ i <= e
  <2>1. SUFFICES ASSUME NEW e \in Mangled(s),
                        \A i \in Breaks(s) : ~(EndBefore(s, e) < i /\ i <= e)
                 PROVE  FALSE
    OBVIOUS
  <2>2. e \in Ends(s) /\ e \in Nat /\ EndBefore(s, e) \in Nat
    BY <1>1, EndBeforeIs
  <2>3. \A i \in EndBefore(s, e) + 1 .. e : EndBefore(s, e) < i /\ i <= e
    BY <2>2
  <2>4. \A i \in EndBefore(s, e) + 1 .. e : i \notin Breaks(s)
    BY <2>1, <2>3
  <2>5. FrameAt(s, e) = <<>> \/ Intact(FrameAt(s, e))
    BY <2>2, <2>4, NoBreakNoDamage
  <2>6. QED
    BY <2>5 DEF Mangled
<1>3. QED
  BY <1>1, <1>2, BreaksFinite, OneEach

-----------------------------------------------------------------------------
(* Streams of frames joined.                                               *)

\* A frame that stands elsewhere too, behind the beginning or a delimiter.
LEMMA FrameSame ==
    ASSUME NEW s \in Seq(Unit), NEW t \in Seq(Unit), NEW c \in Int, NEW d \in Ends(s),
           \A i \in EndBefore(s, d) + 1 .. d : c + i \in 1 .. Len(t) /\ t[c + i] = s[i],
           c + EndBefore(s, d) = 0 \/ c + EndBefore(s, d) \in Ends(t)
    PROVE  /\ c + d \in Ends(t) /\ EndBefore(t, c + d) = c + EndBefore(s, d)
           /\ FrameAt(t, c + d) = FrameAt(s, d)
<1> DEFINE b == EndBefore(s, d)
           B == EndBefore(t, c + d)
<1>1. /\ d \in 1 .. Len(s) /\ s[d] = Flag /\ Len(s) \in Nat /\ Len(t) \in Nat
      /\ b \in Nat /\ b < d
      /\ \A x \in Ends(s) : x < d => x <= b
  BY EndBeforeIs, LenProperties
<1>2. /\ \A i \in b + 1 .. d : c + i \in 1 .. Len(t) /\ t[c + i] = s[i]
      /\ c + b = 0 \/ c + b \in Ends(t)
  OBVIOUS
<1>3. /\ \A x : x \in Ends(s) <=> x \in 1 .. Len(s) /\ s[x] = Flag
      /\ \A x : x \in Ends(t) <=> x \in 1 .. Len(t) /\ t[x] = Flag
  BY LenProperties DEF Ends
<1> HIDE DEF b
<1>4. c + d \in Ends(t)
  BY <1>1, <1>2, <1>3
<1>5. /\ B \in Nat /\ B < c + d /\ (B = 0 \/ B \in Ends(t))
      /\ \A x \in Ends(t) : x < c + d => x <= B
  BY <1>4, EndBeforeIs
<1> HIDE DEF B
<1>6. c + b <= B
  <2>1. c + b < c + d
    BY <1>1
  <2>2. QED
    BY <1>2, <1>5, <2>1
<1>7. ~(c + b < B)
  <2>1. SUFFICES ASSUME c + b < B PROVE FALSE
    OBVIOUS
  <2>2. B \in Ends(t) /\ t[B] = Flag
    BY <1>1, <1>2, <1>3, <1>5, <2>1
  <2>3. B - c \in b + 1 .. d /\ c + (B - c) = B /\ B - c < d
    BY <1>1, <1>5, <2>1
  <2>4. s[B - c] = Flag /\ B - c \in 1 .. Len(s)
    BY <1>1, <1>2, <2>2, <2>3
  <2>5. B - c \in Ends(s)
    BY <1>3, <2>4
  <2>6. B - c <= b
    BY <1>1, <2>3, <2>5
  <2>7. QED
    BY <1>1, <1>5, <2>1, <2>6
<1>8. B = c + b
  BY <1>1, <1>5, <1>6, <1>7
<1>9. SubSeq(t, 1 + (c + b), (c + d) - 1) = SubSeq(s, 1 + b, d - 1)
  <2>1. \A i \in 1 + b .. d - 1 : s[i] \in Unit
    BY <1>1, ElementOfSeq
  <2>2. \A i \in 1 + (c + b) .. (c + d) - 1 : t[i] \in Unit
    <3>1. ASSUME NEW i \in 1 + (c + b) .. (c + d) - 1
          PROVE  i \in 1 .. Len(t)
      <4>1. i - c \in b + 1 .. d /\ c + (i - c) = i
        BY <1>1
      <4>2. QED
        BY <1>2, <4>1
    <3>2. QED
      BY <3>1, ElementOfSeq
  <2> DEFINE f == SubSeq(s, 1 + b, d - 1)
             g == SubSeq(t, 1 + (c + b), (c + d) - 1)
             n == d - 1 - b
  <2>3. 1 + b \in Int /\ d - 1 \in Int /\ 1 + (c + b) \in Int /\ (c + d) - 1 \in Int
    BY <1>1
  <2>4. /\ f \in Seq(Unit) /\ Len(f) = IF 1 + b <= d - 1 THEN (d - 1) - (1 + b) + 1 ELSE 0
        /\ \A i \in 1 .. (d - 1) - (1 + b) + 1 : f[i] = s[(1 + b) + i - 1]
    BY <2>1, <2>3, SubSeqProperties
  <2>5. /\ g \in Seq(Unit)
        /\ Len(g) = IF 1 + (c + b) <= (c + d) - 1 THEN ((c + d) - 1) - (1 + (c + b)) + 1 ELSE 0
        /\ \A i \in 1 .. ((c + d) - 1) - (1 + (c + b)) + 1 : g[i] = t[(1 + (c + b)) + i - 1]
    BY <2>2, <2>3, SubSeqProperties
  <2> HIDE DEF f, g
  <2>6. /\ Len(f) = n /\ Len(g) = n /\ n \in Nat
        /\ (d - 1) - (1 + b) + 1 = n /\ ((c + d) - 1) - (1 + (c + b)) + 1 = n
    BY <1>1, <2>4, <2>5
  <2>7. ASSUME NEW i \in 1 .. n
        PROVE  g[i] = f[i]
    <3>1. /\ (1 + b) + i - 1 = b + i /\ (1 + (c + b)) + i - 1 = c + (b + i)
          /\ b + i \in b + 1 .. d
      BY <1>1
    <3>2. f[i] = s[b + i] /\ g[i] = t[c + (b + i)]
      BY <2>4, <2>5, <2>6, <3>1
    <3>3. QED
      BY <1>2, <3>1, <3>2
  <2>8. g = f
    BY <2>4, <2>5, <2>6, <2>7, SeqEqual
  <2>9. QED
    BY <2>8 DEF f, g
<1>10. FrameAt(t, c + d) = SubSeq(t, 1 + (c + b), (c + d) - 1)
  BY <1>8 DEF FrameAt, B
<1>11. FrameAt(s, d) = SubSeq(s, 1 + b, d - 1)
  BY DEF FrameAt, b
<1>12. QED
  BY <1>4, <1>8, <1>9, <1>10, <1>11 DEF B, b

\* A stream that ends with a frame, or is empty.
Closed(s) == s = <<>> \/ s[Len(s)] = Flag

\* What comes behind one is apart from it.
LEMMA FramesJoin ==
    ASSUME NEW s \in Seq(Unit), Closed(s), NEW t \in Seq(Unit)
    PROVE  /\ s \o t \in Seq(Unit)
           /\ ToSet(s \o t) = ToSet(s) \cup ToSet(t)
           /\ \A e \in Ends(s) : /\ e \in Ends(s \o t) /\ e \in 1 .. Len(s)
                                 /\ FrameAt(s \o t, e) = FrameAt(s, e)
           /\ \A e \in Ends(t) : /\ Len(s) + e \in Ends(s \o t) /\ e \in 1 .. Len(t)
                                 /\ FrameAt(s \o t, Len(s) + e) = FrameAt(t, e)
           /\ \A e \in Ends(s \o t) :
                 \/ e \in Ends(s)
                 \/ e - Len(s) \in Ends(t) /\ e > Len(s) /\ e = Len(s) + (e - Len(s))
<1> DEFINE z == s \o t
           n == Len(s)
           m == Len(t)
<1>1. /\ n \in Nat /\ m \in Nat /\ z \in Seq(Unit) /\ Len(z) = n + m
      /\ \A i \in 1 .. n + m : z[i] = IF i <= n THEN s[i] ELSE t[i - n]
  BY LenProperties, ConcatProperties
<1>2. /\ DOMAIN s = 1 .. n /\ DOMAIN t = 1 .. m /\ DOMAIN z = 1 .. n + m
  BY <1>1, LenProperties
<1>3. s = <<>> => n = 0
  BY EmptySeq
<1> HIDE DEF z, n, m
<1>4. (\A i \in 1 .. n : z[i] = s[i] /\ i \in 1 .. n + m)
      /\ (\A i \in 1 .. m : z[n + i] = t[i] /\ n + i \in 1 .. n + m)
  <2>1. ASSUME NEW i \in 1 .. m
        PROVE  z[n + i] = t[i] /\ n + i \in 1 .. n + m
    <3>1. n + i \in 1 .. n + m /\ ~(n + i <= n) /\ (n + i) - n = i
      BY <1>1
    <3>2. QED
      BY <1>1, <3>1
  <2>2. ASSUME NEW i \in 1 .. n
        PROVE  z[i] = s[i] /\ i \in 1 .. n + m
    <3>1. i \in 1 .. n + m /\ i <= n
      BY <1>1
    <3>2. QED
      BY <1>1, <3>1
  <2>3. QED
    BY <2>1, <2>2
<1>5. /\ \A x : x \in Ends(s) <=> x \in 1 .. n /\ s[x] = Flag
      /\ \A x : x \in Ends(t) <=> x \in 1 .. m /\ t[x] = Flag
      /\ \A x : x \in Ends(z) <=> x \in 1 .. n + m /\ z[x] = Flag
  BY <1>2 DEF Ends
<1>6. ToSet(z) = ToSet(s) \cup ToSet(t)
  <2>1. /\ \A x : x \in ToSet(z) <=> \E i \in 1 .. n + m : z[i] = x
        /\ \A x : x \in ToSet(s) <=> \E i \in 1 .. n : s[i] = x
        /\ \A x : x \in ToSet(t) <=> \E i \in 1 .. m : t[i] = x
    BY <1>2 DEF ToSet
  <2>2. ASSUME NEW x, NEW i \in 1 .. n + m, z[i] = x
        PROVE  x \in ToSet(s) \cup ToSet(t)
    <3>1. CASE i <= n
      <4>1. i \in 1 .. n /\ s[i] = x
        BY <1>1, <1>4, <2>2, <3>1
      <4>2. QED
        BY <2>1, <4>1
    <3>2. CASE ~(i <= n)
      <4>1. i - n \in 1 .. m /\ t[i - n] = x
        BY <1>1, <2>2, <3>2
      <4>2. QED
        BY <2>1, <4>1
    <3>3. QED
      BY <3>1, <3>2
  <2>3. \A x \in ToSet(s) \cup ToSet(t) : x \in ToSet(z)
    BY <1>4, <2>1
  <2>4. QED
    BY <2>1, <2>2, <2>3
<1>7. ASSUME NEW e \in Ends(s)
      PROVE  e \in Ends(z) /\ e \in 1 .. n /\ FrameAt(z, e) = FrameAt(s, e)
  <2>1. e \in 1 .. n /\ EndBefore(s, e) \in Nat /\ EndBefore(s, e) < e
        /\ (EndBefore(s, e) = 0 \/ EndBefore(s, e) \in Ends(s))
    BY <1>5, EndBeforeIs
  <2>2. \A i \in EndBefore(s, e) + 1 .. e : 0 + i \in 1 .. Len(z) /\ z[0 + i] = s[i]
    <3>1. \A i \in EndBefore(s, e) + 1 .. e : i \in 1 .. n /\ 0 + i = i
      BY <1>1, <2>1
    <3>2. QED
      BY <1>1, <1>4, <3>1
  <2>3. 0 + EndBefore(s, e) = 0 \/ 0 + EndBefore(s, e) \in Ends(z)
    <3>1. 0 + EndBefore(s, e) = EndBefore(s, e)
      BY <2>1
    <3>2. QED
      BY <1>4, <1>5, <2>1, <3>1
  <2>4. 0 + e \in Ends(z) /\ FrameAt(z, 0 + e) = FrameAt(s, e)
    BY <1>1, <2>2, <2>3, FrameSame, 0 \in Int
  <2>5. 0 + e = e
    BY <2>1
  <2>6. QED
    BY <2>1, <2>4, <2>5
<1>8. ASSUME NEW e \in Ends(t)
      PROVE  n + e \in Ends(z) /\ e \in 1 .. m /\ FrameAt(z, n + e) = FrameAt(t, e)
  <2>1. e \in 1 .. m /\ EndBefore(t, e) \in Nat /\ EndBefore(t, e) < e
        /\ (EndBefore(t, e) = 0 \/ EndBefore(t, e) \in Ends(t))
    BY <1>5, EndBeforeIs
  <2>2. \A i \in EndBefore(t, e) + 1 .. e : n + i \in 1 .. Len(z) /\ z[n + i] = t[i]
    <3>1. \A i \in EndBefore(t, e) + 1 .. e : i \in 1 .. m
      BY <1>1, <2>1
    <3>2. QED
      BY <1>1, <1>4, <3>1
  <2>3. n + EndBefore(t, e) = 0 \/ n + EndBefore(t, e) \in Ends(z)
    <3>1. CASE EndBefore(t, e) \in Ends(t)
      BY <1>4, <1>5, <3>1
    <3>2. CASE EndBefore(t, e) = 0
      <4>1. n + EndBefore(t, e) = n
        BY <1>1, <3>2
      <4>2. n # 0 => s[n] = Flag /\ n \in 1 .. n
        BY <1>1, <1>3 DEF Closed, n
      <4>3. QED
        BY <1>4, <1>5, <4>1, <4>2
    <3>3. QED
      BY <2>1, <3>1, <3>2
  <2>4. n + e \in Ends(z) /\ FrameAt(z, n + e) = FrameAt(t, e)
    BY <1>1, <2>2, <2>3, FrameSame, n \in Int
  <2>5. QED
    BY <2>1, <2>4
<1>9. ASSUME NEW e \in Ends(z)
      PROVE  e \in Ends(s) \/ (e - n \in Ends(t) /\ e > n /\ e = n + (e - n))
  <2>1. e \in 1 .. n + m /\ z[e] = Flag
    BY <1>5
  <2>2. CASE e <= n
    <3>1. e \in 1 .. n
      BY <1>1, <2>1, <2>2
    <3>2. QED
      BY <1>4, <1>5, <2>1, <3>1
  <2>3. CASE ~(e <= n)
    <3>1. e - n \in 1 .. m /\ e > n /\ e = n + (e - n)
      BY <1>1, <2>1, <2>3
    <3>2. t[e - n] = Flag
      BY <1>1, <2>1, <2>3
    <3>3. QED
      BY <1>5, <3>1, <3>2
  <2>4. QED
    BY <2>2, <2>3
<1>10. QED
  BY <1>1, <1>6, <1>7, <1>8, <1>9 DEF z, n, m

\* The mangled ones of both.
LEMMA MangledJoin ==
    ASSUME NEW s \in Seq(Unit), Closed(s), NEW t \in Seq(Unit)
    PROVE  Cardinality(Mangled(s \o t)) <= Cardinality(Mangled(s)) + Cardinality(Mangled(t))
<1> DEFINE z == s \o t
           n == Len(s)
           M == Mangled(z)
           N == Mangled(t)
           A == {e \in M : e \in Ends(s)}
           B == {e \in M : e \notin Ends(s)}
           f == [e \in B |-> e - n]
<1>0. n \in Nat /\ z \in Seq(Unit)
  BY LenProperties, FramesJoin
<1>1. IsFiniteSet(Mangled(s)) /\ IsFiniteSet(N) /\ IsFiniteSet(M)
  BY <1>0, DamageAtBreaks
<1>2. A \in SUBSET Mangled(s)
  <2>1. \A e \in Ends(s) : FrameAt(z, e) = FrameAt(s, e)
    BY FramesJoin
  <2> HIDE DEF z
  <2>2. QED
    BY <2>1 DEF Mangled
<1>3. \A e \in B : e \in Nat /\ e - n \in N
  <2>1. \A e \in Ends(z) : e \in Ends(s) \/ (e - n \in Ends(t) /\ e > n /\ e = n + (e - n))
    BY FramesJoin
  <2>2. \A e \in Ends(t) : FrameAt(z, n + e) = FrameAt(t, e)
    BY FramesJoin
  <2>3. \A e \in Ends(z) : e \in Nat
    BY <1>0, LenProperties DEF Ends
  <2> HIDE DEF z, n
  <2>4. QED
    BY <2>1, <2>2, <2>3 DEF Mangled
<1> HIDE DEF z, n, M, N
<1>4. f \in Injection(B, N)
  <2>1. f \in [B -> N]
    BY <1>3
  <2>2. \A d, e \in B : f[d] = f[e] => d = e
    BY <1>0, <1>3
  <2> HIDE DEF f, B
  <2>3. IsInjective(f)
    BY <2>1, <2>2 DEF IsInjective
  <2>4. QED
    BY <2>1, <2>3 DEF Injection
<1>5. IsFiniteSet(B) /\ Cardinality(B) <= Cardinality(N)
  <2> HIDE DEF f, B
  <2>1. QED
    BY <1>1, <1>4, FS_Injection
<1>6. IsFiniteSet(A) /\ Cardinality(A) <= Cardinality(Mangled(s))
  BY <1>1, <1>2, FS_Subset
<1>7. M = A \cup B /\ A \cap B = {}
  OBVIOUS
<1> HIDE DEF A, B
<1>8. Cardinality(M) = Cardinality(A) + Cardinality(B) - Cardinality(A \cap B)
  BY <1>5, <1>6, <1>7, FS_Union
<1>9. Cardinality(A \cap B) = 0
  BY <1>7, FS_EmptySet
<1>10. /\ Cardinality(A) \in Nat /\ Cardinality(B) \in Nat /\ Cardinality(N) \in Nat
       /\ Cardinality(Mangled(s)) \in Nat
  BY <1>1, <1>5, <1>6, FS_CardinalityType
<1>11. Cardinality(M) <= Cardinality(Mangled(s)) + Cardinality(N)
  <2> DEFINE a == Cardinality(A)
             b == Cardinality(B)
             c == Cardinality(N)
             d == Cardinality(Mangled(s))
             e == Cardinality(M)
  <2>1. a \in Nat /\ b \in Nat /\ c \in Nat /\ d \in Nat /\ a <= d /\ b <= c /\ e = a + b - 0
    BY <1>5, <1>6, <1>8, <1>9, <1>10
  <2> HIDE DEF a, b, c, d, e
  <2>2. e <= d + c
    BY <2>1
  <2>3. QED
    BY <2>2 DEF c, d, e
<1>12. QED
  BY <1>11 DEF z, M, N

-----------------------------------------------------------------------------
(* What _extract_from_record() keeps of a stream.                          *)

\* The log frames of a stream, and what is kept of it.
Logs(s) == {e \in Ends(s) : IsLog(FrameAt(s, e))}
Kept(s) == {i \in DOMAIN s : \E e \in Logs(s) : i \in EndBefore(s, e) + 1 .. e}

\* How many of a set are below its k-th.
LEMMA BelowTheNth ==
    ASSUME NEW I \in SUBSET Int, IsFiniteSet(I), NEW k \in 1 .. Cardinality(I)
    PROVE  Cardinality({y \in I : y < Nth(I, k)}) = k - 1
<1> DEFINE m == Cardinality(I)
           e == [j \in 1 .. m |-> Nth(I, j)]
<1>1. m \in Nat /\ Rises(e, m) /\ I = Listed(e, m) /\ k \in 1 .. m
  BY ListingExists
<1>2. e[k] = Nth(I, k)
  OBVIOUS
<1> HIDE DEF m, e
<1>3. Cardinality({y \in Listed(e, m) : y < e[k]}) = k - 1
  BY <1>1, CountBelow
<1>4. QED
  BY <1>1, <1>2, <1>3

LEMMA KeptType ==
    ASSUME NEW s \in Seq(Unit)
    PROVE  /\ Kept(s) \in SUBSET (1 .. Len(s)) /\ Kept(s) \in SUBSET Int
           /\ IsFiniteSet(Kept(s)) /\ Cardinality(Kept(s)) \in Nat
<1>1. Len(s) \in Nat /\ DOMAIN s = 1 .. Len(s)
  BY LenProperties
<1>2. IsFiniteSet(1 .. Len(s))
  BY <1>1, FS_Interval, 1 \in Int, Len(s) \in Int
<1>3. Kept(s) \in SUBSET (1 .. Len(s))
  BY <1>1 DEF Kept
<1>4. IsFiniteSet(Kept(s))
  BY <1>2, <1>3, FS_Subset
<1>5. QED
  BY <1>3, <1>4, FS_CardinalityType

\* Which places are kept: those of log frames, with their delimiters.
LEMMA KeptIs ==
    ASSUME NEW s \in Seq(Unit)
    PROVE  /\ \A l \in Logs(s) : /\ l \in Ends(s) /\ l \in Kept(s) /\ l \in Int
                                 /\ \A i \in EndBefore(s, l) + 1 .. l : i \in Kept(s)
           /\ \A i \in Kept(s) : \E l \in Logs(s) : EndBefore(s, l) < i /\ i <= l
           /\ \A i \in Kept(s) \cap Ends(s) : i \in Logs(s)
<1>1. /\ Len(s) \in Nat /\ DOMAIN s = 1 .. Len(s)
      /\ \A e \in Ends(s) : /\ e \in 1 .. Len(s) /\ EndBefore(s, e) \in Nat /\ EndBefore(s, e) < e
                            /\ \A d \in Ends(s) : d < e => d <= EndBefore(s, e)
  BY LenProperties, EndBeforeIs
<1>2. \A l \in Logs(s) : l \in Ends(s)
  BY DEF Logs
<1>3. ASSUME NEW l \in Logs(s)
      PROVE  /\ l \in Ends(s) /\ l \in Kept(s) /\ l \in Int
             /\ \A i \in EndBefore(s, l) + 1 .. l : i \in Kept(s)
  <2>1. l \in EndBefore(s, l) + 1 .. l /\ l \in 1 .. Len(s)
    BY <1>1, <1>2
  <2>2. \A i \in EndBefore(s, l) + 1 .. l : i \in 1 .. Len(s)
    BY <1>1, <1>2
  <2>3. \A i \in EndBefore(s, l) + 1 .. l : i \in Kept(s)
    BY <1>1, <2>2 DEF Kept
  <2>4. QED
    BY <1>2, <2>1, <2>3
<1>4. ASSUME NEW i \in Kept(s)
      PROVE  \E l \in Logs(s) : EndBefore(s, l) < i /\ i <= l
  <2>1. PICK l \in Logs(s) : i \in EndBefore(s, l) + 1 .. l
    BY DEF Kept
  <2>2. EndBefore(s, l) \in Nat /\ l \in Nat
    BY <1>1, <1>2
  <2>3. EndBefore(s, l) < i /\ i <= l
    BY <2>1, <2>2
  <2>4. QED
    BY <2>3
<1>5. ASSUME NEW i \in Kept(s), i \in Ends(s)
      PROVE  i \in Logs(s)
  <2>1. PICK l \in Logs(s) : EndBefore(s, l) < i /\ i <= l
    BY <1>4
  <2>2. l \in Ends(s)
    BY <1>2
  <2>3. i = l
    BY <1>1, <1>5, <2>1, <2>2
  <2>4. QED
    BY <2>3
<1>6. QED
  BY <1>3, <1>4, <1>5

\* The places of a frame that is kept follow each other.
LEMMA KeptInARow ==
    ASSUME NEW s \in Seq(Unit), NEW e \in 1 .. Cardinality(Kept(s)), NEW l \in Logs(s),
           Nth(Kept(s), e) = l, NEW i \in EndBefore(s, l) + 1 .. l
    PROVE  (e - l) + i \in 1 .. Cardinality(Kept(s)) /\ Nth(Kept(s), (e - l) + i) = i
<1> DEFINE K == Kept(s)
           c == Cardinality(K)
           b == EndBefore(s, l)
           T == {y \in K : y < i}
           U == i .. l - 1
<1>1. K \in SUBSET Int /\ IsFiniteSet(K) /\ c \in Nat /\ K \in SUBSET (1 .. Len(s))
  BY KeptType
<1>2. l \in Ends(s) /\ l \in Int /\ l \in K /\ \A j \in b + 1 .. l : j \in K
  BY KeptIs
<1>3. b \in Nat /\ b < l /\ e \in 1 .. c /\ Nth(K, e) = l /\ i \in b + 1 .. l
  BY <1>2, EndBeforeIs
<1> HIDE DEF K, c, b
<1>4. PICK k \in 1 .. c : Nth(K, k) = i
  <2>1. \A x \in K : \E j \in 1 .. c : Nth(K, j) = x
    BY <1>1, PlacesInOrder DEF c
  <2>2. QED
    BY <1>2, <1>3, <2>1
<1>5. /\ Cardinality(T) = k - 1
      /\ Cardinality({y \in K : y < l}) = e - 1
  <2>1. \A j \in 1 .. c : Cardinality({y \in K : y < Nth(K, j)}) = j - 1
    BY <1>1, BelowTheNth DEF c
  <2>2. QED
    BY <1>3, <1>4, <2>1
<1>6. {y \in K : y < l} = T \cup U /\ T \cap U = {}
  <2>1. ASSUME NEW y \in K, y < l, ~(y < i)
        PROVE  y \in U
    <3>1. y \in Int
      BY <1>1
    <3>2. QED
      BY <1>2, <1>3, <2>1, <3>1
  <2>2. \A y \in U : y \in K /\ y < l /\ ~(y < i)
    <3>1. \A y \in U : y \in b + 1 .. l /\ y < l /\ ~(y < i)
      BY <1>2, <1>3
    <3>2. QED
      BY <1>2, <3>1
  <2>3. \A y \in K : y < i => y < l
    BY <1>1, <1>2, <1>3
  <2> HIDE DEF U
  <2>4. QED
    BY <2>1, <2>2, <2>3
<1>7. IsFiniteSet(U) /\ Cardinality(U) = l - i
  <2>1. i \in Int /\ l - 1 \in Int
    BY <1>2, <1>3
  <2>2. IsFiniteSet(U) /\ Cardinality(U) = IF i > l - 1 THEN 0 ELSE (l - 1) - i + 1
    BY <2>1, FS_Interval
  <2>3. QED
    BY <1>2, <1>3, <2>2
<1>8. IsFiniteSet(T)
  BY <1>1, FS_Subset, T \in SUBSET K
<1> HIDE DEF T, U
<1>9. Cardinality(T \cup U) = Cardinality(T) + Cardinality(U) - Cardinality(T \cap U)
  BY <1>7, <1>8, FS_Union
<1>10. Cardinality(T \cap U) = 0
  BY <1>6, FS_EmptySet
<1>11. e - 1 = (k - 1) + (l - i) - 0
  BY <1>5, <1>6, <1>7, <1>9, <1>10
<1>12. k = (e - l) + i
  BY <1>2, <1>3, <1>4, <1>11
<1>13. QED
  BY <1>4, <1>12 DEF K, c

\* The frames of what is kept are the log frames, in their order.
LEMMA KeptFrames ==
    ASSUME NEW s \in Seq(Unit)
    PROVE  LET y == Picked(s, Kept(s)) IN
           /\ y \in Seq(Unit) /\ Closed(y) /\ ToSet(y) \subseteq ToSet(s)
           /\ \A e \in Ends(y) : /\ Nth(Kept(s), e) \in Logs(s)
                                 /\ FrameAt(y, e) = FrameAt(s, Nth(Kept(s), e))
           /\ \A d, e \in Ends(y) : d < e => Nth(Kept(s), d) < Nth(Kept(s), e)
           /\ \A l \in Logs(s) : \E e \in Ends(y) : Nth(Kept(s), e) = l
<1> DEFINE K == Kept(s)
           c == Cardinality(K)
           y == Picked(s, K)
<1>1. /\ K \in SUBSET Int /\ IsFiniteSet(K) /\ c \in Nat /\ K \in SUBSET (1 .. Len(s))
      /\ Len(s) \in Nat
  BY KeptType, LenProperties
<1>2. /\ y \in Seq(Unit) /\ Len(y) = c
      /\ \A k \in 1 .. c : Nth(K, k) \in K /\ y[k] = s[Nth(K, k)]
  <2>1. \A i \in K : s[i] \in Unit
    BY <1>1, ElementOfSeq
  <2> HIDE DEF K
  <2>2. QED
    BY <1>1, <2>1, PickedType
<1>3. /\ \A i, j \in 1 .. c : i < j => Nth(K, i) < Nth(K, j)
      /\ \A x \in K : \E k \in 1 .. c : Nth(K, k) = x
      /\ \A k \in 1 .. c : Nth(K, k) \in Int
  <2> HIDE DEF K
  <2>1. QED
    BY <1>1, PlacesInOrder
<1>4. /\ \A l \in Logs(s) : l \in Ends(s) /\ l \in K /\ l \in Int
      /\ \A i \in K : \E l \in Logs(s) : EndBefore(s, l) < i /\ i <= l
      /\ \A i \in K \cap Ends(s) : i \in Logs(s)
  BY KeptIs
<1>5. \A l \in Logs(s) : \A e \in 1 .. c : Nth(K, e) = l =>
          \A i \in EndBefore(s, l) + 1 .. l : (e - l) + i \in 1 .. c /\ Nth(K, (e - l) + i) = i
  BY KeptInARow
<1> HIDE DEF K, c, y
<1>6. /\ \A x : x \in Ends(s) <=> x \in 1 .. Len(s) /\ s[x] = Flag
      /\ \A x : x \in Ends(y) <=> x \in 1 .. c /\ y[x] = Flag
  BY <1>1, <1>2, LenProperties DEF Ends
<1>7. \A e \in Ends(y) : Nth(K, e) \in Logs(s) /\ e \in 1 .. c
  <2>1. SUFFICES ASSUME NEW e \in Ends(y) PROVE Nth(K, e) \in Logs(s) /\ e \in 1 .. c
    OBVIOUS
  <2>2. e \in 1 .. c /\ y[e] = Flag
    BY <1>6
  <2>3. Nth(K, e) \in K /\ s[Nth(K, e)] = Flag /\ Nth(K, e) \in 1 .. Len(s)
    BY <1>1, <1>2, <2>2
  <2>4. QED
    BY <1>4, <1>6, <2>2, <2>3
\* A place that is the last one kept up to some place is a delimiter.
<1>8. ASSUME NEW k \in 1 .. c, NEW l \in Logs(s), Nth(K, k) <= l,
             EndBefore(s, l) < Nth(K, k), k = c \/ l < Nth(K, k + 1)
      PROVE  k \in Ends(y)
  <2>1. PICK j \in 1 .. c : Nth(K, j) = l
    BY <1>3, <1>4
  <2>2. ~(j < k)
    <3>1. j < k => Nth(K, j) < Nth(K, k)
      BY <1>3
    <3>2. QED
      BY <1>3, <1>8, <2>1, <3>1
  <2>3. ~(k < j)
    <3>1. CASE k = c
      BY <1>1, <3>1
    <3>2. CASE k # c /\ l < Nth(K, k + 1)
      <4>1. k + 1 \in 1 .. c
        BY <1>1, <3>2
      <4>2. k + 1 < j => Nth(K, k + 1) < Nth(K, j)
        BY <1>3, <4>1
      <4>3. ~(k + 1 < j) /\ k + 1 # j
        BY <1>3, <1>4, <2>1, <3>2, <4>1, <4>2
      <4>4. QED
        BY <1>1, <4>3
    <3>3. QED
      BY <1>8, <3>1, <3>2
  <2>4. j = k
    BY <1>1, <2>2, <2>3
  <2>5. l \in Ends(s) /\ s[l] = Flag
    BY <1>4, <1>6
  <2>6. y[k] = Flag
    BY <1>2, <2>1, <2>4, <2>5
  <2>7. QED
    BY <1>6, <2>6
<1>9. Closed(y)
  <2>1. CASE c = 0
    BY <1>2, <2>1, EmptySeq DEF Closed
  <2>2. CASE c # 0
    <3>1. c \in 1 .. c
      BY <1>1, <2>2
    <3>2. PICK l \in Logs(s) : EndBefore(s, l) < Nth(K, c) /\ Nth(K, c) <= l
      BY <1>2, <1>4, <3>1
    <3>3. c \in Ends(y)
      BY <1>8, <3>1, <3>2
    <3>4. QED
      BY <1>2, <1>6, <3>3 DEF Closed
  <2>3. QED
    BY <2>1, <2>2
<1>10. ASSUME NEW e \in 1 .. c, NEW l \in Logs(s), Nth(K, e) = l
       PROVE  e \in Ends(y) /\ FrameAt(y, e) = FrameAt(s, l)
  <2> DEFINE b == EndBefore(s, l)
  <2>1. /\ l \in Ends(s) /\ l \in Int /\ b \in Nat /\ b < l /\ l \in 1 .. Len(s)
        /\ b = 0 \/ b \in Ends(s)
    BY <1>4, EndBeforeIs
  <2>2. \A i \in b + 1 .. l : (e - l) + i \in 1 .. c /\ Nth(K, (e - l) + i) = i
    BY <1>5, <1>10
  <2>3. \A x \in Ends(s) : b < x => b <= EndBefore(s, x)
    <3>1. \A x \in Ends(s) : b \in Ends(s) /\ b < x => b <= EndBefore(s, x)
      BY EndBeforeIs
    <3>2. \A x \in Ends(s) : EndBefore(s, x) \in Nat
      BY EndBeforeIs
    <3> HIDE DEF b
    <3>3. QED
      BY <2>1, <3>1, <3>2
  <2> HIDE DEF b
  <2>4. \A i \in b + 1 .. l : (e - l) + i \in 1 .. Len(y) /\ y[(e - l) + i] = s[i]
    BY <1>2, <2>2
  <2>5. (e - l) + b = 0 \/ (e - l) + b \in Ends(y)
    <3> DEFINE k == (e - l) + b
    <3>1. b + 1 \in b + 1 .. l /\ (e - l) + (b + 1) = k + 1 /\ k \in Int
      BY <1>1, <2>1
    <3>2. k + 1 \in 1 .. c /\ Nth(K, k + 1) = b + 1
      BY <2>2, <3>1
    <3> HIDE DEF k
    <3>3. CASE k # 0
      <4>1. k \in 1 .. c /\ k < k + 1
        BY <1>1, <3>1, <3>2, <3>3
      <4>2. Nth(K, k) \in K /\ Nth(K, k) < b + 1 /\ Nth(K, k) \in Int
        BY <1>2, <1>3, <3>2, <4>1
      <4>3. PICK x \in Logs(s) : EndBefore(s, x) < Nth(K, k) /\ Nth(K, k) <= x
        BY <1>4, <4>2
      <4>4. x \in Ends(s) /\ x \in Int /\ EndBefore(s, x) \in Nat
        BY <1>4, EndBeforeIs
      <4>5. ~(b < x)
        <5>1. b < x => b <= EndBefore(s, x)
          BY <2>3, <4>4
        <5>2. QED
          BY <2>1, <4>2, <4>3, <4>4, <5>1
      <4>6. x < Nth(K, k + 1)
        BY <2>1, <3>2, <4>4, <4>5
      <4>7. k \in Ends(y)
        BY <1>8, <4>1, <4>3, <4>6
      <4>8. QED
        BY <4>7 DEF k
    <3>4. QED
      BY <3>3 DEF k
  <2>6. (e - l) \in Int
    BY <2>1
  <2>7. (e - l) + l \in Ends(y) /\ FrameAt(y, (e - l) + l) = FrameAt(s, l)
    BY <1>2, <2>1, <2>4, <2>5, <2>6, FrameSame DEF b
  <2>8. (e - l) + l = e
    BY <2>1
  <2>9. QED
    BY <2>7, <2>8
<1>11. ToSet(y) \subseteq ToSet(s)
  <2>1. SUFFICES ASSUME NEW x \in ToSet(y) PROVE x \in ToSet(s)
    OBVIOUS
  <2>2. PICK k \in 1 .. c : y[k] = x
    BY <1>2, LenProperties DEF ToSet
  <2>3. Nth(K, k) \in 1 .. Len(s) /\ s[Nth(K, k)] = x
    BY <1>1, <1>2, <2>2
  <2>4. QED
    BY <2>3, LenProperties DEF ToSet
<1>12. \A e \in Ends(y) : FrameAt(y, e) = FrameAt(s, Nth(K, e))
  BY <1>7, <1>10
<1>13. \A d, e \in Ends(y) : d < e => Nth(K, d) < Nth(K, e)
  BY <1>3, <1>7
<1>14. \A l \in Logs(s) : \E e \in Ends(y) : Nth(K, e) = l
  BY <1>3, <1>4, <1>10
<1>15. QED
  BY <1>2, <1>7, <1>9, <1>11, <1>12, <1>13, <1>14 DEF K, y

\* Nothing is mangled that was not.
LEMMA MangledKept ==
    ASSUME NEW s \in Seq(Unit)
    PROVE  Cardinality(Mangled(Picked(s, Kept(s)))) <= Cardinality(Mangled(s))
<1> DEFINE y == Picked(s, Kept(s))
           M == Mangled(y)
           N == Mangled(s)
           f == [e \in M |-> Nth(Kept(s), e)]
<1>1. /\ y \in Seq(Unit)
      /\ \A e \in Ends(y) : /\ Nth(Kept(s), e) \in Logs(s)
                            /\ FrameAt(y, e) = FrameAt(s, Nth(Kept(s), e))
      /\ \A d, e \in Ends(y) : d < e => Nth(Kept(s), d) < Nth(Kept(s), e)
      /\ \A l \in Logs(s) : l \in Ends(s) /\ l \in Int
  BY KeptFrames, KeptIs
<1>2. IsFiniteSet(N)
  BY DamageAtBreaks
<1>3. \A e \in Ends(y) : e \in Nat
  BY <1>1, LenProperties DEF Ends
<1> HIDE DEF y
<1>4. \A e \in M : e \in Ends(y) /\ f[e] = Nth(Kept(s), e) /\ f[e] \in N /\ f[e] \in Int
  BY <1>1 DEF Mangled
<1> HIDE DEF M, N
<1>5. f \in [M -> N]
  BY <1>4
<1> HIDE DEF f
<1>6. \A d, e \in M : d < e => f[d] < f[e]
  BY <1>1, <1>4
<1>7. \A d, e \in M : f[d] = f[e] => d = e
  <2>1. \A d, e \in M : d < e \/ e < d \/ d = e
    BY <1>3, <1>4
  <2>2. \A d, e \in M : f[d] = f[e] => ~(f[d] < f[e]) /\ ~(f[e] < f[d])
    BY <1>4
  <2>3. QED
    BY <1>6, <2>1, <2>2
<1>8. IsInjective(f)
  BY <1>5, <1>7 DEF IsInjective
<1>9. f \in Injection(M, N)
  BY <1>5, <1>8 DEF Injection
<1>10. Cardinality(M) <= Cardinality(N)
  BY <1>2, <1>9, FS_Injection
<1>11. QED
  BY <1>10 DEF M, N, y

-----------------------------------------------------------------------------
(* The sender's stream in datagrams.                                       *)

\* Datagram w has the unit at place x of the sender's stream.
Inside(w, x) == Before(w) < x /\ x <= Cuts[w]

\* Where the datagrams end rises.
LEMMA CutsRise ==
    ASSUME NEW p \in DOMAIN Cuts
    PROVE  /\ p \in Places /\ p \in 1 .. Len(Cuts) /\ Cuts[p] \in Nat /\ Before(p) \in Nat
           /\ Before(p) < Cuts[p]
           /\ \A v \in DOMAIN Cuts : v < p => Cuts[v] <= Before(p)
<1>1. Cuts \in Seq(Nat) /\ Len(Cuts) \in Nat /\ DOMAIN Cuts = 1 .. Len(Cuts)
  BY CutsType
<1>2. \A q \in 1 .. Len(Cuts) : Cuts[q] \in Nat
  BY <1>1, ElementOfSeq
<1>3. \A q \in 1 .. Len(Cuts) : /\ Before(q) = IF q = 1 THEN 0 ELSE Cuts[q - 1]
                                /\ Before(q) < Cuts[q]
  BY <1>1, BroadcastAssumption DEF Before
<1>4. \A q \in 1 .. Len(Cuts) : Before(q) \in Nat
  <2>1. \A q \in 1 .. Len(Cuts) : q = 1 \/ q - 1 \in 1 .. Len(Cuts)
    BY <1>1
  <2>2. QED
    BY <1>2, <1>3, <2>1
<1>5. ASSUME NEW v \in 1 .. Len(Cuts), v < p
      PROVE  Cuts[v] <= Before(p)
  <2> DEFINE T == {q \in v + 1 .. Len(Cuts) : ~(Cuts[v] <= Before(q))}
  <2>1. T \subseteq Nat
    BY <1>1
  <2>2. SUFFICES ASSUME T # {} PROVE FALSE
    BY <1>1, <1>5
  <2>3. PICK q \in T : \A x \in T : q <= x
    BY <2>1, <2>2, LeastNatural
  <2>4. q \in v + 1 .. Len(Cuts) /\ q \in 1 .. Len(Cuts) /\ q # 1 /\ ~(Cuts[v] <= Before(q))
    BY <1>1, <2>3
  <2>5. Before(q) = Cuts[q - 1] /\ q - 1 \in 1 .. Len(Cuts)
    BY <1>1, <1>3, <2>4
  <2>6. CASE q = v + 1
    <3>1. q - 1 = v
      BY <2>6
    <3>2. QED
      BY <1>2, <2>4, <2>5, <3>1
  <2>7. CASE q # v + 1
    <3>1. q - 1 \in v + 1 .. Len(Cuts) /\ ~(q <= q - 1)
      BY <1>1, <2>4, <2>7
    <3>2. q - 1 \notin T
      BY <2>3, <3>1
    <3>3. Cuts[v] <= Before(q - 1)
      BY <3>1, <3>2
    <3>4. Before(q - 1) < Cuts[q - 1] /\ Before(q - 1) \in Nat /\ Cuts[q - 1] \in Nat
      BY <1>2, <1>3, <1>4, <2>5
    <3>5. QED
      BY <1>2, <2>4, <2>5, <3>3, <3>4
  <2>8. QED
    BY <2>6, <2>7
<1>6. QED
  BY <1>1, <1>2, <1>3, <1>4, <1>5 DEF Places

\* No place is in two datagrams.
LEMMA InsideOnce ==
    ASSUME NEW v \in DOMAIN Cuts, NEW w \in DOMAIN Cuts, NEW x \in Nat,
           Inside(v, x), Inside(w, x)
    PROVE  v = w
<1>1. /\ v \in Nat /\ w \in Nat /\ Cuts[v] \in Nat /\ Cuts[w] \in Nat
      /\ Before(v) \in Nat /\ Before(w) \in Nat
      /\ (v < w => Cuts[v] <= Before(w)) /\ (w < v => Cuts[w] <= Before(v))
  BY CutsRise DEF Places
<1>2. /\ Before(v) < x /\ x <= Cuts[v] /\ Before(w) < x /\ x <= Cuts[w]
  BY DEF Inside
<1>3. ~(v < w) /\ ~(w < v)
  BY <1>1, <1>2
<1>4. QED
  BY <1>1, <1>3

\* Where the record of a datagram begins.
LEMMA OpeningIs ==
    ASSUME NEW p \in DOMAIN Cuts
    PROVE  /\ Opening(p) \in DOMAIN Cuts /\ Opening(p) \in Nat /\ Opening(p) <= p
           /\ \A z \in RecordEnds : z \in DOMAIN Cuts /\ (z < p => z < Opening(p))
           /\ IsFirst(p) => Opening(p) = p
           /\ ~IsFirst(p) => p - 1 \in DOMAIN Cuts /\ Opening(p - 1) = Opening(p)
           /\ \E a \in Nat : Before(Opening(p)) = 3 * a
<1> DEFINE B == {0} \cup RecordEnds
           b == LastBefore(B, p)
<1>1. /\ Len(Cuts) \in Nat /\ DOMAIN Cuts = 1 .. Len(Cuts) /\ p \in 1 .. Len(Cuts)
      /\ RecordEnds \subseteq 1 .. Len(Cuts) /\ \A z \in RecordEnds : Cuts[z] % 3 = 0
  BY CutsType, BroadcastAssumption
<1>2. B \in SUBSET Nat /\ 0 \in B /\ p \in Nat /\ 0 < p
  BY <1>1
<1> HIDE DEF B
<1>3. b \in B /\ b < p /\ \A c \in B : c < p => c <= b
  BY <1>2, LastBeforeIs
<1> HIDE DEF b
<1>4. Opening(p) = 1 + b /\ b \in Nat
  BY <1>2, <1>3 DEF Opening, B, b
<1>5. Opening(p) \in 1 .. Len(Cuts) /\ Opening(p) \in Nat /\ Opening(p) <= p
  BY <1>1, <1>3, <1>4
<1>6. \A z \in RecordEnds : z < p => z < Opening(p)
  <2>1. \A z \in RecordEnds : z \in B /\ z \in Nat
    BY <1>1 DEF B
  <2>2. QED
    BY <1>3, <1>4, <2>1
<1>7. ASSUME IsFirst(p)
      PROVE  Opening(p) = p
  <2>1. p - 1 \in B /\ p - 1 < p
    BY <1>1, <1>7 DEF IsFirst, B
  <2>2. p - 1 <= b
    BY <1>3, <2>1
  <2>3. QED
    BY <1>2, <1>3, <1>4, <2>2
<1>8. ASSUME ~IsFirst(p)
      PROVE  p - 1 \in 1 .. Len(Cuts) /\ Opening(p - 1) = Opening(p)
  <2>1. p # 1 /\ p - 1 \notin RecordEnds
    BY <1>8 DEF IsFirst
  <2>2. p - 1 \in 1 .. Len(Cuts) /\ p - 1 \in Nat
    BY <1>1, <2>1
  <2>3. b # p - 1
    BY <1>3, <2>1, <2>2 DEF B
  <2>4. b < p - 1
    BY <1>2, <1>3, <1>4, <2>3
  <2>5. \A c \in B : c < p - 1 => c <= b
    BY <1>2, <1>3
  <2>6. LastBefore(B, p - 1) = b
    BY <1>2, <1>3, <2>2, <2>4, <2>5, LastBeforeOnly
  <2>7. QED
    BY <1>4, <2>2, <2>6 DEF Opening, B
<1>9. \E a \in Nat : Before(Opening(p)) = 3 * a
  <2>1. CASE b = 0
    <3>1. Before(Opening(p)) = 0
      BY <1>4, <2>1 DEF Before
    <3>2. QED
      BY <3>1, 0 = 3 * 0
  <2>2. CASE b # 0
    <3>1. b \in RecordEnds
      BY <1>3, <2>2 DEF B
    <3>2. Before(Opening(p)) = Cuts[b] /\ Cuts[b] \in Nat /\ Cuts[b] % 3 = 0
      <4>1. Opening(p) # 1 /\ Opening(p) - 1 = b
        BY <1>4, <2>2
      <4>2. QED
        BY <1>1, <3>1, <4>1, CutsType, ElementOfSeq DEF Before
    <3>3. QED
      <4> DEFINE x == Cuts[b]
      <4>1. x \in Nat /\ x % 3 = 0
        BY <3>2
      <4> HIDE DEF x
      <4>2. x = 3 * (x \div 3) /\ x \div 3 \in Nat
        BY <4>1
      <4>3. QED
        BY <3>2, <4>2 DEF x
  <2>3. QED
    BY <2>1, <2>2
<1>10. QED
  BY <1>1, <1>5, <1>6, <1>7, <1>8, <1>9

\* A segment has no break inside.
LEMMA SegmentBreaks ==
    ASSUME NEW a \in Places, NEW k \in Nat
    PROVE  Breaks(Segment(a, k)) \subseteq {1}
<1> DEFINE s == Segment(a, k)
<1>1. Len(s) = k /\ \A i \in 1 .. k : s[i] = UnitAt(a + i - 1)
  BY SegmentIs
<1> HIDE DEF s
<1>2. ASSUME NEW i \in 1 .. k, i # 1
      PROVE  Follows(s[i - 1], s[i])
  <2>1. /\ i - 1 \in 1 .. k /\ a + (i - 1) - 1 \in Places
        /\ a + i - 1 = (a + (i - 1) - 1) + 1
    BY <1>2 DEF Places
  <2>2. s[i - 1] = UnitAt(a + (i - 1) - 1) /\ s[i] = UnitAt((a + (i - 1) - 1) + 1)
    BY <1>1, <2>1
  <2>3. QED
    BY <2>1, <2>2, UnitFollows
<1>3. Breaks(s) \subseteq {1}
  BY <1>1, <1>2 DEF Breaks
<1>4. QED
  BY <1>3 DEF s

\* Joining adds one break at most.
LEMMA BreaksJoin ==
    ASSUME NEW s \in Seq(Unit), NEW t \in Seq(Unit), t # <<>>, Breaks(t) \subseteq {1}
    PROVE  /\ Cardinality(Breaks(s \o t)) <= Cardinality(Breaks(s)) + 1
           /\ s # <<>> /\ Follows(s[Len(s)], t[1])
                 => Cardinality(Breaks(s \o t)) <= Cardinality(Breaks(s))
<1> DEFINE z == s \o t
           n == Len(s)
           m == Len(t)
<1>1. /\ n \in Nat /\ m \in Nat /\ z \in Seq(Unit) /\ Len(z) = n + m
      /\ \A i \in 1 .. n + m : z[i] = IF i <= n THEN s[i] ELSE t[i - n]
  BY LenProperties, ConcatProperties
<1>2. m >= 1 /\ (s # <<>> => n >= 1)
  BY <1>1, EmptySeq
<1> HIDE DEF z, n, m
<1>3. ASSUME NEW i \in Breaks(z), i # n + 1
      PROVE  i \in Breaks(s)
  <2>1. i \in 1 .. n + m /\ ~Follows(IF i = 1 THEN Flag ELSE z[i - 1], z[i])
    BY <1>1 DEF Breaks
  <2>2. CASE i <= n
    <3>1. i \in 1 .. n /\ (i # 1 => i - 1 \in 1 .. n /\ i - 1 \in 1 .. n + m /\ i - 1 <= n)
      BY <1>1, <2>1, <2>2
    <3>2. z[i] = s[i] /\ (i # 1 => z[i - 1] = s[i - 1])
      BY <1>1, <2>1, <2>2, <3>1
    <3>3. QED
      BY <2>1, <3>1, <3>2 DEF Breaks, n
  <2>3. CASE ~(i <= n)
    <3>1. /\ i - n \in 1 .. m /\ i - n # 1 /\ i # 1 /\ i - 1 \in 1 .. n + m /\ ~(i - 1 <= n)
          /\ (i - 1) - n = (i - n) - 1
      BY <1>1, <1>3, <2>1, <2>3
    <3>2. z[i] = t[i - n] /\ z[i - 1] = t[(i - n) - 1]
      BY <1>1, <2>1, <2>3, <3>1
    <3>3. ~Follows(IF i - n = 1 THEN Flag ELSE t[(i - n) - 1], t[i - n])
      BY <2>1, <3>1, <3>2
    <3>4. i - n \in Breaks(t)
      BY <3>1, <3>3 DEF Breaks, m
    <3>5. QED
      BY <3>1, <3>4
  <2>4. QED
    BY <2>2, <2>3
<1>4. IsFiniteSet(Breaks(s)) /\ Cardinality(Breaks(s)) \in Nat
  BY BreaksFinite
<1>5. Cardinality(Breaks(z)) <= Cardinality(Breaks(s)) + 1 /\ Cardinality(Breaks(z)) \in Nat
  <2>1. Breaks(z) \in SUBSET (Breaks(s) \cup {n + 1})
    BY <1>3
  <2>2. /\ IsFiniteSet(Breaks(s) \cup {n + 1})
        /\ Cardinality(Breaks(s) \cup {n + 1}) = IF n + 1 \in Breaks(s) THEN Cardinality(Breaks(s))
                                                  ELSE Cardinality(Breaks(s)) + 1
    BY <1>4, FS_AddElement
  <2>3. Cardinality(Breaks(z)) <= Cardinality(Breaks(s) \cup {n + 1})
    BY <2>1, <2>2, FS_Subset
  <2>4. Cardinality(Breaks(z)) \in Nat
    BY <1>1, BreaksFinite
  <2>5. QED
    BY <1>4, <2>2, <2>3, <2>4
<1>6. ASSUME s # <<>>, Follows(s[Len(s)], t[1])
      PROVE  Cardinality(Breaks(z)) <= Cardinality(Breaks(s))
  <2>1. /\ n \in 1 .. n + m /\ n <= n /\ n + 1 \in 1 .. n + m /\ ~(n + 1 <= n)
        /\ (n + 1) - n = 1 /\ (n + 1) - 1 = n /\ n + 1 # 1
    BY <1>1, <1>2, <1>6
  <2>2. z[(n + 1) - 1] = s[n] /\ z[n + 1] = t[1]
    BY <1>1, <2>1
  <2>3. n + 1 \notin Breaks(z)
    BY <1>6, <2>1, <2>2 DEF Breaks, n
  <2>4. Breaks(z) \in SUBSET Breaks(s)
    BY <1>3, <2>3
  <2>5. QED
    BY <1>4, <2>4, FS_Subset
<1>7. QED
  BY <1>5, <1>6 DEF z

\* What a datagram carries.
LEMMA DataIs ==
    ASSUME NEW p \in DOMAIN Cuts
    PROVE  /\ Data(p) \in Seq(Unit) /\ Data(p) # <<>>
           /\ Len(Data(p)) = Cuts[p] - Before(p) /\ Len(Data(p)) \in Nat
           /\ Data(p)[1] = UnitAt(Before(p) + 1) /\ Data(p)[Len(Data(p))] = UnitAt(Cuts[p])
           /\ p \in RecordEnds => Data(p)[Len(Data(p))] = Flag
           /\ Breaks(Data(p)) \subseteq {1} /\ (IsFirst(p) => Breaks(Data(p)) = {})
           /\ \A k : Body(k) \in ToSet(Data(p)) => k \in Places /\ Inside(p, 3 * k - 2)
<1> DEFINE a == Before(p) + 1
           n == Cuts[p] - Before(p)
<1>1. Cuts[p] \in Nat /\ Before(p) \in Nat /\ Before(p) < Cuts[p]
  BY CutsRise
<1>2. a \in Places /\ n \in Nat /\ n >= 1 /\ a + n - 1 = Cuts[p] /\ a + 1 - 1 = a
  BY <1>1 DEF Places
<1>3. Data(p) = Segment(a, n)
  BY DEF Data
<1> DEFINE s == Data(p)
<1> HIDE DEF a, n, s
<1>4. s \in Seq(Unit) /\ Len(s) = n /\ \A i \in 1 .. n : s[i] = UnitAt(a + i - 1)
  BY <1>2, <1>3, SegmentIs DEF s
<1>5. s # <<>>
  BY <1>2, <1>4, EmptySeq
<1>6. s[1] = UnitAt(a) /\ s[n] = UnitAt(Cuts[p])
  BY <1>2, <1>4, 1 \in 1 .. n, n \in 1 .. n
<1>7. ASSUME p \in RecordEnds
      PROVE  s[n] = Flag
  <2>1. Cuts[p] % 3 = 0
    BY <1>7, BroadcastAssumption
  <2> DEFINE c == Cuts[p]
  <2>2. c \in Nat /\ c % 3 = 0 /\ c >= 1
    BY <1>1, <2>1
  <2> HIDE DEF c
  <2>3. c = 3 * ((c \div 3) - 1) + 3 /\ (c \div 3) - 1 \in Nat
    BY <2>2
  <2>4. UnitAt(c) = Flag
    BY <2>3, UnitPlaces
  <2>5. QED
    BY <1>6, <2>4 DEF c
<1>8. Breaks(s) \subseteq {1}
  BY <1>2, <1>3, SegmentBreaks DEF s
<1>9. ASSUME IsFirst(p)
      PROVE  Breaks(s) = {}
  <2>1. PICK q \in Nat : Before(Opening(p)) = 3 * q
    BY OpeningIs
  <2>2. Opening(p) = p
    BY <1>9, OpeningIs
  <2>3. a = 3 * q + 1
    BY <2>1, <2>2 DEF a
  <2>4. Follows(Flag, s[1])
    BY <1>6, <2>3, UnitFollows
  <2>5. 1 \notin Breaks(s)
    BY <2>4 DEF Breaks
  <2>6. QED
    BY <1>8, <2>5
<1>10. ASSUME NEW k, Body(k) \in ToSet(s)
       PROVE  k \in Places /\ Inside(p, 3 * k - 2)
  <2>1. PICK i \in 1 .. n : s[i] = Body(k)
    BY <1>4, <1>10, LenProperties DEF ToSet
  <2>2. a + i - 1 \in Places /\ UnitAt(a + i - 1) = Body(k)
    BY <1>2, <1>4, <2>1 DEF Places
  <2>3. k \in Nat /\ (a + i - 1) + 2 = 3 * k
    BY <2>2, PlaceOfUnit
  <2>4. a \in Nat /\ i \in Nat /\ 1 <= i /\ i <= n /\ a >= 1
    BY <1>2, <2>1 DEF Places
  <2>5. k # 0 /\ 3 * k - 2 = a + i - 1
    BY <2>3, <2>4
  <2>6. Before(p) < 3 * k - 2 /\ 3 * k - 2 <= Cuts[p]
    BY <1>1, <1>2, <2>4, <2>5 DEF a
  <2>7. QED
    BY <2>3, <2>5, <2>6 DEF Places, Inside
<1>11. QED
  BY <1>2, <1>4, <1>5, <1>6, <1>7, <1>8, <1>9, <1>10 DEF s, a, n

-----------------------------------------------------------------------------
(* What comes out of a record.                                             *)

\* A record as _extract_from_record() splits it: with what is behind its last flag.
SplitUp(r) == Append(r, Flag)

LEMMA SplitUpIs ==
    ASSUME NEW r \in Seq(Unit), r # <<>>, r[Len(r)] = Flag
    PROVE  /\ SplitUp(r) \in Seq(Unit) /\ Extracted(r) = Picked(SplitUp(r), Kept(SplitUp(r)))
           /\ ToSet(SplitUp(r)) = ToSet(r) \cup {Flag}
           /\ Cardinality(Breaks(SplitUp(r))) <= Cardinality(Breaks(r))
<1> DEFINE f == <<Flag>>
<1>1. Flag \in Unit
  BY DEF Flag, Unit
<1>2. SplitUp(r) = r \o f
  BY <1>1, AppendIsConcat DEF SplitUp
<1>3. /\ f \in Seq(Unit) /\ f # <<>> /\ Len(f) = 1 /\ f[1] = Flag /\ ToSet(f) = {Flag}
  BY <1>1 DEF ToSet
<1>4. Flag[1] = 0 /\ Follows(Flag, Flag)
  BY DEF Flag, Follows
<1> HIDE DEF f
<1>5. Breaks(f) \subseteq {1}
  BY <1>3 DEF Breaks
<1>6. Follows(r[Len(r)], f[1])
  BY <1>3, <1>4
<1>7. Cardinality(Breaks(r \o f)) <= Cardinality(Breaks(r))
  BY <1>3, <1>5, <1>6, BreaksJoin
<1>8. r \o f \in Seq(Unit) /\ ToSet(r \o f) = ToSet(r) \cup ToSet(f)
  BY <1>3, FramesJoin DEF Closed
<1>9. Extracted(r) = Picked(SplitUp(r), Kept(SplitUp(r)))
  BY DEF Extracted, SplitUp, Kept, Logs
<1>10. QED
  BY <1>2, <1>3, <1>7, <1>8, <1>9

\* What comes out of a record.
LEMMA ExtractedIs ==
    ASSUME NEW r \in Seq(Unit), r # <<>>, r[Len(r)] = Flag
    PROVE  /\ Extracted(r) \in Seq(Unit) /\ Closed(Extracted(r))
           /\ \A k : Body(k) \in ToSet(Extracted(r)) => Body(k) \in ToSet(r)
           /\ Cardinality(Mangled(Extracted(r))) <= Cardinality(Breaks(r))
           /\ \A e \in Ends(Extracted(r)) : IsLog(FrameAt(Extracted(r), e))
<1> DEFINE s == SplitUp(r)
           y == Extracted(r)
<1>1. /\ s \in Seq(Unit) /\ y = Picked(s, Kept(s)) /\ ToSet(s) = ToSet(r) \cup {Flag}
      /\ Cardinality(Breaks(s)) <= Cardinality(Breaks(r))
  BY SplitUpIs
<1> HIDE DEF s, y
<1>2. /\ y \in Seq(Unit) /\ Closed(y) /\ ToSet(y) \subseteq ToSet(s)
      /\ \A e \in Ends(y) : /\ Nth(Kept(s), e) \in Logs(s)
                            /\ FrameAt(y, e) = FrameAt(s, Nth(Kept(s), e))
  BY <1>1, KeptFrames
<1>3. ASSUME NEW k, Body(k) \in ToSet(y)
      PROVE  Body(k) \in ToSet(r)
  <2>1. Body(k) # Flag
    BY DEF Body, Flag
  <2>2. QED
    BY <1>1, <1>2, <1>3, <2>1
<1>4. Cardinality(Mangled(y)) <= Cardinality(Breaks(r))
  <2>1. Cardinality(Mangled(y)) <= Cardinality(Mangled(s))
    BY <1>1, MangledKept
  <2>2. Cardinality(Mangled(s)) <= Cardinality(Breaks(s)) /\ Cardinality(Mangled(s)) \in Nat
    BY <1>1, DamageAtBreaks
  <2>3. Cardinality(Mangled(y)) \in Nat
    BY <1>2, DamageAtBreaks
  <2>4. Cardinality(Breaks(s)) \in Nat /\ Cardinality(Breaks(r)) \in Nat
    BY <1>1, BreaksFinite
  <2> DEFINE a == Cardinality(Mangled(y))
             b == Cardinality(Mangled(s))
             c == Cardinality(Breaks(s))
             d == Cardinality(Breaks(r))
  <2>5. a \in Nat /\ b \in Nat /\ c \in Nat /\ d \in Nat /\ a <= b /\ b <= c /\ c <= d
    BY <1>1, <2>1, <2>2, <2>3, <2>4
  <2> HIDE DEF a, b, c, d
  <2>6. a <= d
    BY <2>5
  <2>7. QED
    BY <2>6 DEF a, d
<1>5. \A e \in Ends(y) : IsLog(FrameAt(y, e))
  BY <1>2 DEF Logs
<1>6. QED
  BY <1>2, <1>3, <1>4, <1>5 DEF y

\* The frames of a record that is whole.
LEMMA WholeFrames ==
    ASSUME NEW a \in Nat, NEW m \in Nat \ {0}
    PROVE  LET s == SplitUp(Segment(3 * a + 1, 3 * m)) IN
           /\ \A j \in 1 .. m : 3 * j \in Ends(s) /\ FrameAt(s, 3 * j) = Contents(a + j)
           /\ \A e \in Logs(s) : \E j \in 1 .. m : e = 3 * j
<1> DEFINE r == Segment(3 * a + 1, 3 * m)
           s == SplitUp(r)
           n == 3 * m
<1>1. n \in Nat /\ 3 * a + 1 \in Places /\ Flag \in Unit
  BY DEF Places, Flag, Unit
<1>2. r \in Seq(Unit) /\ Len(r) = n /\ \A i \in 1 .. n : r[i] = UnitAt((3 * a + 1) + i - 1)
  BY <1>1, SegmentIs
<1> HIDE DEF r
<1>3. /\ s \in Seq(Unit) /\ Len(s) = n + 1 /\ s[n + 1] = Flag
      /\ \A i \in 1 .. n : s[i] = UnitAt((3 * a + 1) + i - 1)
  <2>1. /\ s \in Seq(Unit) /\ Len(s) = Len(r) + 1 /\ s[Len(r) + 1] = Flag
        /\ \A i \in 1 .. Len(r) : s[i] = r[i]
    <3>1. r \in Seq(Unit) /\ Flag \in Unit
      BY <1>1, <1>2
    <3>2. s = Append(r, Flag)
      BY DEF SplitUp
    <3> HIDE DEF s
    <3>3. QED
      BY <3>1, <3>2, AppendProperties
  <2>2. QED
    BY <1>2, <2>1
<1> HIDE DEF s, n
<1>4. \A x : x \in Ends(s) <=> x \in 1 .. n + 1 /\ s[x] = Flag
  BY <1>3, LenProperties DEF Ends
<1>5. ASSUME NEW j \in 1 .. m
      PROVE  /\ s[3 * j - 2] = Body(a + j) /\ s[3 * j - 1] = Trailer(a + j) /\ s[3 * j] = Flag
             /\ 3 * j \in Ends(s)
  <2> DEFINE q == a + j - 1
  <2>1. /\ 3 * j - 2 \in 1 .. n /\ 3 * j - 1 \in 1 .. n /\ 3 * j \in 1 .. n
        /\ (3 * a + 1) + (3 * j - 2) - 1 = 3 * q + 1
        /\ (3 * a + 1) + (3 * j - 1) - 1 = 3 * q + 2
        /\ (3 * a + 1) + (3 * j) - 1 = 3 * q + 3
        /\ q \in Nat /\ q + 1 = a + j
    BY DEF n
  <2> HIDE DEF q
  <2>2. /\ UnitAt(3 * q + 1) = Body(q + 1) /\ UnitAt(3 * q + 2) = Trailer(q + 1)
        /\ UnitAt(3 * q + 3) = Flag
    BY <2>1, UnitPlaces
  <2>3. /\ s[3 * j - 2] = UnitAt(3 * q + 1) /\ s[3 * j - 1] = UnitAt(3 * q + 2)
        /\ s[3 * j] = UnitAt(3 * q + 3)
    BY <1>3, <2>1
  <2>4. 3 * j \in 1 .. n + 1
    BY <1>1, <2>1
  <2>5. QED
    BY <1>4, <2>1, <2>2, <2>3, <2>4
<1>6. \A e \in Ends(s) : e = n + 1 \/ \E j \in 1 .. m : e = 3 * j
  <2>1. SUFFICES ASSUME NEW e \in Ends(s), e # n + 1 PROVE \E j \in 1 .. m : e = 3 * j
    OBVIOUS
  <2>2. e \in 1 .. n /\ s[e] = Flag
    BY <1>1, <1>4, <2>1
  <2>3. (3 * a + 1) + e - 1 \in Places /\ UnitAt((3 * a + 1) + e - 1) = Flag
    BY <1>1, <1>3, <2>2 DEF Places
  <2>4. PICK q \in Nat : (3 * a + 1) + e - 1 = 3 * q + 3
    BY <2>3, PlaceOfUnit
  <2>5. e = 3 * (q + 1 - a) /\ q + 1 - a \in 1 .. m
    BY <2>2, <2>4 DEF n
  <2>6. QED
    BY <2>5
<1>7. ASSUME NEW j \in 1 .. m
      PROVE  EndBefore(s, 3 * j) = 3 * j - 3
  <2> DEFINE b == EndBefore(s, 3 * j)
  <2>1. /\ b \in Nat /\ b < 3 * j /\ (b = 0 \/ b \in Ends(s))
        /\ \A d \in Ends(s) : d < 3 * j => d <= b
    BY <1>3, <1>5, EndBeforeIs
  <2> HIDE DEF b
  <2>2. 3 * j - 3 <= b
    <3>1. CASE j = 1
      BY <2>1, <3>1
    <3>2. CASE j # 1
      <4>1. j - 1 \in 1 .. m /\ 3 * (j - 1) = 3 * j - 3
        BY <3>2
      <4>2. 3 * (j - 1) \in Ends(s)
        BY <1>5, <4>1
      <4>3. 3 * j - 3 \in Ends(s) /\ 3 * j - 3 < 3 * j
        BY <4>1, <4>2
      <4>4. QED
        BY <2>1, <4>3
    <3>3. QED
      BY <3>1, <3>2
  <2>3. b <= 3 * j - 3
    <3>1. CASE b = 0
      BY <3>1
    <3>2. CASE b \in Ends(s)
      <4>1. b # n + 1
        BY <2>1 DEF n
      <4>2. PICK i \in 1 .. m : b = 3 * i
        BY <1>6, <3>2, <4>1
      <4>3. i <= j - 1
        BY <2>1, <4>2
      <4>4. QED
        BY <4>2, <4>3
    <3>3. QED
      BY <2>1, <3>1, <3>2
  <2>4. QED
    BY <2>1, <2>2, <2>3 DEF b
<1>8. ASSUME NEW j \in 1 .. m
      PROVE  FrameAt(s, 3 * j) = Contents(a + j)
  <2>1. /\ EndBefore(s, 3 * j) = 3 * j - 3
        /\ 3 * j = (3 * j - 3) + 3 /\ (3 * j - 3) + 1 = 3 * j - 2 /\ (3 * j - 3) + 2 = 3 * j - 1
    BY <1>7
  <2>2. /\ s[EndBefore(s, 3 * j) + 1] = Body(a + j) /\ s[EndBefore(s, 3 * j) + 2] = Trailer(a + j)
        /\ 3 * j \in Ends(s) /\ 3 * j = EndBefore(s, 3 * j) + 3
    BY <1>5, <2>1
  <2>3. QED
    BY <1>3, <2>2, FrameOfThree
<1>9. n + 1 \notin Logs(s)
  <2>1. SUFFICES ASSUME n + 1 \in Logs(s) PROVE FALSE
    OBVIOUS
  <2>2. n + 1 \in Ends(s) /\ FrameAt(s, n + 1) # <<>>
    BY <2>1 DEF Logs, IsLog
  <2>3. m \in 1 .. m /\ 3 * m = n
    BY DEF n
  <2>4. n \in Ends(s)
    BY <1>5, <2>3
  <2> DEFINE b == EndBefore(s, n + 1)
  <2>5. b < n + 1 /\ b \in Nat /\ \A d \in Ends(s) : d < n + 1 => d <= b
    BY <1>3, <2>2, EndBeforeIs
  <2> HIDE DEF b
  <2>6. b = n
    BY <1>1, <2>4, <2>5
  <2>7. FrameAt(s, n + 1) = SubSeq(s, 1 + n, (n + 1) - 1)
    BY <2>6 DEF FrameAt, b
  <2>8. SubSeq(s, 1 + n, (n + 1) - 1) = <<>>
    <3> DEFINE g == SubSeq(s, 1 + n, (n + 1) - 1)
    <3>1. \A i \in 1 + n .. (n + 1) - 1 : s[i] \in Unit
      BY <1>1
    <3>2. g \in Seq(Unit)
          /\ Len(g) = IF 1 + n <= (n + 1) - 1 THEN ((n + 1) - 1) - (1 + n) + 1 ELSE 0
      BY <1>1, <3>1, SubSeqProperties, 1 + n \in Int, (n + 1) - 1 \in Int
    <3> HIDE DEF g
    <3>3. Len(g) = 0
      BY <1>1, <3>2
    <3>4. QED
      BY <3>2, <3>3, EmptySeq DEF g
  <2>9. QED
    BY <2>2, <2>7, <2>8
<1>10. \A e \in Logs(s) : \E j \in 1 .. m : e = 3 * j
  BY <1>6, <1>9 DEF Logs
<1>11. QED
  BY <1>5, <1>8, <1>10 DEF s, r

\* What comes out of it.
LEMMA WholeExtracted ==
    ASSUME NEW a \in Nat, NEW m \in Nat \ {0}
    PROVE  LET y == Extracted(Segment(3 * a + 1, 3 * m)) IN
           /\ \A k \in LogFrames : a < k /\ k <= a + m /\ k \in Nat => Contents(k) \in FramesIn(y)
           /\ \A d, e \in Ends(y) : d < e =>
                 /\ FrameAt(y, d)[1][1] \in Nat /\ FrameAt(y, e)[1][1] \in Nat
                 /\ FrameAt(y, d)[1][1] < FrameAt(y, e)[1][1]
<1> DEFINE r == Segment(3 * a + 1, 3 * m)
           s == SplitUp(r)
           y == Extracted(r)
<1>1. /\ r \in Seq(Unit) /\ r # <<>> /\ r[Len(r)] = Flag
  <2>1. 3 * a + 1 \in Places /\ 3 * m \in Nat /\ 3 * m \in 1 .. 3 * m
    BY DEF Places
  <2>2. r \in Seq(Unit) /\ Len(r) = 3 * m /\ r[3 * m] = UnitAt((3 * a + 1) + 3 * m - 1)
    BY <2>1, SegmentIs
  <2>3. (3 * a + 1) + 3 * m - 1 = 3 * (a + m - 1) + 3 /\ a + m - 1 \in Nat
    OBVIOUS
  <2>4. UnitAt(3 * (a + m - 1) + 3) = Flag
    BY <2>3, UnitPlaces
  <2>5. r # <<>>
    <3> HIDE DEF r
    <3>1. QED
      BY <2>1, <2>2, EmptySeq
  <2>6. QED
    BY <2>2, <2>3, <2>4, <2>5
<1>2. /\ \A j \in 1 .. m : 3 * j \in Ends(s) /\ FrameAt(s, 3 * j) = Contents(a + j)
      /\ \A e \in Logs(s) : \E j \in 1 .. m : e = 3 * j
  BY WholeFrames
<1> HIDE DEF r
<1>3. s \in Seq(Unit) /\ y = Picked(s, Kept(s))
  BY <1>1, SplitUpIs
<1> HIDE DEF s, y
<1>4. /\ \A e \in Ends(y) : /\ Nth(Kept(s), e) \in Logs(s)
                            /\ FrameAt(y, e) = FrameAt(s, Nth(Kept(s), e))
      /\ \A d, e \in Ends(y) : d < e => Nth(Kept(s), d) < Nth(Kept(s), e)
      /\ \A l \in Logs(s) : \E e \in Ends(y) : Nth(Kept(s), e) = l
  BY <1>3, KeptFrames
<1>5. \A k : Contents(k) # <<>> /\ Contents(k)[1] = Body(k) /\ Body(k)[1] = k
  BY DEF Contents, Body
<1>6. ASSUME NEW k \in LogFrames, a < k, k <= a + m, k \in Nat
      PROVE  Contents(k) \in FramesIn(y)
  <2>1. k - a \in 1 .. m /\ a + (k - a) = k
    BY <1>6
  <2>2. 3 * (k - a) \in Ends(s) /\ FrameAt(s, 3 * (k - a)) = Contents(k)
    BY <1>2, <2>1
  <2>3. IsLog(Contents(k))
    BY <1>5, <1>6 DEF IsLog
  <2>4. 3 * (k - a) \in Logs(s)
    BY <2>2, <2>3 DEF Logs
  <2>5. PICK e \in Ends(y) : Nth(Kept(s), e) = 3 * (k - a)
    BY <1>4, <2>4
  <2>6. FrameAt(y, e) = Contents(k)
    BY <1>4, <2>2, <2>5
  <2>7. QED
    BY <2>6 DEF FramesIn
<1>7. ASSUME NEW d \in Ends(y), NEW e \in Ends(y), d < e
      PROVE  /\ FrameAt(y, d)[1][1] \in Nat /\ FrameAt(y, e)[1][1] \in Nat
             /\ FrameAt(y, d)[1][1] < FrameAt(y, e)[1][1]
  <2>1. PICK i \in 1 .. m : Nth(Kept(s), d) = 3 * i
    BY <1>2, <1>4
  <2>2. PICK j \in 1 .. m : Nth(Kept(s), e) = 3 * j
    BY <1>2, <1>4
  <2>3. FrameAt(y, d) = Contents(a + i) /\ FrameAt(y, e) = Contents(a + j)
    BY <1>2, <1>4, <2>1, <2>2
  <2>4. 3 * i < 3 * j
    BY <1>4, <1>7, <2>1, <2>2
  <2>5. FrameAt(y, d)[1][1] = a + i /\ FrameAt(y, e)[1][1] = a + j
    BY <1>5, <2>3
  <2>6. QED
    BY <2>4, <2>5
<1>8. QED
  BY <1>6, <1>7 DEF y, r

-----------------------------------------------------------------------------
(* Damage stays in the records it comes from: the inductive invariant.     *)

\* A record up to one of its datagrams.
RecordUpto(p) == Segment(Before(Opening(p)) + 1, Cuts[p] - Before(Opening(p)))

\* What is held back for a record that has not ended.
FragmentHeld ==
    received # <<>> /\ LastPlace \notin RecordEnds =>
        /\ fragBuf # <<>> /\ fragBuf[Len(fragBuf)] = UnitAt(Cuts[LastPlace])
        /\ CleanAt(LastPlace, Len(received)) => fragBuf = RecordUpto(LastPlace)

\* Each body is of a datagram that was received, and comes out or is held back
\* but not both.
BodiesApart ==
    \A k :
        /\ Body(k) \in ToSet(Returned) \/ Body(k) \in ToSet(fragBuf) =>
              k \in Places /\ \E w \in ToSet(received) : Inside(w, 3 * k - 2)
        /\ ~(Body(k) \in ToSet(Returned) /\ Body(k) \in ToSet(fragBuf))

\* What is mangled or still may be, by the places where one does not follow: a
\* mangled frame has a break, and what is held back may have some too.
BreaksCovered ==
    Cardinality(Mangled(Returned)) + Cardinality(Breaks(fragBuf)) <= Cardinality(Seams)

\* With none late the last one is the farthest.
NoneBehind == LateOnes = {} /\ received # <<>> => \A x \in ToSet(received) : x <= LastPlace

\* The log frames of a clean record have come out.
CleanOut ==
    \A z \in RecordEnds : Clean(z) =>
        \A k \in FramesOf(z) \cap LogFrames : Contents(k) \in FramesIn(Returned)

DamageInv ==
    /\ got \in Seq(Unit) /\ outBuf \in Seq(Unit) /\ fragBuf \in Seq(Unit)
    /\ Closed(Returned) /\ FragmentHeld /\ BodiesApart /\ BreaksCovered /\ NoneBehind
    /\ CleanOut /\ (LateOnes = {} => CleanInOrder)

\* A record that has ended.
LEMMA RecordIs ==
    ASSUME NEW z \in RecordEnds
    PROVE  \E a \in Nat, m \in Nat \ {0} :
              /\ Before(Opening(z)) = 3 * a /\ Cuts[z] = 3 * a + 3 * m
              /\ RecordUpto(z) = Segment(3 * a + 1, 3 * m)
              /\ \A k \in FramesOf(z) : k \in Nat /\ a < k /\ k <= a + m
<1>1. z \in DOMAIN Cuts /\ Cuts[z] % 3 = 0
  BY BroadcastAssumption
<1>2. /\ Opening(z) \in DOMAIN Cuts /\ Opening(z) \in Nat /\ Opening(z) <= z
      /\ \E a \in Nat : Before(Opening(z)) = 3 * a
  BY <1>1, OpeningIs
<1>3. PICK a \in Nat : Before(Opening(z)) = 3 * a
  BY <1>2
<1>4. /\ z \in Nat /\ Cuts[z] \in Nat /\ Before(z) \in Nat /\ Before(z) < Cuts[z]
      /\ \A v \in DOMAIN Cuts : v < z => Cuts[v] <= Before(z)
  BY <1>1, CutsRise DEF Places
<1>5. Before(Opening(z)) < Cuts[z]
  <2>1. CASE Opening(z) = z
    BY <1>4, <2>1
  <2>2. CASE Opening(z) < z
    <3>1. /\ Before(Opening(z)) < Cuts[Opening(z)] /\ Cuts[Opening(z)] \in Nat
          /\ Before(Opening(z)) \in Nat
      BY <1>2, CutsRise
    <3>2. QED
      BY <1>2, <1>4, <2>2, <3>1
  <2>3. QED
    BY <1>2, <1>4, <2>1, <2>2
<1>6. PICK m \in Nat \ {0} : Cuts[z] = 3 * a + 3 * m
  <2>1. PICK c \in Nat : Cuts[z] = 3 * c
    <3>1. PICK q \in Int, r \in 0 .. 3 - 1 : Cuts[z] = 3 * q + r /\ Cuts[z] % 3 = r
      <4>1. Cuts[z] \in Int /\ 3 \in Nat \ {0}
        BY <1>4
      <4>2. QED
        BY <4>1, DivMod
    <3>2. q \in Nat /\ Cuts[z] = 3 * q
      BY <1>1, <1>4, <3>1
    <3>3. QED
      BY <3>2
  <2>2. c - a \in Nat \ {0} /\ Cuts[z] = 3 * a + 3 * (c - a)
    BY <1>3, <1>5, <2>1
  <2>3. QED
    BY <2>2
<1>7. RecordUpto(z) = Segment(3 * a + 1, 3 * m)
  <2>1. Cuts[z] - Before(Opening(z)) = 3 * m
    BY <1>3, <1>6
  <2>2. QED
    BY <1>3, <2>1 DEF RecordUpto
<1>8. ASSUME NEW k \in FramesOf(z)
      PROVE  k \in Nat /\ a < k /\ k <= a + m
  <2>1. k \in Nat /\ 3 * a < 3 * k /\ 3 * k <= 3 * a + 3 * m
    BY <1>3, <1>4, <1>6 DEF FramesOf
  <2>2. QED
    BY <2>1
<1>9. QED
  BY <1>3, <1>6, <1>7, <1>8

\* The body of a frame is in the stream.
LEMMA BodyIsIn ==
    ASSUME NEW s \in Seq(Unit), NEW k, NEW e \in Ends(s), FrameAt(s, e) = Contents(k)
    PROVE  Body(k) \in ToSet(s) /\ FrameAt(s, e)[1][1] = k
<1> DEFINE b == EndBefore(s, e)
           f == FrameAt(s, e)
<1>1. e \in 1 .. Len(s) /\ b \in Nat /\ b < e /\ Len(s) \in Nat
  BY EndBeforeIs, LenProperties DEF Ends
<1>2. Len(f) = 2 /\ f[1] = Body(k) /\ f[1][1] = k
  BY DEF Contents, Body
<1>3. \A j \in 1 + b .. e - 1 : s[j] \in Unit
  BY <1>1, ElementOfSeq
<1> HIDE DEF b
<1>4. /\ Len(SubSeq(s, 1 + b, e - 1)) = IF 1 + b <= e - 1 THEN (e - 1) - (1 + b) + 1 ELSE 0
      /\ \A j \in 1 .. (e - 1) - (1 + b) + 1 : SubSeq(s, 1 + b, e - 1)[j] = s[(1 + b) + j - 1]
  BY <1>1, <1>3, SubSeqProperties
<1>5. f = SubSeq(s, 1 + b, e - 1)
  BY DEF FrameAt, b
<1> HIDE DEF f
<1>6. 1 + b <= e - 1
  BY <1>1, <1>2, <1>4, <1>5
<1>7. f[1] = s[1 + b] /\ 1 + b \in 1 .. Len(s)
  <2>1. 1 \in 1 .. (e - 1) - (1 + b) + 1 /\ (1 + b) + 1 - 1 = 1 + b
    BY <1>1, <1>6
  <2>2. QED
    BY <1>1, <1>4, <1>5, <1>6, <2>1
<1>8. DOMAIN s = 1 .. Len(s)
  BY LenProperties
<1>9. QED
  BY <1>2, <1>7, <1>8 DEF ToSet, f

\* The bodies of a record are in it.
LEMMA RecordHasBodies ==
    ASSUME NEW z \in RecordEnds, NEW k \in FramesOf(z)
    PROVE  k \in Nat /\ Body(k) \in ToSet(RecordUpto(z))
<1>1. PICK a \in Nat, m \in Nat \ {0} :
         /\ RecordUpto(z) = Segment(3 * a + 1, 3 * m)
         /\ \A j \in FramesOf(z) : j \in Nat /\ a < j /\ j <= a + m
  BY RecordIs
<1>2. k \in Nat /\ a < k /\ k <= a + m
  BY <1>1
<1> DEFINE s == Segment(3 * a + 1, 3 * m)
           j == 3 * (k - a) - 2
<1>3. /\ s \in Seq(Unit) /\ Len(s) = 3 * m
      /\ \A i \in 1 .. 3 * m : s[i] = UnitAt((3 * a + 1) + i - 1)
  <2>1. 3 * a + 1 \in Places /\ 3 * m \in Nat
    BY DEF Places
  <2>2. QED
    BY <2>1, SegmentIs
<1>4. j \in 1 .. 3 * m /\ (3 * a + 1) + j - 1 = 3 * (k - 1) + 1 /\ k - 1 \in Nat /\ (k - 1) + 1 = k
  BY <1>2
<1>5. UnitAt(3 * (k - 1) + 1) = Body((k - 1) + 1)
  BY <1>4, UnitPlaces
<1> HIDE DEF s, j
<1>6. s[j] = Body(k)
  BY <1>3, <1>4, <1>5
<1>7. DOMAIN s = 1 .. Len(s)
  BY <1>3, LenProperties
<1>8. Body(k) \in ToSet(s)
  BY <1>3, <1>4, <1>6, <1>7 DEF ToSet
<1>9. QED
  BY <1>1, <1>2, <1>8 DEF s

-----------------------------------------------------------------------------
(* What a datagram does.                                                   *)

\* One more datagram comes.
LEMMA ReceiveIs ==
    ASSUME BroadcastIInv, PathInv, DamageInv, NEW i \in DOMAIN flying, Receive(i)
    PROVE  LET p == flying[i] IN
           /\ p \in DOMAIN Cuts /\ p \in Places /\ p \notin ToSet(received)
           /\ ToSet(received) \subseteq DOMAIN Cuts
           /\ received' = Append(received, p) /\ outBuf = <<>> /\ Returned = got
           /\ Returned' = Returned \o outBuf' /\ got' = got
           /\ IF p \in RecordEnds
              THEN /\ outBuf' = Extracted(Joined(p))
                   /\ fragBuf' = <<>> \/ (fragBuf' = fragBuf /\ IsFirst(p))
              ELSE outBuf' = <<>> /\ fragBuf' = Joined(p)
<1> DEFINE p == flying[i]
<1>1. p \in Places /\ p \in ToSet(flying)
  BY LenProperties, ElementOfSeq DEF BroadcastIInv, ToSet
<1>2. ToSet(flying) \cup ToSet(received) \subseteq DOMAIN Cuts
  <2>1. nextOut \in 1 .. Len(Cuts) + 1 /\ Len(Cuts) \in Nat /\ DOMAIN Cuts = 1 .. Len(Cuts)
    BY CutsType DEF PathInv
  <2>2. \A x \in ToSet(flying) \cup ToSet(received) : x \in Nat \ {0} /\ x < nextOut
    <3>1. flying \in Seq(Places) /\ received \in Seq(Places)
      BY DEF BroadcastIInv
    <3>2. ToSet(flying) \subseteq Places /\ ToSet(received) \subseteq Places
      BY <3>1, LenProperties, ElementOfSeq DEF ToSet
    <3>3. QED
      BY <3>2 DEF PathInv, Places
  <2>3. QED
    BY <2>1, <2>2
<1>3. p \in DOMAIN Cuts /\ p \notin ToSet(received)
  BY <1>1, <1>2 DEF PathInv
<1>4. /\ received' = Append(received, p) /\ outBuf = <<>> /\ got' = got
      /\ IF Whole(p)
         THEN UNCHANGED fragBuf /\ outBuf' = Extracted(Data(p))
         ELSE IF IsLast(p)
         THEN fragBuf' = <<>> /\ outBuf' = Extracted(Joined(p))
         ELSE fragBuf' = Joined(p) /\ UNCHANGED outBuf
  BY DEF Receive
<1>5. Returned = got
  BY <1>4, EmptySeq, ConcatEmptySeq DEF Returned, DamageInv
<1>6. Returned' = Returned \o outBuf'
  BY <1>4, <1>5 DEF Returned
<1> HIDE DEF p
<1>7. IF p \in RecordEnds
      THEN outBuf' = Extracted(Joined(p)) /\ (fragBuf' = <<>> \/ (fragBuf' = fragBuf /\ IsFirst(p)))
      ELSE outBuf' = <<>> /\ fragBuf' = Joined(p)
  <2>1. CASE Whole(p)
    <3>1. IsFirst(p) /\ p \in RecordEnds /\ Joined(p) = Data(p)
      BY <2>1 DEF Whole, IsLast, Joined
    <3>2. QED
      BY <1>4, <2>1, <3>1
  <2>2. CASE ~Whole(p)
    BY <1>4, <2>2 DEF IsLast, Whole
  <2>3. QED
    BY <2>1, <2>2
<1>8. QED
  BY <1>1, <1>2, <1>3, <1>4, <1>5, <1>6, <1>7 DEF p

\* What is joined.
LEMMA JoinedIs ==
    ASSUME BroadcastIInv, DamageInv, NEW p \in DOMAIN Cuts, p \notin ToSet(received),
           ToSet(received) \subseteq DOMAIN Cuts
    PROVE  /\ Joined(p) \in Seq(Unit) /\ Joined(p) # <<>>
           /\ Joined(p)[Len(Joined(p))] = UnitAt(Cuts[p])
           /\ p \in RecordEnds => Joined(p)[Len(Joined(p))] = Flag
           /\ \A k : Body(k) \in ToSet(Joined(p)) =>
                 /\ k \in Places /\ \E w \in ToSet(received) \cup {p} : Inside(w, 3 * k - 2)
                 /\ Body(k) \notin ToSet(Returned)
           /\ \A k : Body(k) \in ToSet(Data(p)) => Body(k) \notin ToSet(fragBuf)
<1> DEFINE d == Data(p)
           j == Joined(p)
<1>1. /\ d \in Seq(Unit) /\ d # <<>> /\ d[Len(d)] = UnitAt(Cuts[p])
      /\ p \in RecordEnds => d[Len(d)] = Flag
      /\ \A k : Body(k) \in ToSet(d) => k \in Places /\ Inside(p, 3 * k - 2)
  BY DataIs
<1>2. ASSUME NEW k, Body(k) \in ToSet(d)
      PROVE  Body(k) \notin ToSet(Returned) /\ Body(k) \notin ToSet(fragBuf)
  <2>1. k \in Places /\ Inside(p, 3 * k - 2) /\ 3 * k - 2 \in Nat
    BY <1>1, <1>2 DEF Places
  <2>2. ASSUME NEW w \in ToSet(received), Inside(w, 3 * k - 2)
        PROVE  FALSE
    BY <2>1, <2>2, InsideOnce
  <2>3. QED
    BY <2>2 DEF DamageInv, BodiesApart
<1>3. \A k : Body(k) \in ToSet(fragBuf) =>
         /\ k \in Places /\ \E w \in ToSet(received) : Inside(w, 3 * k - 2)
         /\ Body(k) \notin ToSet(Returned)
  BY DEF DamageInv, BodiesApart
<1> HIDE DEF d
<1>4. CASE IsFirst(p)
  <2>1. j = d
    BY <1>4 DEF Joined, d
  <2> HIDE DEF j
  <2>2. QED
    BY <1>1, <1>2, <2>1 DEF j, d
<1>5. CASE ~IsFirst(p)
  <2>1. j = fragBuf \o d
    BY <1>5 DEF Joined, d
  <2>2. fragBuf \in Seq(Unit)
    BY DEF DamageInv
  <2> DEFINE n == Len(fragBuf)
             m == Len(d)
  <2>3. n \in Nat /\ m \in Nat /\ m >= 1 /\ DOMAIN fragBuf = 1 .. n /\ DOMAIN d = 1 .. m
    BY <1>1, <2>2, LenProperties, EmptySeq
  <2>4. /\ j \in Seq(Unit) /\ Len(j) = n + m
        /\ \A q \in 1 .. n + m : j[q] = IF q <= n THEN fragBuf[q] ELSE d[q - n]
    BY <1>1, <2>1, <2>2, ConcatProperties
  <2> HIDE DEF j, n, m
  <2>5. DOMAIN j = 1 .. n + m
    BY <2>4, LenProperties
  <2>6. j # <<>> /\ j[Len(j)] = d[m]
    <3>1. n + m \in 1 .. n + m /\ ~(n + m <= n) /\ (n + m) - n = m /\ n + m # 0
      BY <2>3
    <3>2. QED
      BY <2>4, <3>1, EmptySeq
  <2>7. \A x \in ToSet(j) : x \in ToSet(fragBuf) \/ x \in ToSet(d)
    <3>1. ASSUME NEW q \in 1 .. n + m
          PROVE  j[q] \in ToSet(fragBuf) \/ j[q] \in ToSet(d)
      <4>1. CASE q <= n
        <5>1. q \in 1 .. n /\ j[q] = fragBuf[q]
          BY <2>3, <2>4, <4>1
        <5>2. QED
          BY <2>3, <5>1 DEF ToSet
      <4>2. CASE ~(q <= n)
        <5>1. q - n \in 1 .. m /\ j[q] = d[q - n]
          BY <2>3, <2>4, <4>2
        <5>2. QED
          BY <2>3, <5>1 DEF ToSet
      <4>3. QED
        BY <4>1, <4>2
    <3>2. QED
      BY <2>5, <3>1 DEF ToSet
  <2>8. ASSUME NEW k, Body(k) \in ToSet(j)
        PROVE  /\ k \in Places /\ \E w \in ToSet(received) \cup {p} : Inside(w, 3 * k - 2)
               /\ Body(k) \notin ToSet(Returned)
    <3>1. CASE Body(k) \in ToSet(fragBuf)
      BY <1>3, <3>1
    <3>2. CASE Body(k) \in ToSet(d)
      BY <1>1, <1>2, <3>2
    <3>3. QED
      BY <2>7, <2>8, <3>1, <3>2
  <2>9. QED
    BY <1>1, <1>2, <2>4, <2>6, <2>8 DEF j, d, m
<1>6. QED
  BY <1>4, <1>5

\* How many breaks are in it.
LEMMA JoinedBreaks ==
    ASSUME BroadcastIInv, DamageInv, NEW p \in DOMAIN Cuts
    PROVE  /\ IsFirst(p) => Cardinality(Breaks(Joined(p))) = 0
           /\ ~IsFirst(p) => Cardinality(Breaks(Joined(p))) <= Cardinality(Breaks(fragBuf)) + 1
           /\ ~IsFirst(p) /\ received # <<>> /\ LastPlace + 1 = p =>
                 Cardinality(Breaks(Joined(p))) <= Cardinality(Breaks(fragBuf))
<1>1. /\ Data(p) \in Seq(Unit) /\ Data(p) # <<>> /\ Data(p)[1] = UnitAt(Before(p) + 1)
      /\ Breaks(Data(p)) \subseteq {1} /\ (IsFirst(p) => Breaks(Data(p)) = {})
  BY DataIs
<1>2. fragBuf \in Seq(Unit)
  BY DEF DamageInv
<1>3. CASE IsFirst(p)
  <2>1. Breaks(Joined(p)) = {}
    BY <1>1, <1>3 DEF Joined
  <2>2. QED
    BY <1>3, <2>1, FS_EmptySet
<1>4. CASE ~IsFirst(p)
  <2>1. Joined(p) = fragBuf \o Data(p)
    BY <1>4 DEF Joined
  <2>2. /\ Cardinality(Breaks(fragBuf \o Data(p))) <= Cardinality(Breaks(fragBuf)) + 1
        /\ fragBuf # <<>> /\ Follows(fragBuf[Len(fragBuf)], Data(p)[1])
              => Cardinality(Breaks(fragBuf \o Data(p))) <= Cardinality(Breaks(fragBuf))
    BY <1>1, <1>2, BreaksJoin
  <2>3. ASSUME received # <<>>, LastPlace + 1 = p
        PROVE  fragBuf # <<>> /\ Follows(fragBuf[Len(fragBuf)], Data(p)[1])
    <3>1. p # 1 /\ p - 1 \notin RecordEnds
      BY <1>4 DEF IsFirst
    <3>2. LastPlace \in Places
      <4>1. received \in Seq(Places) /\ Len(received) \in Nat /\ Len(received) # 0
        BY <2>3, LenProperties, EmptySeq DEF BroadcastIInv
      <4>2. Len(received) \in 1 .. Len(received)
        BY <4>1
      <4>3. QED
        BY <4>1, <4>2, ElementOfSeq DEF LastPlace
    <3>3. LastPlace = p - 1
      BY <2>3, <3>2 DEF Places
    <3>4. fragBuf # <<>> /\ fragBuf[Len(fragBuf)] = UnitAt(Cuts[p - 1])
      BY <2>3, <3>1, <3>3 DEF DamageInv, FragmentHeld
    <3>5. Before(p) = Cuts[p - 1]
      BY <3>1 DEF Before
    <3>6. Cuts[p - 1] \in Places
      <4>1. p \in 1 .. Len(Cuts) /\ p - 1 # 0 /\ Len(Cuts) \in Nat /\ DOMAIN Cuts = 1 .. Len(Cuts)
        BY <3>1, CutsType
      <4>2. p - 1 \in DOMAIN Cuts
        BY <4>1
      <4>3. Cuts[p - 1] \in Nat /\ Before(p - 1) \in Nat /\ Before(p - 1) < Cuts[p - 1]
        BY <4>2, CutsRise
      <4>4. QED
        BY <4>3 DEF Places
    <3>7. Follows(UnitAt(Cuts[p - 1]), UnitAt(Cuts[p - 1] + 1))
      BY <3>6, UnitFollows
    <3>8. QED
      BY <1>1, <3>4, <3>5, <3>7
  <2>4. QED
    BY <1>4, <2>1, <2>2, <2>3
<1>5. QED
  BY <1>3, <1>4

\* Where one does not follow, with one more.
LEMMA OneMoreSeam ==
    ASSUME BroadcastIInv, NEW p \in Places, received' = Append(received, p)
    PROVE  /\ Cardinality(Seams) \in Nat /\ Cardinality(Seams') \in Nat
           /\ Cardinality(Seams') >= Cardinality(Seams)
           /\ ~(received # <<>> /\ LastPlace + 1 = p) /\ p # 1
                 => Cardinality(Seams') = Cardinality(Seams) + 1
<1> DEFINE n == Len(received)
<1>1. received \in Seq(Places) /\ n \in Nat /\ DOMAIN received = 1 .. n
  BY LenProperties DEF BroadcastIInv
<1>2. /\ received' \in Seq(Places) /\ Len(received') = n + 1
      /\ \A i \in 1 .. n : received'[i] = received[i]
      /\ received'[n + 1] = p
  BY <1>1, AppendProperties
<1>3. DOMAIN received' = 1 .. n + 1
  BY <1>2, LenProperties
<1>4. \A x : x \in Seams <=> x \in 1 .. n /\ received[x] # 1 + (IF x = 1 THEN 0 ELSE received[x - 1])
  BY <1>1 DEF Seams
<1>5. \A x : x \in Seams' <=>
         x \in 1 .. n + 1 /\ received'[x] # 1 + (IF x = 1 THEN 0 ELSE received'[x - 1])
  BY <1>3 DEF Seams
<1>6. IsFiniteSet(Seams) /\ Cardinality(Seams) \in Nat
  <2>1. IsFiniteSet(1 .. n)
    <3>1. 1 \in Int /\ n \in Int
      BY <1>1
    <3> HIDE DEF n
    <3>2. QED
      BY <3>1, FS_Interval
  <2>2. Seams \in SUBSET (1 .. n)
    BY <1>4
  <2>3. IsFiniteSet(Seams)
    BY <2>1, <2>2, FS_Subset
  <2>4. QED
    BY <2>3, FS_CardinalityType
<1>7. n + 1 \notin Seams
  BY <1>1, <1>4
<1> HIDE DEF n
<1>8. \A x \in 1 .. n : x \in Seams' <=> x \in Seams
  <2>1. ASSUME NEW x \in 1 .. n
        PROVE  x \in Seams' <=> x \in Seams
    <3>1. x \in 1 .. n + 1 /\ received'[x] = received[x]
      BY <1>1, <1>2
    <3>2. x # 1 => received'[x - 1] = received[x - 1]
      <4>1. x # 1 => x - 1 \in 1 .. n
        BY <1>1
      <4>2. QED
        BY <1>2, <4>1
    <3>3. (IF x = 1 THEN 0 ELSE received'[x - 1]) = (IF x = 1 THEN 0 ELSE received[x - 1])
      BY <3>2
    <3>4. QED
      BY <1>4, <1>5, <3>1, <3>3
  <2>2. QED
    BY <2>1
<1>9. Seams' = Seams \/ Seams' = Seams \cup {n + 1}
  <2>1. \A x \in Seams' : x \in 1 .. n \/ x = n + 1
    BY <1>1, <1>5
  <2>2. \A x \in Seams : x \in 1 .. n
    BY <1>4
  <2>3. QED
    BY <1>8, <2>1, <2>2
<1>10. Cardinality(Seams \cup {n + 1}) = Cardinality(Seams) + 1 /\ IsFiniteSet(Seams \cup {n + 1})
  BY <1>6, <1>7, FS_AddElement
<1>11. ASSUME ~(received # <<>> /\ LastPlace + 1 = p), p # 1
       PROVE  n + 1 \in Seams'
  <2>1. n + 1 \in 1 .. n + 1 /\ (n + 1) - 1 = n
    BY <1>1
  <2>2. CASE n = 0
    <3>1. n + 1 = 1
      BY <2>2
    <3>2. QED
      BY <1>2, <1>5, <1>11, <2>1, <3>1
  <2>3. CASE n # 0
    <3>1. received # <<>> /\ n \in 1 .. n /\ n + 1 # 1
      BY <1>1, <2>3, EmptySeq DEF n
    <3>2. LastPlace = received[n] /\ received[n] \in Places
      BY <1>1, <3>1, ElementOfSeq DEF LastPlace, n
    <3>3. p # 1 + received[n]
      BY <1>11, <3>1, <3>2 DEF Places
    <3>4. received'[(n + 1) - 1] = received[n]
      BY <1>2, <2>1, <3>1
    <3>5. QED
      BY <1>2, <1>5, <2>1, <3>1, <3>3, <3>4
  <2>4. QED
    BY <2>2, <2>3
<1>12. CASE Seams' = Seams
  <2>1. (received # <<>> /\ LastPlace + 1 = p) \/ p = 1
    BY <1>7, <1>11, <1>12
  <2>2. QED
    BY <1>6, <1>12, <2>1
<1>13. CASE Seams' = Seams \cup {n + 1}
  BY <1>6, <1>10, <1>13
<1>14. QED
  BY <1>9, <1>12, <1>13

\* What becomes clean with one more.
LEMMA CleanBefore ==
    ASSUME BroadcastIInv, NEW p \in DOMAIN Cuts, received' = Append(received, p),
           NEW z \in DOMAIN Cuts, NEW i \in DOMAIN received'
    PROVE  /\ i \in DOMAIN received => (CleanAt(z, i)' <=> CleanAt(z, i))
           /\ i \notin DOMAIN received /\ CleanAt(z, i)' => z = p /\ i = Len(received) + 1
<1> DEFINE n == Len(received)
           L == z - Opening(z)
<1>0. p \in Places /\ z \in Places /\ Opening(z) \in Nat /\ Opening(z) <= z
  BY CutsRise, OpeningIs
<1>1. received \in Seq(Places) /\ n \in Nat /\ DOMAIN received = 1 .. n
  BY LenProperties DEF BroadcastIInv
<1>2. /\ received' \in Seq(Places) /\ Len(received') = n + 1
      /\ \A q \in 1 .. n : received'[q] = received[q]
      /\ received'[n + 1] = p
  BY <1>0, <1>1, AppendProperties
<1>3. DOMAIN received' = 1 .. n + 1
  BY <1>2, LenProperties
<1>4. L \in Nat
  BY <1>0 DEF Places
<1>5. CleanAt(z, i) <=> \A k \in 0 .. L : i - k \in DOMAIN received /\ received[i - k] = z - k
  BY DEF CleanAt
<1>6. CleanAt(z, i)' <=> \A k \in 0 .. L : i - k \in DOMAIN received' /\ received'[i - k] = z - k
  BY DEF CleanAt
<1> HIDE DEF n, L
<1>7. ASSUME i \in DOMAIN received
      PROVE  CleanAt(z, i)' <=> CleanAt(z, i)
  <2>1. ASSUME NEW k \in 0 .. L
        PROVE  /\ i - k \in DOMAIN received' <=> i - k \in DOMAIN received
               /\ i - k \in DOMAIN received => received'[i - k] = received[i - k]
    <3>1. i \in 1 .. n /\ k \in Nat
      BY <1>1, <1>4, <1>7
    <3>2. i - k \in 1 .. n + 1 <=> i - k \in 1 .. n
      BY <1>1, <3>1
    <3>3. QED
      BY <1>1, <1>2, <1>3, <3>2
  <2>2. QED
    BY <1>5, <1>6, <2>1
<1>8. ASSUME i \notin DOMAIN received, CleanAt(z, i)'
      PROVE  z = p /\ i = n + 1
  <2>1. i = n + 1
    BY <1>1, <1>3, <1>8
  <2>2. 0 \in 0 .. L /\ i - 0 = i /\ z - 0 = z
    BY <1>0, <1>1, <1>4, <2>1 DEF Places
  <2>3. received'[i - 0] = z - 0
    BY <1>6, <1>8, <2>2
  <2>4. QED
    BY <1>2, <2>1, <2>2, <2>3
<1>9. QED
  BY <1>7, <1>8 DEF n

LEMMA CleanGrows ==
    ASSUME BroadcastIInv, NEW p \in DOMAIN Cuts, received' = Append(received, p),
           NEW z \in DOMAIN Cuts
    PROVE  Clean(z)' => Clean(z) \/ (z = p /\ CleanAt(p, Len(received))')
<1> SUFFICES ASSUME Clean(z)' PROVE Clean(z) \/ (z = p /\ CleanAt(p, Len(received))')
  OBVIOUS
<1>1. PICK i \in DOMAIN received' : CleanAt(z, i)'
  BY DEF Clean
<1>2. CASE i \in DOMAIN received
  <2>1. CleanAt(z, i)
    BY <1>1, <1>2, CleanBefore
  <2>2. QED
    BY <1>2, <2>1 DEF Clean
<1>3. CASE i \notin DOMAIN received
  <2>1. z = p /\ i = Len(received) + 1
    BY <1>1, <1>3, CleanBefore
  <2>2. CleanAt(p, Len(received))'
    <3>1. \A k \in 0 .. z - Opening(z) : i - k \in DOMAIN received' /\ received'[i - k] = z - k
      BY <1>1 DEF CleanAt
    <3>2. p \in Places /\ received \in Seq(Places)
      BY CutsRise DEF BroadcastIInv
    <3>3. Len(received') = Len(received) + 1
      BY <3>2, AppendProperties
    <3>4. i = Len(received') /\ z = p
      BY <2>1, <3>3
    <3>5. QED
      BY <3>1, <3>4 DEF CleanAt
  <2>3. QED
    BY <2>1, <2>2
<1>4. QED
  BY <1>2, <1>3

\* A clean one was received.
LEMMA CleanCame ==
    ASSUME BroadcastIInv, NEW z \in DOMAIN Cuts, Clean(z)
    PROVE  z \in ToSet(received)
<1>1. z \in Places /\ Opening(z) \in Nat /\ Opening(z) <= z
  BY CutsRise, OpeningIs
<1>2. PICK i \in DOMAIN received : CleanAt(z, i)
  BY DEF Clean
<1>3. i \in Nat
  BY LenProperties DEF BroadcastIInv
<1>4. 0 \in 0 .. z - Opening(z) /\ i - 0 = i /\ z - 0 = z
  BY <1>1, <1>3 DEF Places
<1>5. received[i] = z
  BY <1>2, <1>4 DEF CleanAt
<1>6. QED
  BY <1>5 DEF ToSet

\* A record whose pieces came in a row is joined as it was.
LEMMA JoinedIsRecord ==
    ASSUME BroadcastIInv, DamageInv, NEW p \in DOMAIN Cuts, received' = Append(received, p),
           CleanAt(p, Len(received))'
    PROVE  Joined(p) = RecordUpto(p)
<1> DEFINE n == Len(received)
           O == Opening(p)
<1>1. /\ p \in Places /\ Cuts[p] \in Nat /\ Before(p) \in Nat /\ Before(p) < Cuts[p]
      /\ \A v \in DOMAIN Cuts : v < p => Cuts[v] <= Before(p)
  BY CutsRise
<1>2. /\ O \in DOMAIN Cuts /\ O \in Nat /\ O <= p /\ (IsFirst(p) => O = p)
      /\ ~IsFirst(p) => p - 1 \in DOMAIN Cuts /\ Opening(p - 1) = O
  BY OpeningIs
<1>3. CASE IsFirst(p)
  <2>1. Joined(p) = Data(p) /\ Opening(p) = p
    BY <1>2, <1>3 DEF Joined
  <2>2. QED
    BY <2>1 DEF Data, RecordUpto
<1>4. CASE ~IsFirst(p)
  <2>1. /\ p # 1 /\ p - 1 \notin RecordEnds /\ p - 1 \in DOMAIN Cuts /\ Opening(p - 1) = O
        /\ Before(p) = Cuts[p - 1] /\ Joined(p) = fragBuf \o Data(p)
    BY <1>2, <1>4 DEF IsFirst, Before, Joined
  <2>2. received \in Seq(Places) /\ n \in Nat /\ DOMAIN received = 1 .. n
    BY LenProperties DEF BroadcastIInv
  <2>3. /\ received' \in Seq(Places) /\ Len(received') = n + 1
        /\ \A q \in 1 .. n : received'[q] = received[q]
    BY <1>1, <2>2, AppendProperties
  <2>4. DOMAIN received' = 1 .. n + 1
    BY <2>3, LenProperties
  <2>5. O <= p - 1
    BY <1>2, <2>1, OpeningIs
  <2>6. \A k \in 0 .. p - O : (n + 1) - k \in 1 .. n + 1 /\ received'[(n + 1) - k] = p - k
    BY <2>3, <2>4 DEF CleanAt
  <2> HIDE DEF n, O
  <2>7. ASSUME NEW k \in 0 .. (p - 1) - O
        PROVE  n - k \in 1 .. n /\ received[n - k] = (p - 1) - k
    <3>1. k \in Nat /\ k + 1 \in 0 .. p - O /\ (n + 1) - (k + 1) = n - k /\ p - (k + 1) = (p - 1) - k
      BY <1>1, <1>2, <2>2, <2>5 DEF Places
    <3>2. n - k \in 1 .. n + 1 /\ received'[n - k] = (p - 1) - k
      BY <2>6, <3>1
    <3>3. n - k \in 1 .. n
      BY <2>2, <3>1, <3>2
    <3>4. QED
      BY <2>3, <3>2, <3>3
  <2>8. n \in 1 .. n /\ received[n] = p - 1
    <3>1. 0 \in 0 .. (p - 1) - O /\ n - 0 = n /\ (p - 1) - 0 = p - 1
      BY <1>1, <1>2, <2>2, <2>5 DEF Places
    <3>2. QED
      BY <2>7, <3>1
  <2>9. received # <<>> /\ LastPlace = p - 1
    BY <2>2, <2>8, EmptySeq DEF LastPlace, n
  <2>10. CleanAt(p - 1, Len(received))
    BY <2>1, <2>2, <2>7 DEF CleanAt, n
  <2>11. fragBuf = RecordUpto(p - 1)
    BY <2>1, <2>9, <2>10 DEF DamageInv, FragmentHeld
  <2> DEFINE b == Before(O)
             c == Cuts[p - 1]
             e == Cuts[p]
  <2>12. /\ b \in Nat /\ c \in Nat /\ e \in Nat /\ b <= c /\ c < e
    <3>1. b \in Nat /\ b < Cuts[O] /\ Cuts[O] \in Nat
      BY <1>2, CutsRise
    <3>2. c \in Nat /\ Before(p - 1) \in Nat /\ Before(p - 1) < c
          /\ \A v \in DOMAIN Cuts : v < p - 1 => Cuts[v] <= Before(p - 1)
      BY <2>1, CutsRise
    <3>3. Cuts[O] <= c
      <4>1. CASE O = p - 1
        BY <3>2, <4>1
      <4>2. CASE O # p - 1
        <5>1. O < p - 1
          BY <1>1, <1>2, <2>5, <4>2 DEF Places
        <5>2. QED
          BY <1>2, <3>1, <3>2, <5>1
      <4>3. QED
        BY <4>1, <4>2
    <3>4. QED
      BY <1>1, <2>1, <3>1, <3>2, <3>3
  <2>13. /\ fragBuf = Segment(b + 1, c - b) /\ Data(p) = Segment(c + 1, e - c)
         /\ RecordUpto(p) = Segment(b + 1, e - b)
    BY <2>1, <2>11 DEF RecordUpto, Data, O
  <2> HIDE DEF b, c, e
  <2>14. b + 1 \in Places /\ c - b \in Nat /\ e - c \in Nat /\ (b + 1) + (c - b) = c + 1
         /\ (c - b) + (e - c) = e - b
    BY <2>12 DEF Places
  <2>15. Segment(b + 1, c - b) \o Segment((b + 1) + (c - b), e - c)
            = Segment(b + 1, (c - b) + (e - c))
    BY <2>14, SegmentJoin
  <2>16. QED
    BY <2>1, <2>13, <2>14, <2>15
<1>5. QED
  BY <1>3, <1>4

-----------------------------------------------------------------------------
(* Each part, when one more datagram comes.                                *)

\* What has come with one more.
LEMMA OneMoreCame ==
    ASSUME BroadcastIInv, NEW p \in Places, received' = Append(received, p)
    PROVE  /\ received' # <<>> /\ LastPlace' = p /\ ToSet(received') = ToSet(received) \cup {p}
           /\ ToSet(received) \subseteq Places
           /\ LateOnes' = {} => LateOnes = {} /\ (received # <<>> => LastPlace <= p)
<1>1. /\ received' # <<>> /\ LastPlace' = p /\ ToSet(received') = ToSet(received) \cup {p}
      /\ ToSet(received) \subseteq Places
  BY OneMoreReceived
<1> DEFINE n == Len(received)
<1>2. received \in Seq(Places) /\ n \in Nat /\ \A q \in 1 .. n : received[q] \in Places
  BY LenProperties, ElementOfSeq DEF BroadcastIInv
<1>3. /\ Len(received') = n + 1 /\ received'[n + 1] = p
      /\ \A q \in 1 .. n : received'[q] = received[q]
  BY <1>2, AppendProperties
<1>4. \A i : i \in LateOnes <=> i \in 2 .. n /\ received[i] < received[i - 1]
  BY DEF LateOnes
<1>5. \A i : i \in LateOnes' <=> i \in 2 .. n + 1 /\ received'[i] < received'[i - 1]
  BY <1>3 DEF LateOnes
<1>6. received # <<>> => n \in 1 .. n /\ LastPlace = received[n]
  <2>1. received # <<>> => n # 0
    BY <1>2, EmptySeq
  <2>2. QED
    BY <1>2, <2>1 DEF LastPlace
<1> HIDE DEF n
<1>7. ASSUME LateOnes' = {}
      PROVE  LateOnes = {} /\ (received # <<>> => LastPlace <= p)
  <2>1. ASSUME NEW i \in LateOnes
        PROVE  FALSE
    <3>1. i \in 2 .. n /\ received[i] < received[i - 1]
      BY <1>4
    <3>2. i \in 1 .. n /\ i - 1 \in 1 .. n /\ i \in 2 .. n + 1
      BY <1>2, <3>1
    <3>3. received'[i] < received'[i - 1]
      BY <1>3, <3>1, <3>2
    <3>4. QED
      BY <1>5, <1>7, <3>2, <3>3
  <2>2. ASSUME received # <<>>
        PROVE  LastPlace <= p
    <3>1. n + 1 \in 2 .. n + 1 /\ (n + 1) - 1 = n /\ n \in 1 .. n
      BY <1>2, <1>6, <2>2
    <3>2. ~(received'[n + 1] < received'[n])
      BY <1>5, <1>7, <3>1
    <3>3. ~(p < received[n]) /\ received[n] \in Places
      BY <1>2, <1>3, <3>1, <3>2
    <3>4. QED
      BY <1>6, <2>2, <3>3 DEF Places
  <2>3. QED
    BY <2>1, <2>2
<1>8. QED
  BY <1>1, <1>7

LEMMA NoneBehindKept ==
    ASSUME BroadcastIInv, DamageInv, NEW p \in Places, received' = Append(received, p)
    PROVE  NoneBehind'
<1>1. /\ LastPlace' = p /\ ToSet(received') = ToSet(received) \cup {p}
      /\ ToSet(received) \subseteq Places
      /\ LateOnes' = {} => LateOnes = {} /\ (received # <<>> => LastPlace <= p)
  BY OneMoreCame
<1>2. SUFFICES ASSUME LateOnes' = {}, NEW x \in ToSet(received')
               PROVE  x <= p
  BY <1>1 DEF NoneBehind
<1>3. CASE x = p
  BY <1>3 DEF Places
<1>4. CASE x \in ToSet(received)
  <2>1. received # <<>>
    BY <1>4, EmptySeq DEF ToSet
  <2>2. x <= LastPlace /\ LastPlace <= p
    BY <1>1, <1>2, <1>4, <2>1 DEF DamageInv, NoneBehind
  <2>3. x \in Places /\ LastPlace \in Places
    <3>1. received \in Seq(Places) /\ Len(received) \in 1 .. Len(received)
      BY <2>1, LenProperties, EmptySeq DEF BroadcastIInv
    <3>2. QED
      BY <1>1, <1>4, <3>1, ElementOfSeq DEF LastPlace
  <2>4. QED
    BY <2>2, <2>3 DEF Places
<1>5. QED
  BY <1>1, <1>2, <1>3, <1>4

LEMMA ClosedJoin ==
    ASSUME NEW s \in Seq(Unit), Closed(s), NEW t \in Seq(Unit), Closed(t)
    PROVE  Closed(s \o t)
<1> DEFINE n == Len(s)
           m == Len(t)
           z == s \o t
<1>1. /\ n \in Nat /\ m \in Nat /\ Len(z) = n + m
      /\ \A i \in 1 .. n + m : z[i] = IF i <= n THEN s[i] ELSE t[i - n]
  BY LenProperties, ConcatProperties
<1>2. CASE t = <<>>
  <2>1. z = s
    BY <1>2, ConcatEmptySeq
  <2>2. QED
    BY <2>1
<1>3. CASE t # <<>>
  <2>1. m # 0 /\ t[m] = Flag
    BY <1>3, EmptySeq DEF Closed
  <2> HIDE DEF n, m, z
  <2>2. n + m \in 1 .. n + m /\ ~(n + m <= n) /\ (n + m) - n = m
    BY <1>1, <2>1
  <2>3. z[Len(z)] = Flag
    BY <1>1, <2>1, <2>2
  <2>4. QED
    BY <2>3 DEF Closed, z
<1>4. QED
  BY <1>2, <1>3

\* What comes out of what is joined, and how it goes behind what came out before.
LEMMA ComesOut ==
    ASSUME BroadcastIInv, PathInv, DamageInv, NEW i \in DOMAIN flying, Receive(i)
    PROVE  LET p == flying[i] IN
           /\ got' \in Seq(Unit) /\ outBuf' \in Seq(Unit) /\ fragBuf' \in Seq(Unit)
           /\ Returned \in Seq(Unit) /\ Closed(Returned)
           /\ Returned' \in Seq(Unit) /\ Closed(Returned') /\ Returned' = Returned \o outBuf'
           /\ p \notin RecordEnds => Returned' = Returned
           /\ \A k : Body(k) \in ToSet(outBuf') => Body(k) \in ToSet(Joined(p))
<1> DEFINE p == flying[i]
           J == Joined(p)
<1>1. /\ p \in DOMAIN Cuts /\ p \notin ToSet(received) /\ ToSet(received) \subseteq DOMAIN Cuts
      /\ Returned = got /\ Returned' = Returned \o outBuf' /\ got' = got
      /\ IF p \in RecordEnds
         THEN outBuf' = Extracted(J) /\ (fragBuf' = <<>> \/ (fragBuf' = fragBuf /\ IsFirst(p)))
         ELSE outBuf' = <<>> /\ fragBuf' = J
  BY ReceiveIs
<1> HIDE DEF p
<1>2. /\ J \in Seq(Unit) /\ J # <<>> /\ (p \in RecordEnds => J[Len(J)] = Flag)
  BY <1>1, JoinedIs
<1>3. got \in Seq(Unit) /\ fragBuf \in Seq(Unit) /\ Closed(Returned)
  BY DEF DamageInv
<1> HIDE DEF J
<1>4. CASE p \in RecordEnds
  <2>1. /\ Extracted(J) \in Seq(Unit) /\ Closed(Extracted(J))
        /\ \A k : Body(k) \in ToSet(Extracted(J)) => Body(k) \in ToSet(J)
    BY <1>2, <1>4, ExtractedIs
  <2>2. outBuf' = Extracted(J) /\ fragBuf' \in Seq(Unit)
    BY <1>1, <1>3, <1>4, EmptySeq
  <2>3. Closed(Returned \o outBuf') /\ Returned \o outBuf' \in Seq(Unit)
    BY <1>1, <1>3, <2>1, <2>2, ClosedJoin, ConcatProperties
  <2>4. QED
    BY <1>1, <1>3, <1>4, <2>1, <2>2, <2>3 DEF p, J
<1>5. CASE p \notin RecordEnds
  <2>1. outBuf' = <<>> /\ fragBuf' = J
    BY <1>1, <1>5
  <2>2. Returned' = Returned
    BY <1>1, <1>3, <2>1, ConcatEmptySeq
  <2>3. \A k : Body(k) \notin ToSet(outBuf')
    BY <2>1, EmptySeq DEF ToSet
  <2>4. QED
    BY <1>1, <1>2, <1>3, <1>5, <2>1, <2>2, <2>3, EmptySeq DEF p, J
<1>6. QED
  BY <1>4, <1>5

LEMMA FragmentStays ==
    ASSUME BroadcastIInv, PathInv, DamageInv, NEW i \in DOMAIN flying, Receive(i)
    PROVE  FragmentHeld'
<1>0. PICK p : p = flying[i]
  OBVIOUS
<1>1. /\ p \in DOMAIN Cuts /\ p \in Places /\ p \notin ToSet(received)
      /\ ToSet(received) \subseteq DOMAIN Cuts /\ received' = Append(received, p)
      /\ p \notin RecordEnds => fragBuf' = Joined(p)
  BY <1>0, ReceiveIs
<1>2. LastPlace' = p
  BY <1>1, OneMoreCame
<1>3. SUFFICES ASSUME p \notin RecordEnds
               PROVE  /\ fragBuf' # <<>> /\ fragBuf'[Len(fragBuf')] = UnitAt(Cuts[p])
                      /\ CleanAt(p, Len(received))' => fragBuf' = RecordUpto(p)
  <2>1. CleanAt(LastPlace, Len(received))' <=> CleanAt(p, Len(received))'
    BY <1>2 DEF CleanAt
  <2>2. RecordUpto(LastPlace)' = RecordUpto(p)
    BY <1>2
  <2>3. QED
    BY <1>2, <1>3, <2>1, <2>2 DEF FragmentHeld
<1>4. fragBuf' = Joined(p)
  BY <1>1, <1>3
<1>5. Joined(p) # <<>> /\ Joined(p)[Len(Joined(p))] = UnitAt(Cuts[p])
  BY <1>1, JoinedIs
<1>6. CleanAt(p, Len(received))' => Joined(p) = RecordUpto(p)
  BY <1>1, JoinedIsRecord
<1>7. QED
  BY <1>4, <1>5, <1>6

LEMMA BodiesStayApart ==
    ASSUME BroadcastIInv, PathInv, DamageInv, NEW i \in DOMAIN flying, Receive(i)
    PROVE  BodiesApart'
<1> DEFINE p == flying[i]
           J == Joined(p)
<1>1. /\ p \in DOMAIN Cuts /\ p \in Places /\ p \notin ToSet(received)
      /\ ToSet(received) \subseteq DOMAIN Cuts /\ received' = Append(received, p)
      /\ IF p \in RecordEnds
         THEN fragBuf' = <<>> \/ (fragBuf' = fragBuf /\ IsFirst(p))
         ELSE fragBuf' = J
  BY ReceiveIs
<1>2. /\ Returned \in Seq(Unit) /\ Closed(Returned) /\ outBuf' \in Seq(Unit)
      /\ Returned' = Returned \o outBuf' /\ (p \notin RecordEnds => Returned' = Returned)
      /\ \A k : Body(k) \in ToSet(outBuf') => Body(k) \in ToSet(J)
  BY ComesOut
<1> HIDE DEF p
<1>3. /\ \A k : Body(k) \in ToSet(J) =>
            /\ k \in Places /\ \E w \in ToSet(received) \cup {p} : Inside(w, 3 * k - 2)
            /\ Body(k) \notin ToSet(Returned)
      /\ \A k : Body(k) \in ToSet(Data(p)) => Body(k) \notin ToSet(fragBuf)
  BY <1>1, JoinedIs
<1>4. IsFirst(p) => J = Data(p)
  BY DEF Joined
<1> HIDE DEF J
<1>5. ToSet(received') = ToSet(received) \cup {p}
  BY <1>1, OneMoreCame
<1>6. ToSet(Returned') = ToSet(Returned) \cup ToSet(outBuf')
  BY <1>2, FramesJoin
<1>7. \A k : /\ Body(k) \in ToSet(Returned) \/ Body(k) \in ToSet(fragBuf) =>
                   k \in Places /\ \E w \in ToSet(received) : Inside(w, 3 * k - 2)
             /\ ~(Body(k) \in ToSet(Returned) /\ Body(k) \in ToSet(fragBuf))
  BY DEF DamageInv, BodiesApart
<1>8. ASSUME NEW k
      PROVE  /\ Body(k) \in ToSet(Returned') \/ Body(k) \in ToSet(fragBuf') =>
                   k \in Places /\ \E w \in ToSet(received') : Inside(w, 3 * k - 2)
             /\ ~(Body(k) \in ToSet(Returned') /\ Body(k) \in ToSet(fragBuf'))
  <2>1. Body(k) \in ToSet(Returned') => Body(k) \in ToSet(Returned) \/ Body(k) \in ToSet(J)
    BY <1>2, <1>6
  <2>2. Body(k) \notin ToSet(<<>>)
    BY EmptySeq DEF ToSet
  <2>3. CASE p \in RecordEnds /\ fragBuf' = <<>>
    BY <1>3, <1>5, <1>7, <2>1, <2>2, <2>3
  <2>4. CASE p \in RecordEnds /\ fragBuf' = fragBuf /\ IsFirst(p)
    <3>1. Body(k) \in ToSet(J) => Body(k) \notin ToSet(fragBuf)
      BY <1>3, <1>4, <2>4
    <3>2. QED
      BY <1>3, <1>5, <1>7, <2>1, <2>4, <3>1
  <2>5. CASE p \notin RecordEnds
    <3>1. fragBuf' = J /\ Returned' = Returned
      BY <1>1, <1>2, <2>5
    <3>2. QED
      BY <1>3, <1>5, <1>7, <3>1
  <2>6. QED
    BY <1>1, <2>3, <2>4, <2>5
<1>9. QED
  BY <1>8 DEF BodiesApart

LEMMA BreaksStayCovered ==
    ASSUME BroadcastIInv, PathInv, DamageInv, NEW i \in DOMAIN flying, Receive(i)
    PROVE  BreaksCovered'
<1> DEFINE p == flying[i]
           J == Joined(p)
           y == outBuf'
           mr == Cardinality(Mangled(Returned))
           mo == Cardinality(Mangled(Returned'))
           my == Cardinality(Mangled(y))
           bf == Cardinality(Breaks(fragBuf))
           bo == Cardinality(Breaks(fragBuf'))
           bj == Cardinality(Breaks(J))
           se == Cardinality(Seams)
           so == Cardinality(Seams')
<1>1. /\ p \in DOMAIN Cuts /\ p \in Places /\ p \notin ToSet(received)
      /\ ToSet(received) \subseteq DOMAIN Cuts /\ received' = Append(received, p)
      /\ IF p \in RecordEnds
         THEN y = Extracted(J) /\ (fragBuf' = <<>> \/ (fragBuf' = fragBuf /\ IsFirst(p)))
         ELSE fragBuf' = J
  BY ReceiveIs
<1>2. /\ Returned \in Seq(Unit) /\ Closed(Returned) /\ y \in Seq(Unit) /\ fragBuf' \in Seq(Unit)
      /\ Returned' = Returned \o y /\ (p \notin RecordEnds => Returned' = Returned)
      /\ Returned' \in Seq(Unit)
  BY ComesOut
<1> HIDE DEF p
<1>3. J \in Seq(Unit) /\ J # <<>> /\ (p \in RecordEnds => J[Len(J)] = Flag)
  BY <1>1, JoinedIs
<1>4. /\ IsFirst(p) => bj = 0
      /\ ~IsFirst(p) => bj <= bf + 1
      /\ ~IsFirst(p) /\ received # <<>> /\ LastPlace + 1 = p => bj <= bf
  BY <1>1, JoinedBreaks
<1>5. /\ se \in Nat /\ so \in Nat /\ so >= se
      /\ ~(received # <<>> /\ LastPlace + 1 = p) /\ p # 1 => so = se + 1
  BY <1>1, OneMoreSeam
<1>6. ~IsFirst(p) => p # 1
  BY DEF IsFirst
<1>7. fragBuf \in Seq(Unit) /\ mr + bf <= se
  BY DEF DamageInv, BreaksCovered
<1>8. bf \in Nat /\ bo \in Nat /\ bj \in Nat /\ mr \in Nat /\ mo \in Nat /\ my \in Nat
  BY <1>2, <1>3, <1>7, BreaksFinite, DamageAtBreaks
<1>9. mo <= mr + my
  <2>1. Cardinality(Mangled(Returned \o y)) <= mr + my
    BY <1>2, MangledJoin
  <2>2. QED
    BY <1>2, <2>1
<1>10. p \in RecordEnds => my <= bj
  <2>1. J \in Seq(Unit) /\ J # <<>> /\ p \in RecordEnds /\ J[Len(J)] = Flag
           => Cardinality(Mangled(Extracted(J))) <= bj
    BY ExtractedIs
  <2>2. QED
    BY <1>1, <1>3, <2>1
<1>11. Cardinality(Breaks(<<>>)) = 0
  <2>1. Breaks(<<>>) = {}
    BY EmptySeq DEF Breaks
  <2>2. QED
    BY <2>1, FS_EmptySet
<1> HIDE DEF y, mr, mo, my, bf, bo, bj, se, so
<1>12. mo + bo <= so
  <2>1. CASE p \in RecordEnds /\ fragBuf' = <<>>
    <3>1. bo = 0
      BY <1>11, <2>1 DEF bo
    <3>2. CASE IsFirst(p)
      BY <1>4, <1>5, <1>7, <1>8, <1>9, <1>10, <2>1, <3>1, <3>2
    <3>3. CASE ~IsFirst(p)
      BY <1>4, <1>5, <1>6, <1>7, <1>8, <1>9, <1>10, <2>1, <3>1, <3>3
    <3>4. QED
      BY <3>2, <3>3
  <2>2. CASE p \in RecordEnds /\ fragBuf' = fragBuf /\ IsFirst(p)
    <3>1. bo = bf
      BY <2>2 DEF bo, bf
    <3>2. QED
      BY <1>4, <1>5, <1>7, <1>8, <1>9, <1>10, <2>2, <3>1
  <2>3. CASE p \notin RecordEnds
    <3>1. bo = bj /\ mo = mr
      BY <1>1, <1>2, <2>3 DEF bo, bj, mo, mr
    <3>2. CASE IsFirst(p)
      BY <1>4, <1>5, <1>7, <1>8, <3>1, <3>2
    <3>3. CASE ~IsFirst(p)
      BY <1>4, <1>5, <1>6, <1>7, <1>8, <3>1, <3>3
    <3>4. QED
      BY <3>2, <3>3
  <2>4. QED
    BY <1>1, <2>1, <2>2, <2>3
<1>13. QED
  BY <1>12 DEF BreaksCovered, mo, bo, so

\* A record that is clean with this datagram: it is the one that has come out.
LEMMA NewlyClean ==
    ASSUME BroadcastIInv, PathInv, DamageInv, NEW i \in DOMAIN flying, Receive(i),
           NEW z \in RecordEnds, Clean(z)', ~Clean(z)
    PROVE  z = flying[i] /\ Joined(z) = RecordUpto(z) /\ outBuf' = Extracted(Joined(z))
<1>0. PICK p : p = flying[i]
  OBVIOUS
<1>1. /\ p \in DOMAIN Cuts /\ received' = Append(received, p)
      /\ p \in RecordEnds => outBuf' = Extracted(Joined(p))
  BY <1>0, ReceiveIs
<1>2. z \in DOMAIN Cuts
  BY BroadcastAssumption
<1>3. z = p /\ CleanAt(p, Len(received))'
  BY <1>1, <1>2, CleanGrows
<1>4. Joined(p) = RecordUpto(p)
  BY <1>1, <1>3, JoinedIsRecord
<1>5. QED
  BY <1>0, <1>1, <1>3, <1>4

\* The frames that had come out and those that have now.
LEMMA FramesStay ==
    ASSUME BroadcastIInv, PathInv, DamageInv, NEW i \in DOMAIN flying, Receive(i), NEW f
    PROVE  f \in FramesIn(Returned) \/ f \in FramesIn(outBuf') => f \in FramesIn(Returned')
<1>1. /\ Returned \in Seq(Unit) /\ Closed(Returned) /\ outBuf' \in Seq(Unit)
      /\ Returned' = Returned \o outBuf'
  BY ComesOut
<1>2. ASSUME NEW s \in Seq(Unit), Closed(s), NEW t \in Seq(Unit)
      PROVE  f \in FramesIn(s) \/ f \in FramesIn(t) => f \in FramesIn(s \o t)
  <2>1. /\ \A e \in Ends(s) : e \in Ends(s \o t) /\ FrameAt(s \o t, e) = FrameAt(s, e)
        /\ \A e \in Ends(t) : /\ Len(s) + e \in Ends(s \o t)
                              /\ FrameAt(s \o t, Len(s) + e) = FrameAt(t, e)
    BY <1>2, FramesJoin
  <2>2. QED
    BY <2>1 DEF FramesIn
<1>3. f \in FramesIn(Returned) \/ f \in FramesIn(outBuf') => f \in FramesIn(Returned \o outBuf')
  BY <1>1, <1>2
<1>4. QED
  BY <1>1, <1>3

LEMMA CleanComesOut ==
    ASSUME BroadcastIInv, PathInv, DamageInv, NEW i \in DOMAIN flying, Receive(i)
    PROVE  CleanOut'
<1>1. ASSUME NEW z \in RecordEnds, Clean(z)', NEW k \in FramesOf(z) \cap LogFrames
      PROVE  Contents(k) \in FramesIn(Returned')
  <2>1. CASE Clean(z)
    <3>1. Contents(k) \in FramesIn(Returned)
      BY <2>1 DEF DamageInv, CleanOut
    <3>2. QED
      BY <3>1, FramesStay
  <2>2. CASE ~Clean(z)
    <3>1. Joined(z) = RecordUpto(z) /\ outBuf' = Extracted(Joined(z))
      BY <1>1, <2>2, NewlyClean
    <3>2. PICK a \in Nat, m \in Nat \ {0} :
             /\ RecordUpto(z) = Segment(3 * a + 1, 3 * m)
             /\ \A j \in FramesOf(z) : j \in Nat /\ a < j /\ j <= a + m
      BY RecordIs
    <3>3. Contents(k) \in FramesIn(Extracted(Segment(3 * a + 1, 3 * m)))
      <4>1. k \in LogFrames /\ k \in Nat /\ a < k /\ k <= a + m
        BY <3>2
      <4>2. QED
        BY <4>1, WholeExtracted
    <3>4. Contents(k) \in FramesIn(outBuf')
      BY <3>1, <3>2, <3>3
    <3>5. QED
      BY <3>4, FramesStay
  <2>3. QED
    BY <2>1, <2>2
<1>2. QED
  BY <1>1 DEF CleanOut, FramesOf

\* A frame that had come out is of a record that was clean.
LEMMA OldOnes ==
    ASSUME BroadcastIInv, PathInv, DamageInv, NEW i \in DOMAIN flying, Receive(i),
           NEW z \in RecordEnds, Clean(z)', NEW k \in FramesOf(z),
           NEW e \in Ends(Returned), FrameAt(Returned, e) = Contents(k)
    PROVE  Clean(z)
<1>1. SUFFICES ASSUME ~Clean(z) PROVE FALSE
  OBVIOUS
<1>2. z = flying[i] /\ Joined(z) = RecordUpto(z)
  BY <1>1, NewlyClean
<1>3. /\ z \in DOMAIN Cuts /\ z \notin ToSet(received) /\ ToSet(received) \subseteq DOMAIN Cuts
  BY <1>2, ReceiveIs
<1>4. Body(k) \in ToSet(Joined(z))
  BY <1>2, RecordHasBodies
<1>5. Body(k) \notin ToSet(Returned)
  BY <1>3, <1>4, JoinedIs
<1>6. Returned \in Seq(Unit)
  BY ComesOut
<1>7. QED
  BY <1>5, <1>6, BodyIsIn

\* One that has come out now is of the record that is clean with it.
LEMMA NewOnes ==
    ASSUME BroadcastIInv, PathInv, DamageInv, NEW i \in DOMAIN flying, Receive(i),
           NEW z \in RecordEnds, Clean(z)', NEW k \in FramesOf(z),
           NEW e \in Ends(outBuf'), FrameAt(outBuf', e) = Contents(k)
    PROVE  ~Clean(z)
<1>1. SUFFICES ASSUME Clean(z) PROVE FALSE
  OBVIOUS
<1>0. PICK p : p = flying[i]
  OBVIOUS
<1>2. /\ p \in DOMAIN Cuts /\ p \notin ToSet(received) /\ ToSet(received) \subseteq DOMAIN Cuts
      /\ p \in RecordEnds => outBuf' = Extracted(Joined(p))
      /\ p \notin RecordEnds => outBuf' = <<>>
  BY <1>0, ReceiveIs
<1>3. outBuf' \in Seq(Unit) /\ \A j : Body(j) \in ToSet(outBuf') => Body(j) \in ToSet(Joined(p))
  BY <1>0, ComesOut
<1>4. p \in RecordEnds
  <2>1. outBuf' # <<>>
    BY EmptySeq DEF Ends
  <2>2. QED
    BY <1>2, <2>1
<1>5. Joined(p) \in Seq(Unit) /\ Joined(p) # <<>> /\ Joined(p)[Len(Joined(p))] = Flag
  BY <1>2, <1>4, JoinedIs
<1>6. k \in LogFrames
  <2>1. IsLog(Contents(k))
    <3>1. \A d \in Ends(Extracted(Joined(p))) : IsLog(FrameAt(Extracted(Joined(p)), d))
      BY <1>5, ExtractedIs
    <3>2. QED
      BY <1>2, <1>4, <3>1
  <2>2. Contents(k)[1] = <<k, "body">> /\ Contents(k)[1][1] = k
    BY DEF Contents, Body
  <2>3. Contents(k)[1] # Trailer(k)
    BY <2>2 DEF Trailer
  <2>4. QED
    BY <2>1, <2>2, <2>3 DEF IsLog
<1>7. Contents(k) \in FramesIn(Returned)
  BY <1>1, <1>6 DEF DamageInv, CleanOut
<1>8. PICK d \in Ends(Returned) : FrameAt(Returned, d) = Contents(k)
  BY <1>7 DEF FramesIn
<1>9. Returned \in Seq(Unit)
  BY ComesOut
<1>10. Body(k) \in ToSet(Returned)
  BY <1>8, <1>9, BodyIsIn
<1>11. Body(k) \in ToSet(Joined(p))
  BY <1>3, BodyIsIn
<1>12. QED
  BY <1>2, <1>10, <1>11, JoinedIs

\* The frames of records one after the other.
LEMMA RecordsInOrder ==
    ASSUME NEW y \in RecordEnds, NEW z \in RecordEnds, y < z,
           NEW j \in FramesOf(y), NEW k \in FramesOf(z)
    PROVE  j < k
<1>1. y \in DOMAIN Cuts /\ z \in DOMAIN Cuts
  BY BroadcastAssumption
<1>2. Opening(z) \in DOMAIN Cuts /\ y < Opening(z)
  BY <1>1, OpeningIs
<1>3. /\ Cuts[y] <= Before(Opening(z)) /\ Cuts[y] \in Nat
      /\ Before(Opening(z)) \in Nat /\ Cuts[z] \in Nat
  BY <1>1, <1>2, CutsRise
<1>4. j \in Nat /\ k \in Nat /\ 3 * j <= Cuts[y] /\ Before(Opening(z)) < 3 * k
  BY <1>3 DEF FramesOf
<1>5. QED
  BY <1>3, <1>4

LEMMA CleanStayInOrder ==
    ASSUME BroadcastIInv, PathInv, DamageInv, NEW i \in DOMAIN flying, Receive(i)
    PROVE  LateOnes' = {} => CleanInOrder'
<1>0. PICK p : p = flying[i]
  OBVIOUS
<1> DEFINE s == Returned
           t == outBuf'
           n == Len(s)
<1>1. SUFFICES ASSUME LateOnes' = {}, NEW d \in Ends(Returned'), NEW e \in Ends(Returned'), d < e,
                      FromClean(FrameAt(Returned, d))', FromClean(FrameAt(Returned, e))'
               PROVE  FrameAt(Returned', d)[1][1] < FrameAt(Returned', e)[1][1]
  BY DEF CleanInOrder, FromClean
<1>2. /\ p \in DOMAIN Cuts /\ p \in Places /\ p \notin ToSet(received)
      /\ received' = Append(received, p)
  BY <1>0, ReceiveIs
<1>3. /\ s \in Seq(Unit) /\ Closed(s) /\ t \in Seq(Unit) /\ Returned' = s \o t
      /\ Returned' \in Seq(Unit) /\ n \in Nat
  BY ComesOut, LenProperties
<1>4. PICK y \in RecordEnds :
         Clean(y)' /\ \E x \in FramesOf(y) : FrameAt(Returned', d) = Contents(x)
  BY <1>1 DEF FromClean, FramesOf
<1>5. PICK z \in RecordEnds :
         Clean(z)' /\ \E x \in FramesOf(z) : FrameAt(Returned', e) = Contents(x)
  BY <1>1 DEF FromClean, FramesOf
<1>6. PICK j \in FramesOf(y) : FrameAt(Returned', d) = Contents(j)
  BY <1>4
<1>7. PICK k \in FramesOf(z) : FrameAt(Returned', e) = Contents(k)
  BY <1>5
<1>8. FrameAt(Returned', d)[1][1] = j /\ FrameAt(Returned', e)[1][1] = k
  BY <1>3, <1>6, <1>7, BodyIsIn
<1>9. /\ \A x \in Ends(s) : x \in 1 .. n /\ FrameAt(s \o t, x) = FrameAt(s, x)
      /\ \A x \in Ends(t) : FrameAt(s \o t, n + x) = FrameAt(t, x)
      /\ \A x \in Ends(s \o t) :
            \/ x \in Ends(s)
            \/ x - n \in Ends(t) /\ x > n /\ x = n + (x - n)
  BY <1>3, FramesJoin
<1>10. d \in Ends(s \o t) /\ e \in Ends(s \o t) /\ d \in Nat /\ e \in Nat
  BY <1>3, LenProperties DEF Ends
<1> HIDE DEF t
<1>11. CASE d \in Ends(s) /\ e \in Ends(s)
  <2>1. FrameAt(s, d) = Contents(j) /\ FrameAt(s, e) = Contents(k)
    BY <1>3, <1>6, <1>7, <1>9, <1>11
  <2>2. Clean(y) /\ Clean(z)
    BY <1>4, <1>5, <1>11, <2>1, OldOnes
  <2>3. FromClean(FrameAt(Returned, d)) /\ FromClean(FrameAt(Returned, e))
    BY <2>1, <2>2 DEF FromClean
  <2>4. LateOnes = {}
    BY <1>1, <1>2, OneMoreCame
  <2>5. FrameAt(Returned, d)[1][1] < FrameAt(Returned, e)[1][1]
    BY <1>1, <1>11, <2>3, <2>4 DEF DamageInv, CleanInOrder
  <2>6. FrameAt(Returned, d)[1][1] = j /\ FrameAt(Returned, e)[1][1] = k
    BY <1>3, <1>11, <2>1, BodyIsIn
  <2>7. QED
    BY <1>8, <2>5, <2>6
<1>12. CASE d \in Ends(s) /\ e \notin Ends(s)
  <2>1. e - n \in Ends(t) /\ e = n + (e - n)
    BY <1>9, <1>10, <1>12
  <2>2. FrameAt(s, d) = Contents(j) /\ FrameAt(t, e - n) = Contents(k)
    BY <1>3, <1>6, <1>7, <1>9, <1>12, <2>1
  <2>3. Clean(y)
    BY <1>4, <1>12, <2>2, OldOnes
  <2>4. ~Clean(z)
    BY <1>5, <2>1, <2>2, NewOnes DEF t
  <2>5. z = p
    BY <1>0, <1>5, <2>4, NewlyClean
  <2>6. y \in ToSet(received) /\ y \in DOMAIN Cuts /\ y \in Places
    BY <2>3, CleanCame, CutsRise, BroadcastAssumption
  <2>7. y <= p
    <3>1. /\ NoneBehind' /\ LastPlace' = p /\ received' # <<>>
          /\ ToSet(received') = ToSet(received) \cup {p}
      BY <1>2, NoneBehindKept, OneMoreCame
    <3>2. QED
      BY <1>1, <2>6, <3>1 DEF NoneBehind
  <2>8. y < z
    <3>1. y # p
      BY <1>2, <2>6
    <3>2. QED
      BY <1>2, <2>5, <2>6, <2>7, <3>1 DEF Places
  <2>9. j < k
    BY <2>8, RecordsInOrder
  <2>10. QED
    BY <1>8, <2>9
<1>13. CASE d \notin Ends(s) /\ e \notin Ends(s)
  <2>1. d - n \in Ends(t) /\ d = n + (d - n) /\ e - n \in Ends(t) /\ e = n + (e - n)
    BY <1>9, <1>10, <1>13
  <2>2. FrameAt(t, d - n) = Contents(j) /\ FrameAt(t, e - n) = Contents(k)
    BY <1>3, <1>6, <1>7, <1>9, <2>1
  <2>3. ~Clean(z)
    BY <1>5, <2>1, <2>2, NewOnes DEF t
  <2>4. t = Extracted(RecordUpto(z))
    BY <1>5, <2>3, NewlyClean DEF t
  <2>5. PICK a \in Nat, m \in Nat \ {0} : RecordUpto(z) = Segment(3 * a + 1, 3 * m)
    BY RecordIs
  <2>6. t = Extracted(Segment(3 * a + 1, 3 * m))
    BY <2>4, <2>5
  <2>7. d - n < e - n
    BY <1>1, <1>3, <1>10
  <2>8. FrameAt(t, d - n)[1][1] < FrameAt(t, e - n)[1][1]
    BY <2>1, <2>6, <2>7, WholeExtracted
  <2>9. FrameAt(t, d - n)[1][1] = j /\ FrameAt(t, e - n)[1][1] = k
    BY <1>3, <2>1, <2>2, BodyIsIn
  <2>10. QED
    BY <1>8, <2>8, <2>9
<1>14. CASE d \notin Ends(s) /\ e \in Ends(s)
  <2>1. d > n /\ e <= n
    BY <1>3, <1>9, <1>10, <1>14
  <2>2. QED
    BY <1>1, <1>3, <1>10, <2>1
<1>15. QED
  BY <1>11, <1>12, <1>13, <1>14

LEMMA DamageInitHolds == BroadcastInit => DamageInv
<1> SUFFICES ASSUME BroadcastInit PROVE DamageInv
  OBVIOUS
<1>1. /\ got = <<>> /\ outBuf = <<>> /\ fragBuf = <<>> /\ received = <<>>
  BY DEF BroadcastInit
<1>2. Len(<<>>) = 0 /\ <<>> \in Seq(Unit) /\ DOMAIN <<>> = {}
  BY EmptySeq
<1>3. Returned = <<>>
  BY <1>1, <1>2, ConcatEmptySeq DEF Returned
<1>4. ToSet(<<>>) = {} /\ Ends(<<>>) = {}
  BY <1>2 DEF ToSet, Ends
<1>5. Mangled(<<>>) = {} /\ Breaks(<<>>) = {} /\ Seams = {}
  BY <1>1, <1>2, <1>4 DEF Mangled, Breaks, Seams
<1>6. BreaksCovered
  <2>1. Cardinality({}) = 0
    BY FS_EmptySet
  <2>2. /\ Cardinality(Mangled(Returned)) = 0 /\ Cardinality(Breaks(fragBuf)) = 0
        /\ Cardinality(Seams) = 0
    BY <1>1, <1>3, <1>5, <2>1
  <2>3. QED
    BY <2>2 DEF BreaksCovered
<1>7. CleanOut
  BY <1>1, <1>2 DEF CleanOut, Clean
<1>8. QED
  BY <1>1, <1>2, <1>3, <1>4, <1>6, <1>7
     DEF DamageInv, Closed, FragmentHeld, BodiesApart, NoneBehind, CleanInOrder

\* read() hands out what it has a part at a time.
LEMMA ReturnMoves ==
    DamageInv /\ Return => Returned' = Returned /\ got' \in Seq(Unit) /\ outBuf' \in Seq(Unit)
<1> SUFFICES ASSUME DamageInv, Return
             PROVE  Returned' = Returned /\ got' \in Seq(Unit) /\ outBuf' \in Seq(Unit)
  OBVIOUS
<1> DEFINE n == IF Chunk < Len(outBuf) THEN Chunk ELSE Len(outBuf)
           l == SubSeq(outBuf, 1, n)
           r == SubSeq(outBuf, n + 1, Len(outBuf))
<1>1. got' = got \o l /\ outBuf' = r
  BY DEF Return
<1>2. got \in Seq(Unit) /\ outBuf \in Seq(Unit) /\ Len(outBuf) \in Nat
  BY LenProperties DEF DamageInv
<1>3. n \in 0 .. Len(outBuf)
  BY <1>2, BroadcastAssumption
<1> HIDE DEF n
<1>4. l \in Seq(Unit) /\ r \in Seq(Unit) /\ outBuf = l \o r
  <2>1. \A k \in 1 .. Len(outBuf) : outBuf[k] \in Unit
    BY <1>2, ElementOfSeq
  <2>2. l \in Seq(Unit) /\ r \in Seq(Unit)
    <3>1. \A k \in 1 .. n : outBuf[k] \in Unit
      BY <1>2, <1>3, <2>1
    <3>2. \A k \in n + 1 .. Len(outBuf) : outBuf[k] \in Unit
      BY <1>2, <1>3, <2>1
    <3>3. n \in Int /\ n + 1 \in Int /\ Len(outBuf) \in Int
      BY <1>2, <1>3
    <3>4. QED
      BY <3>1, <3>2, <3>3, SubSeqProperties
  <2>3. QED
    BY <1>2, <1>3, <2>2, CutInTwo
<1> HIDE DEF l, r
<1>5. (got \o l) \o r = got \o (l \o r)
  BY <1>2, <1>4, ConcatAssociative
<1>6. QED
  BY <1>1, <1>2, <1>4, <1>5, ConcatProperties DEF Returned

LEMMA DamageStepHolds ==
    BroadcastIInv /\ PathInv /\ DamageInv /\ [BroadcastNext]_broadcastVars => DamageInv'
<1> SUFFICES ASSUME BroadcastIInv, PathInv, DamageInv, [BroadcastNext]_broadcastVars
             PROVE  DamageInv'
  OBVIOUS
<1>1. ASSUME NEW i \in DOMAIN flying, Receive(i)
      PROVE  DamageInv'
  <2>1. PICK p : p = flying[i]
    OBVIOUS
  <2>2. p \in Places /\ received' = Append(received, p)
    BY <1>1, <2>1, ReceiveIs
  <2>3. NoneBehind'
    BY <2>2, NoneBehindKept
  <2>4. got' \in Seq(Unit) /\ outBuf' \in Seq(Unit) /\ fragBuf' \in Seq(Unit) /\ Closed(Returned')
    BY <1>1, ComesOut
  <2>5. FragmentHeld' /\ BodiesApart' /\ BreaksCovered'
    BY <1>1, FragmentStays, BodiesStayApart, BreaksStayCovered
  <2>6. CleanOut' /\ (LateOnes' = {} => CleanInOrder')
    BY <1>1, CleanComesOut, CleanStayInOrder
  <2>7. Closed(Returned)'
    BY <2>4 DEF Closed
  <2>8. QED
    BY <2>3, <2>4, <2>5, <2>6, <2>7 DEF DamageInv
<1>2. ASSUME UNCHANGED <<received, fragBuf, Returned>>, got' \in Seq(Unit), outBuf' \in Seq(Unit)
      PROVE  DamageInv'
  <2>1. FragmentHeld' /\ BodiesApart' /\ BreaksCovered' /\ NoneBehind'
    BY <1>2 DEF DamageInv, FragmentHeld, BodiesApart, BreaksCovered, NoneBehind, LastPlace,
                CleanAt, Seams, LateOnes
  <2>2. CleanOut' /\ (LateOnes' = {} => CleanInOrder')
    BY <1>2 DEF DamageInv, CleanOut, CleanInOrder, FromClean, Clean, CleanAt, LateOnes
  <2>3. Closed(Returned)' /\ fragBuf' \in Seq(Unit)
    BY <1>2 DEF DamageInv, Closed
  <2>4. QED
    BY <1>2, <2>1, <2>2, <2>3 DEF DamageInv
<1>3. CASE Return
  <2>1. UNCHANGED <<received, fragBuf>>
    BY <1>3 DEF Return
  <2>2. QED
    BY <1>2, <1>3, <2>1, ReturnMoves
<1>4. ASSUME UNCHANGED <<received, fragBuf, got, outBuf>>
      PROVE  DamageInv'
  BY <1>2, <1>4 DEF DamageInv, Returned
<1>5. ASSUME NEW i \in DOMAIN flying, Lose(i)
      PROVE  DamageInv'
  BY <1>4, <1>5 DEF Lose
<1>6. CASE SendNext \/ AllThrough \/ UNCHANGED broadcastVars
  BY <1>4, <1>6 DEF SendNext, AllThrough, broadcastVars
<1>7. QED
  BY <1>1, <1>3, <1>5, <1>6 DEF BroadcastNext

LEMMA DamageCovered == BroadcastIInv /\ DamageInv => DamageStaysInRecord
<1> SUFFICES ASSUME BroadcastIInv, DamageInv PROVE DamageStaysInRecord
  OBVIOUS
<1> DEFINE a == Cardinality(Mangled(Returned))
           b == Cardinality(Breaks(fragBuf))
           c == Cardinality(Seams)
<1>1. a + b <= c
  BY DEF DamageInv, BreaksCovered
<1>2. a \in Nat /\ b \in Nat
  <2>1. fragBuf \in Seq(Unit) /\ Returned \in Seq(Unit)
    BY ConcatProperties DEF DamageInv, Returned
  <2>2. QED
    BY <2>1, BreaksFinite, DamageAtBreaks
<1>3. c \in Nat
  <2>1. received \in Seq(Places) /\ Len(received) \in Nat /\ DOMAIN received = 1 .. Len(received)
    BY LenProperties DEF BroadcastIInv
  <2>2. Seams = Jumps(received, Len(received))
    BY <2>1 DEF Seams, Jumps
  <2>3. QED
    BY <2>1, <2>2, JumpsFinite
<1> HIDE DEF a, b, c
<1>4. a <= c
  BY <1>1, <1>2, <1>3
<1>5. QED
  BY <1>4 DEF DamageInv, CleanOut, DamageStaysInRecord, a, c

-----------------------------------------------------------------------------
(* What the transports promise.                                            *)

LEMMA TransportInitHolds == TransportInit => PipeIInv /\ TcpIInv /\ BroadcastIInv
  BY PipeInitHolds, TcpInitHolds, BroadcastInitHolds DEF TransportInit

LEMMA TransportStepHolds ==
    PipeIInv /\ TcpIInv /\ BroadcastIInv /\ [TransportNext]_transportVars
        => PipeIInv' /\ TcpIInv' /\ BroadcastIInv'
<1> SUFFICES ASSUME PipeIInv, TcpIInv, BroadcastIInv, [TransportNext]_transportVars
             PROVE  PipeIInv' /\ TcpIInv' /\ BroadcastIInv'
  OBVIOUS
<1>1. [PipeNext]_pipeVars
  BY DEF TransportNext, Tcp, Broadcast, Libusb, transportVars
<1>2. [TcpNext]_tcpVars
  BY DEF TransportNext, Tcp, Broadcast, Libusb, transportVars
<1>3. [BroadcastNext]_broadcastVars
  BY DEF TransportNext, Tcp, Broadcast, Libusb, transportVars
<1>4. QED
  BY <1>1, <1>2, <1>3, PipeStepHolds, TcpStepHolds, BroadcastStepHolds

\* The invariants of all three hold whatever transport was chosen.
THEOREM TransportInvariance == TransportSpec => [](PipeIInv /\ TcpIInv /\ BroadcastIInv)
  BY TransportInitHolds, TransportStepHolds, PTL DEF TransportSpec

\* _LibusbTransport: what the device sends comes out of read() complete and in
\* order as long as the read end is there, and the EOF comes after its last byte
\* -- if the join of close() outlasts a bulk read, as the comment in close() has
\* it.
THEOREM LibusbStreamIntact == ~Wedged => (TransportSpec => []StreamIntact)
<1> SUFFICES ASSUME ~Wedged PROVE TransportSpec => []StreamIntact
  OBVIOUS
<1>1. PipeIInv => StreamIntact
  BY DEF PipeIInv, PipeTypeOK, UserSteps, BeforeJoin, AfterJoin, Carried, Upto, StreamIntact
<1>2. QED
  BY <1>1, TransportInvariance, PTL

\* _close_wfd and os.write(), unlocked on two threads, never reach a file of
\* other code, and the interface outlives the reader's use of it.
THEOREM LibusbOnlyOwnFiles == ~Wedged => (TransportSpec => []OnlyOwnFiles)
<1> SUFFICES ASSUME ~Wedged PROVE TransportSpec => []OnlyOwnFiles
  OBVIOUS
<1>1. PipeIInv => OnlyOwnFiles
  BY DEF PipeIInv, PipeTypeOK, UserSteps, BeforeJoin, AfterJoin, OnlyOwnFiles
<1>2. QED
  BY <1>1, TransportInvariance, PTL

\* What does not need that assumption: until close() is called the stream is
\* intact and no descriptor is touched but by the reader at its end, and an EOF
\* never hides a byte.
UntilClose ==
    /\ ~stop => /\ consumed \o pipe \o chunk = [k \in 1 .. sent |-> k]
                /\ ~harm /\ rfd = "pipe" /\ (wfd # "pipe" <=> rpc = "done")
    /\ sawEof => Len(consumed) = sent /\ rpc = "done"

THEOREM LibusbUntilClose == TransportSpec => []UntilClose
<1>1. PipeIInv => UntilClose
  BY DEF PipeIInv, BeforeJoin, Carried, Upto, UntilClose
<1>2. QED
  BY <1>1, TransportInvariance, PTL

\* _TcpTransport under recv(): every unit read from a socket is handed to the
\* caller or waits in _pend, over any number of connections and time-outs, and
\* until the first connection ends every unit of every frame the peer has sent
\* is there or on the wire, also behind a broker's reply.
THEOREM TcpNothingLost == TransportSpec => []NothingLostInClient
<1>1. TcpIInv => NothingLostInClient
  BY DEF TcpIInv, FirstConnection, NothingLostInClient
<1>2. QED
  BY <1>1, TransportInvariance, PTL

\* _TcpTransport: however often the connection ends within a frame, and whatever
\* is lost with it, each connection that ends spoils at most one frame of each
\* direction, also behind a broker's reply and with the tail of a frame that
\* write() sends on the next connection; every other frame is as it was sent, and
\* in order.
THEOREM OneFrameSpoiltPerBreak == TransportSpec => []OneMangledPerBreak
<1>1. TransportInit => Inbound /\ Outbound
  BY GapInit DEF TransportInit
<1>2. TcpIInv /\ Inbound /\ Outbound /\ [TransportNext]_transportVars
          => Inbound' /\ Outbound'
  <2>1. [TransportNext]_transportVars => [TcpNext]_tcpVars
    BY DEF TransportNext, Tcp, Broadcast, Libusb, transportVars
  <2>2. QED
    BY <2>1, StepKeepsInbound, StepKeepsOutbound
<1>3. TcpIInv /\ Inbound /\ Outbound => OneMangledPerBreak
  BY DamageBounded
<1>4. QED
  BY <1>1, <1>2, <1>3, TransportInvariance, PTL DEF TransportSpec

\* _track_seq(): the count of dropped datagrams is never less than what was passed
\* over and has not come, however datagrams overtake each other and wherever the
\* 16-bit number wraps, unless a gap is so wide that it is taken for a restart.
THEOREM BroadcastDropsSuffice == TransportSpec => []DropsSuffice
<1>1. BroadcastIInv => DropsSuffice
  BY DEF BroadcastIInv
<1>2. QED
  BY <1>1, TransportInvariance, PTL

\* _track_seq() from above too, with the type invariant: what is reported is no more
\* than what is missing and what is counted again behind a late datagram, unless
\* one comes so late that the 16 bits make it look like one ahead.
THEOREM BroadcastDropsCoverLoss == TransportSpec => []DropsCoverLoss
<1>1. TransportInit => PathInv /\ DropsInv
  BY PathInitHolds, DropsInitHolds DEF TransportInit
<1>2. BroadcastIInv /\ PathInv /\ DropsInv /\ [TransportNext]_transportVars
          => PathInv' /\ DropsInv'
  <2>1. [TransportNext]_transportVars => [BroadcastNext]_broadcastVars
    BY DEF TransportNext, Tcp, Broadcast, Libusb, transportVars
  <2>2. QED
    BY <2>1, PathStepHolds, DropsStepHolds
<1>3. BroadcastIInv /\ PathInv /\ DropsInv => DropsCoverLoss
  BY DropsCovered
<1>4. QED
  BY <1>1, <1>2, <1>3, TransportInvariance, PTL DEF TransportSpec

\* _extract_from_record() strips the CRC unread, so what a lost or late piece does
\* is not noticed.  It mangles no more frames than there are places where a datagram
\* does not follow the one before it; the log frames of every record whose pieces
\* come in a row come out whole, and if none is late in order, each once.
THEOREM BroadcastDamageStays == TransportSpec => []DamageStaysInRecord
<1>1. TransportInit => PathInv /\ DamageInv
  BY PathInitHolds, DamageInitHolds DEF TransportInit
<1>2. BroadcastIInv /\ PathInv /\ DamageInv /\ [TransportNext]_transportVars
          => PathInv' /\ DamageInv'
  <2>1. [TransportNext]_transportVars => [BroadcastNext]_broadcastVars
    BY DEF TransportNext, Tcp, Broadcast, Libusb, transportVars
  <2>2. QED
    BY <2>1, PathStepHolds, DamageStepHolds
<1>3. BroadcastIInv /\ DamageInv => DamageStaysInRecord
  BY DamageCovered
<1>4. QED
  BY <1>1, <1>2, <1>3, TransportInvariance, PTL DEF TransportSpec

=============================================================================
