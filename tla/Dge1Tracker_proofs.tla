-------------------------- MODULE Dge1Tracker_proofs --------------------------
(***************************************************************************)
(* Proofs about Dge1Tracker, for every sequence space, gap floor, seen     *)
(* window and reorder window.                                              *)
(***************************************************************************)
EXTENDS Dge1Tracker, FiniteSetTheorems, FunctionTheorems, TLAPS

-----------------------------------------------------------------------------
(* Arithmetic modulo SeqMod.                                               *)

\* Plus and Ahead stay in the sequence space, Ahead measures Plus, and two
\* numbers equally far ahead of a base are the same number.
LEMMA SeqArithmetic ==
    ASSUME NEW e \in SeqNo
    PROVE  /\ \A n \in 0 .. SeqMod : Plus(e, n) \in SeqNo
           /\ \A s \in SeqNo : Ahead(s, e) \in SeqNo
           /\ \A s, t \in SeqNo : Ahead(s, e) = Ahead(t, e) => s = t
           /\ \A s \in SeqNo : Plus(e, Ahead(s, e)) = s
           /\ \A n \in 0 .. SeqMod - 1 : Ahead(Plus(e, n), e) = n
  BY SizesAssumption DEF SeqNo, Plus, Ahead, Half

LEMMA NoneIsNoSeqNo == None \notin SeqNo
  BY SizesAssumption DEF None, SeqNo

\* A set of sequence numbers is finite.
LEMMA SeqSetsFinite ==
    ASSUME NEW S \in SUBSET SeqNo
    PROVE  IsFiniteSet(S) /\ Cardinality(S) \in Nat
<1>1. IsFiniteSet(SeqNo)
  BY SizesAssumption, FS_Interval DEF SeqNo
<1>2. IsFiniteSet(S)
  BY <1>1, FS_Subset
<1>3. QED
  BY <1>2, FS_CardinalityType

\* Sequence numbers whose distances from e lie in a .. b are at most b - a + 1.
LEMMA CountByDistance ==
    ASSUME NEW e \in SeqNo, NEW S \in SUBSET SeqNo, NEW a \in Int, NEW b \in Int,
           a <= b + 1, \A s \in S : Ahead(s, e) \in a .. b
    PROVE  Cardinality(S) <= b - a + 1
<1> DEFINE d == [s \in S |-> Ahead(s, e)]
<1>1. d \in [S -> a .. b]
  OBVIOUS
<1>2. \A s, t \in S : d[s] = d[t] => s = t
  BY SeqArithmetic
<1>3. d \in Injection(S, a .. b)
  BY <1>1, <1>2, Fun_IsInj
<1>4. IsFiniteSet(a .. b) /\ Cardinality(a .. b) = b - a + 1
  BY FS_Interval
<1>5. QED
  BY <1>3, <1>4, FS_Injection

-----------------------------------------------------------------------------
(* What the loops pop.                                                     *)

Nearer(S, s, e) == {t \in S : Ahead(t, e) < Ahead(s, e)}

\* Ranking the members of S by their distance from e numbers them 0 .. |S| - 1.
LEMMA RankExists ==
    ASSUME NEW e \in SeqNo, NEW S \in SUBSET SeqNo, NEW r \in 0 .. Cardinality(S) - 1
    PROVE  \E s \in S : Cardinality(Nearer(S, s, e)) = r
<1> DEFINE rank == [s \in S |-> Cardinality(Nearer(S, s, e))]
           R == 0 .. Cardinality(S) - 1
<1>1. IsFiniteSet(S) /\ Cardinality(S) \in Nat
  BY SeqSetsFinite
<1>2. ASSUME NEW s \in S
      PROVE  /\ IsFiniteSet(Nearer(S, s, e))
             /\ Cardinality(Nearer(S, s, e)) \in R
  <2>1. Nearer(S, s, e) \in SUBSET (S \ {s})
    BY SeqArithmetic DEF Nearer, SeqNo
  <2>2. IsFiniteSet(S \ {s}) /\ Cardinality(S \ {s}) = Cardinality(S) - 1
    BY <1>1, FS_RemoveElement
  <2>3. /\ IsFiniteSet(Nearer(S, s, e))
        /\ Cardinality(Nearer(S, s, e)) <= Cardinality(S \ {s})
    BY <2>1, <2>2, FS_Subset
  <2>4. Cardinality(Nearer(S, s, e)) \in Nat
    BY <2>3, FS_CardinalityType
  <2>5. QED
    BY <1>1, <2>2, <2>3, <2>4
<1>3. rank \in [S -> R]
  BY <1>2
<1>4. ASSUME NEW s \in S, NEW t \in S, Ahead(s, e) < Ahead(t, e)
      PROVE  rank[s] < rank[t]
  <2>1. Nearer(S, s, e) \cup {s} \in SUBSET Nearer(S, t, e)
    <3>1. \A q \in S : Ahead(q, e) \in Int
      BY SeqArithmetic DEF SeqNo
    <3>2. \A q \in S : Ahead(q, e) < Ahead(s, e) => Ahead(q, e) < Ahead(t, e)
      BY <1>4, <3>1
    <3>3. QED
      BY <1>4, <3>2 DEF Nearer
  <2>2. s \notin Nearer(S, s, e)
    BY SeqArithmetic DEF Nearer, SeqNo
  <2>3. Cardinality(Nearer(S, s, e) \cup {s}) = Cardinality(Nearer(S, s, e)) + 1
    BY <1>2, <2>2, FS_AddElement
  <2>4. Cardinality(Nearer(S, s, e) \cup {s}) <= Cardinality(Nearer(S, t, e))
    BY <1>2, <2>1, FS_Subset
  <2>5. QED
    BY <1>2, <2>3, <2>4
<1>5. ASSUME NEW s \in S, NEW t \in S, rank[s] = rank[t]
      PROVE  s = t
  <2>1. ~(Ahead(s, e) < Ahead(t, e)) /\ ~(Ahead(t, e) < Ahead(s, e))
    BY <1>2, <1>4, <1>5
  <2>2. Ahead(s, e) = Ahead(t, e)
    BY <2>1, SeqArithmetic DEF SeqNo
  <2>3. QED
    BY <2>2, SeqArithmetic
<1>6. rank \in Injection(S, R)
  BY <1>3, <1>5, Fun_IsInj
<1>7. IsFiniteSet(R) /\ Cardinality(R) = Cardinality(S)
  BY <1>1, FS_Interval
<1>8. rank \in Surjection(S, R)
  BY <1>6, <1>7, FS_Injection
<1>9. \A q \in R : \E s \in S : rank[s] = q
  BY <1>8 DEF Surjection
<1>10. r \in R
  OBVIOUS
<1>11. QED
  BY <1>9, <1>10

\* A function on 1 .. n is a sequence of length n.
LEMMA LenOfSeqFcn ==
    ASSUME NEW T, NEW n \in Nat, NEW f \in [1 .. n -> T]
    PROVE  f \in Seq(T) /\ Len(f) = n
  OBVIOUS

\* InOrder returns one payload of the buffer per sequence number asked for.
LEMMA InOrderType ==
    ASSUME NEW e \in SeqNo, NEW D \in SUBSET SeqNo, NEW buf \in [D -> Payload],
           NEW S \in SUBSET D
    PROVE  /\ InOrder(e, buf, S) \in Seq(Payload)
           /\ Len(InOrder(e, buf, S)) = Cardinality(S)
<1> DEFINE k == Cardinality(S)
           at(i) == CHOOSE s \in S : Cardinality({t \in S : Ahead(t, e) < Ahead(s, e)}) = i - 1
<1>1. k \in Nat
  <2>1. S \in SUBSET SeqNo
    OBVIOUS
  <2>2. QED
    BY <2>1, SeqSetsFinite
<1>2. ASSUME NEW i \in 1 .. k
      PROVE  at(i) \in S
  <2>1. i - 1 \in 0 .. k - 1
    BY <1>1
  <2>2. \E s \in S : Cardinality(Nearer(S, s, e)) = i - 1
    BY <2>1, RankExists
  <2>3. QED
    BY <2>2 DEF Nearer
<1>3. [i \in 1 .. k |-> buf[at(i)]] \in [1 .. k -> Payload]
  BY <1>2
<1>4. InOrder(e, buf, S) = [i \in 1 .. k |-> buf[at(i)]]
  BY DEF InOrder
<1>5. InOrder(e, buf, S) \in [1 .. k -> Payload]
  BY <1>3, <1>4
<1>6. QED
  BY <1>1, <1>5, LenOfSeqFcn

\* Dropping keys from a buffer leaves a buffer.
LEMMA WithoutType ==
    ASSUME NEW D, NEW buf \in [D -> Payload], NEW S
    PROVE  /\ DOMAIN Without(buf, S) = D \ S
           /\ Without(buf, S) \in [D \ S -> Payload]
  BY DEF Without, Restrict

\* A non-empty buffer has a furthest sequence number.
LEMMA HiAheadIsMax ==
    ASSUME NEW e \in SeqNo, NEW held \in SUBSET SeqNo, held # {}
    PROVE  /\ \E s \in held : Ahead(s, e) = HiAhead(e, held)
           /\ \A s \in held : Ahead(s, e) <= HiAhead(e, held)
           /\ HiAhead(e, held) \in SeqNo
<1>1. IsFiniteSet(held) /\ Cardinality(held) \in Nat
  BY SeqSetsFinite
<1>2. Cardinality(held) # 0
  BY <1>1, FS_EmptySet
<1>3. PICK s \in held : Cardinality(Nearer(held, s, e)) = Cardinality(held) - 1
  BY <1>1, <1>2, RankExists
<1>4. IsFiniteSet(held \ {s}) /\ Cardinality(held \ {s}) = Cardinality(held) - 1
  BY <1>1, FS_RemoveElement
<1>5. Nearer(held, s, e) \in SUBSET (held \ {s})
  BY SeqArithmetic DEF Nearer, SeqNo
<1>6. Nearer(held, s, e) = held \ {s}
  BY <1>3, <1>4, <1>5, FS_Subset
<1>7. \A t \in held : Ahead(t, e) <= Ahead(s, e)
  <2>1. \A t \in held : t \in SeqNo /\ Ahead(t, e) \in Int
    BY SeqArithmetic DEF SeqNo
  <2>2. TAKE t \in held
  <2>3. CASE t = s
    BY <2>1, <2>3
  <2>4. CASE t # s
    <3>1. t \in Nearer(held, s, e)
      BY <1>6, <2>4
    <3>2. QED
      BY <2>1, <3>1 DEF Nearer
  <2>5. QED
    BY <2>3, <2>4
<1>8. \E h \in {Ahead(t, e) : t \in held} : \A t \in held : Ahead(t, e) <= h
  BY <1>7
<1>9. QED
  BY ZenonT(30), <1>8, SeqArithmetic DEF HiAhead

\* The base goes past at most one buffered number per place it moves.
LEMMA PassedCount ==
    ASSUME NEW e \in SeqNo, NEW held \in SUBSET SeqNo, NEW n \in Nat
    PROVE  Cardinality(Passed(e, held, n)) \in 0 .. n
<1>1. Passed(e, held, n) \in SUBSET SeqNo
  BY DEF Passed
<1>2. Cardinality(Passed(e, held, n)) \in Nat
  BY <1>1, SeqSetsFinite
<1>3. \A s \in Passed(e, held, n) : Ahead(s, e) \in 0 .. n - 1
  BY SeqArithmetic DEF Passed, SeqNo
<1>4. Cardinality(Passed(e, held, n)) <= (n - 1) - 0 + 1
  BY <1>1, <1>3, CountByDistance
<1>5. QED
  BY <1>2, <1>4

\* The loop of _enforce_window runs until the span is under the window, and no
\* longer: the test of the buffer's size in the loop's condition never decides.
LEMMA ForcedStepsExact ==
    ASSUME window \in Nat,
           NEW e \in SeqNo, NEW held \in SUBSET SeqNo, held # {}
    PROVE  LET hi == HiAhead(e, held)
           IN  ForcedSteps(e, held) = IF hi >= window THEN hi - window + 1 ELSE 0
<1> DEFINE hi == HiAhead(e, held)
           stop == IF hi >= window THEN hi - window + 1 ELSE 0
           left(n) == held \ Passed(e, held, n)
<1>1. /\ \A s \in held : Ahead(s, e) \in Nat /\ Ahead(s, e) <= hi
      /\ hi \in SeqNo
      /\ \E s \in held : Ahead(s, e) = hi
  <2>1. \A s \in held : Ahead(s, e) \in Nat
    BY SeqArithmetic DEF SeqNo
  <2>2. /\ \A s \in held : Ahead(s, e) <= hi
        /\ hi \in SeqNo
        /\ \E s \in held : Ahead(s, e) = hi
    BY HiAheadIsMax
  <2>3. QED
    BY <2>1, <2>2
<1>2. stop \in 0 .. SeqMod /\ stop <= hi + 1
  BY <1>1, SizesAssumption DEF SeqNo
<1>3. WindowKept(e, held, stop)
  <2>1. left(stop) \in SUBSET SeqNo
    OBVIOUS
  <2>2. \A s \in left(stop) : Ahead(s, e) \in stop .. hi
    <3>1. stop \in Int /\ hi \in Int
      BY <1>1, <1>2 DEF SeqNo
    <3>2. \A s \in left(stop) : s \in held /\ ~(Ahead(s, e) < stop)
      BY DEF Passed
    <3>3. TAKE s \in left(stop)
    <3>4. s \in held /\ ~(Ahead(s, e) < stop)
      BY <3>2
    <3>5. Ahead(s, e) \in Nat /\ Ahead(s, e) <= hi
      BY <1>1, <3>4
    <3> HIDE DEF stop, hi, left
    <3>6. QED
      BY <3>1, <3>4, <3>5
  <2>3. hi \in Int /\ stop \in Int /\ stop <= hi + 1
    BY <1>1, <1>2 DEF SeqNo
  <2> HIDE DEF left, stop
  <2>4. Cardinality(left(stop)) <= hi - stop + 1
    BY <2>1, <2>2, <2>3, CountByDistance
  <2>5. Cardinality(left(stop)) \in Nat /\ IsFiniteSet(left(stop))
    BY <2>1, SeqSetsFinite
  <2>6. CASE window = 0
    <3>1. stop = hi + 1
      BY <2>6, <1>1 DEF stop, SeqNo
    <3>2. Cardinality(left(stop)) = 0
      BY <2>3, <2>4, <2>5, <3>1
    <3>3. left(stop) = {}
      BY <2>5, <3>2, FS_EmptySet
    <3>4. QED
      BY <3>3 DEF WindowKept, left
  <2>7. CASE window > 0
    <3>1. hi - stop < window /\ hi - stop + 1 <= window
      BY <2>7, <1>1, SizesAssumption DEF stop, SeqNo
    <3>2. Cardinality(left(stop)) <= window
      BY <2>3, <2>4, <2>5, <3>1, SizesAssumption
    <3>3. QED
      BY <3>1, <3>2 DEF WindowKept, left
  <2>8. QED
    BY <2>6, <2>7, SizesAssumption
<1>4. ASSUME NEW m \in 0 .. stop - 1
      PROVE  ~WindowKept(e, held, m)
  <2>1. hi >= window /\ hi - m >= window /\ m <= hi
    BY <1>1, <1>2, SizesAssumption DEF SeqNo
  <2>2. left(m) # {}
    BY <1>1, <1>2, <2>1 DEF Passed, SeqNo
  <2>3. ~(hi - m < window)
    BY <1>1, <1>2, <2>1, SizesAssumption DEF SeqNo
  <2>4. QED
    BY <2>2, <2>3 DEF WindowKept
<1>5. ASSUME NEW n \in 0 .. SeqMod, WindowKept(e, held, n),
             \A m \in 0 .. n - 1 : ~WindowKept(e, held, m)
      PROVE  n = stop
  <2>1. ~(n < stop)
    BY <1>2, <1>4, <1>5
  <2>2. ~(stop < n)
    BY <1>2, <1>3, <1>5
  <2>3. QED
    BY <1>2, <2>1, <2>2
<1> HIDE DEF stop
<1>6. ForcedSteps(e, held) = stop
  BY <1>2, <1>3, <1>4, <1>5 DEF ForcedSteps
<1>7. QED
  BY <1>6 DEF stop

-----------------------------------------------------------------------------
(* The parts every handler is built from, over a well-typed state.         *)

\* MarkSeen keeps the deque and the set in step.
LEMMA MarkSeenKeeps ==
    ASSUME seen \in Seq(SeqNo), seenSet \in SUBSET SeqNo, SeenInStep,
           NEW s \in SeqNo, MarkSeen(s)
    PROVE  /\ seen' \in Seq(SeqNo)
           /\ seenSet' \in SUBSET SeqNo
           /\ SeenInStep'
<1>1. CASE s \in seenSet
  BY <1>1 DEF MarkSeen, SeenInStep
<1>2. CASE s \notin seenSet /\ Len(seen) # SeenWindow
  <2>1. seen' = Append(seen, s) /\ seenSet' = seenSet \cup {s}
    BY <1>2 DEF MarkSeen
  <2>2. Len(seen') = Len(seen) + 1 /\ Len(seen) + 1 <= SeenWindow
    BY <1>2, <2>1, SizesAssumption DEF SeenInStep
  <2>3. \A i \in 1 .. Len(seen') :
            seen'[i] = IF i = Len(seen) + 1 THEN s ELSE seen[i]
    BY <2>1
  <2>4. QED
    BY <1>2, <2>1, <2>2, <2>3 DEF SeenInStep
<1>3. CASE s \notin seenSet /\ Len(seen) = SeenWindow
  <2>1. /\ seen' = Append(Tail(seen), s)
        /\ seenSet' = (seenSet \ {Head(seen)}) \cup {s}
    BY <1>3 DEF MarkSeen
  <2>2. seen # <<>> /\ Len(seen) \in Nat /\ Len(seen) >= 1
    BY <1>3, SizesAssumption
  <2>3. Head(seen) = seen[1] /\ Len(seen') = Len(seen)
    BY <2>1, <2>2
  <2>4. \A i \in 1 .. Len(seen) :
            seen'[i] = IF i = Len(seen) THEN s ELSE seen[i + 1]
    BY <2>1, <2>2
  <2>5. seen' \in Seq(SeqNo) /\ seenSet' \in SUBSET SeqNo
    BY <2>1, <2>2
  <2>6. \A i, j \in 1 .. Len(seen') : seen'[i] = seen'[j] => i = j
    BY <1>3, <2>2, <2>3, <2>4 DEF SeenInStep
  <2>7. seenSet' \subseteq {seen'[i] : i \in 1 .. Len(seen')}
    <3>1. ASSUME NEW x \in seenSet'
          PROVE  \E i \in 1 .. Len(seen') : seen'[i] = x
      <4>1. CASE x = s
        BY <2>2, <2>3, <2>4, <4>1
      <4>2. CASE x # s
        <5>1. x \in seenSet /\ x # seen[1]
          BY <2>1, <2>3, <4>2
        <5>2. PICK i \in 1 .. Len(seen) : seen[i] = x
          BY <5>1 DEF SeenInStep
        <5>3. i - 1 \in 1 .. Len(seen') /\ i - 1 # Len(seen) /\ (i - 1) + 1 = i
          BY <2>2, <2>3, <5>1, <5>2
        <5>4. seen'[i - 1] = seen[i]
          BY <2>3, <2>4, <5>3
        <5>5. QED
          BY <5>2, <5>3, <5>4
      <4>3. QED
        BY <4>1, <4>2
    <3>2. QED
      BY <3>1
  <2>8. {seen'[i] : i \in 1 .. Len(seen')} \subseteq seenSet'
    <3>1. ASSUME NEW i \in 1 .. Len(seen')
          PROVE  seen'[i] \in seenSet'
      <4>1. CASE i = Len(seen)
        BY <2>1, <2>3, <2>4, <4>1
      <4>2. CASE i # Len(seen)
        <5>1. i + 1 \in 1 .. Len(seen) /\ i + 1 # 1
          BY <2>2, <2>3, <4>2
        <5>2. seen[i + 1] \in seenSet /\ seen[i + 1] # Head(seen)
          BY <2>2, <2>3, <5>1 DEF SeenInStep
        <5>3. QED
          BY <2>1, <2>3, <2>4, <4>2, <5>2
      <4>3. QED
        BY <4>1, <4>2
    <3>2. QED
      BY <3>1
  <2>9. QED
    BY <1>3, <2>3, <2>5, <2>6, <2>7, <2>8, SizesAssumption DEF SeenInStep
<1>4. QED
  BY <1>1, <1>2, <1>3

\* What a delivery with its drain does to the buffer and the counters.
LEMMA AcceptEffect ==
    ASSUME NEW p \in Payload, NEW s \in SeqNo,
           NEW D \in SUBSET SeqNo, NEW buf \in [D -> Payload],
           NEW st \in [Counters -> Nat],
           Accept(p, s, buf, st)
    PROVE  \E k \in 0 .. SeqMod :
               /\ expected' = Plus(Plus(s, 1), k)
               /\ expected' \in SeqNo
               /\ Held' \in SUBSET D
               /\ pending' \in [Held' -> Payload]
               /\ Cardinality(D) = Cardinality(Held') + k
               /\ out' \in Seq(Payload) /\ Len(out') = 1 + k
               /\ stats' = [st EXCEPT !.received = @ + 1 + k]
<1> DEFINE base == Plus(s, 1)
           run == Run(base, D)
           k == Cardinality(run)
<1>1. base \in SeqNo
  BY SeqArithmetic, SizesAssumption
<1>2. run \in SUBSET D /\ run \in SUBSET SeqNo
  BY DEF Run
<1>3. DOMAIN buf = D
  OBVIOUS
<1> HIDE DEF base
<1>4. k \in Nat /\ k <= SeqMod
  <2>1. \A t \in run : Ahead(t, base) \in 0 .. SeqMod - 1
    BY <1>1, <1>2, SeqArithmetic DEF SeqNo
  <2>2. k <= (SeqMod - 1) - 0 + 1
    BY <1>1, <1>2, <2>1, SizesAssumption, CountByDistance
  <2>3. k \in Nat
    BY <1>2, SeqSetsFinite
  <2>4. QED
    BY <2>2, <2>3, SizesAssumption
<1>5. /\ InOrder(base, buf, run) \in Seq(Payload)
      /\ Len(InOrder(base, buf, run)) = k
  BY <1>1, <1>2, InOrderType
<1>6. DOMAIN Without(buf, run) = D \ run /\ Without(buf, run) \in [D \ run -> Payload]
  BY WithoutType
<1>7. Cardinality(D \ run) = Cardinality(D) - k
  <2>1. IsFiniteSet(D) /\ D \cap run = run
    BY <1>2, SeqSetsFinite
  <2>2. QED
    BY <2>1, FS_Difference
<1>8. Cardinality(D) \in Nat
  BY SeqSetsFinite
<1> HIDE DEF run, k
<1>9. /\ expected' = Plus(base, k)
      /\ pending' = Without(buf, run)
      /\ out' = <<p>> \o InOrder(base, buf, run)
      /\ stats' = [st EXCEPT !.received = @ + 1 + k]
  BY <1>3 DEF Accept, base, run, k
<1>10. out' \in Seq(Payload) /\ Len(out') = 1 + k
  BY <1>4, <1>5, <1>9
<1>11. Plus(base, k) \in SeqNo
  BY <1>1, <1>4, SeqArithmetic, SizesAssumption
<1>12. /\ Held' = D \ run
       /\ pending' \in [Held' -> Payload]
  BY <1>6, <1>9 DEF Held
<1>13. Cardinality(D) = Cardinality(Held') + k
  BY <1>4, <1>7, <1>8, <1>12
<1>14. k \in 0 .. SeqMod
  BY <1>4, SizesAssumption
<1>15. expected' = Plus(Plus(s, 1), k)
  BY <1>9 DEF base
<1>16. QED
  BY <1>9, <1>10, <1>11, <1>12, <1>13, <1>14, <1>15

\* What a base that moves n places does to the buffer and the counters.
Walked(D, n, st) ==
    /\ expected' = Plus(expected, n)
    /\ expected' \in SeqNo
    /\ Held' = D \ Passed(expected, D, n)
    /\ pending' \in [Held' -> Payload]
    /\ \E k \in 0 .. n :
        /\ Cardinality(D) = Cardinality(Held') + k
        /\ out' \in Seq(Payload) /\ Len(out') = k
        /\ stats' = [st EXCEPT !.received = @ + k, !.missing = @ + (n - k)]

LEMMA WalkEffect ==
    ASSUME expected \in SeqNo,
           NEW D \in SUBSET SeqNo, NEW buf \in [D -> Payload],
           NEW n \in 0 .. SeqMod, NEW st \in [Counters -> Nat],
           WalkBase(buf, n, st)
    PROVE  Walked(D, n, st)
<1> DEFINE passed == Passed(expected, D, n)
           k == Cardinality(passed)
<1>1. n \in Nat
  OBVIOUS
<1>2. k \in 0 .. n
  BY <1>1, PassedCount
<1>3. passed \in SUBSET D
  BY DEF Passed
<1>4. DOMAIN buf = D
  OBVIOUS
<1>5. /\ InOrder(expected, buf, passed) \in Seq(Payload)
      /\ Len(InOrder(expected, buf, passed)) = k
  BY <1>3, InOrderType
<1>6. DOMAIN Without(buf, passed) = D \ passed /\ Without(buf, passed) \in [D \ passed -> Payload]
  BY WithoutType
<1>7. Cardinality(D \ passed) = Cardinality(D) - k
  <2>1. IsFiniteSet(D) /\ D \cap passed = passed
    BY <1>3, SeqSetsFinite
  <2>2. QED
    BY <2>1, FS_Difference
<1>8. Cardinality(D) \in Nat
  BY SeqSetsFinite
<1> HIDE DEF passed, k
<1>9. /\ expected' = Plus(expected, n)
      /\ pending' = Without(buf, passed)
      /\ out' = InOrder(expected, buf, passed)
      /\ stats' = [st EXCEPT !.received = @ + k, !.missing = @ + (n - k)]
  BY <1>4 DEF WalkBase, passed, k
<1>10. Plus(expected, n) \in SeqNo
  BY SeqArithmetic
<1>11. /\ Held' = D \ passed
       /\ pending' \in [Held' -> Payload]
  BY <1>6, <1>9 DEF Held
<1>12. Cardinality(D) = Cardinality(Held') + k
  BY <1>1, <1>2, <1>7, <1>8, <1>11
<1>13. QED
  BY <1>2, <1>5, <1>9, <1>10, <1>11, <1>12 DEF passed, Walked

-----------------------------------------------------------------------------
(* The inductive invariant.  Conservation needs the types and the bound on *)
(* the buffer (with window 0 the buffer is empty, so track() may leave it  *)
(* alone); SeenInStep is what makes "seen before" mean what it says.       *)

IInv == TypeOK /\ SeenInStep /\ Conservation /\ BufferBounded /\ SwitchIffHugeGap

\* Counters that differ from the old ones at most in what does not enter the
\* conservation sum, and that tell the same story about huge gaps.
Adjusted(st) ==
    /\ st \in [Counters -> Nat]
    /\ \A c \in {"received", "dups", "reordered", "true_dups"} : st[c] = stats[c]
    /\ (st.stream_switches > 0) <=> (st.max_gap >= GapFloor)

LEMMA AdjustedCounters ==
    ASSUME IInv
    PROVE  /\ Adjusted(stats)
           /\ \A restart \in BOOLEAN : Adjusted(CountRestart(restart, stats))
           /\ \A gap \in 0 .. GapFloor - 1 : Adjusted(NoteGap(gap, stats))
           /\ \A gap \in 0 .. GapFloor - 1 :
                Adjusted([NoteGap(gap, stats) EXCEPT !.missing = @ + gap])
           /\ \A gap \in Nat : gap >= GapFloor =>
                Adjusted([NoteGap(gap, stats) EXCEPT !.stream_switches = @ + 1])
<1>1. stats \in [Counters -> Nat] /\ ((stats.stream_switches > 0) <=> (stats.max_gap >= GapFloor))
  BY DEF IInv, TypeOK, SwitchIffHugeGap
<1>2. Adjusted(stats)
  BY <1>1 DEF Adjusted
<1>3. \A restart \in BOOLEAN : Adjusted(CountRestart(restart, stats))
  BY <1>1 DEF Adjusted, CountRestart, Counters
<1>4. ASSUME NEW gap \in Nat
      PROVE  /\ NoteGap(gap, stats) \in [Counters -> Nat]
             /\ \A c \in Counters \ {"max_gap"} : NoteGap(gap, stats)[c] = stats[c]
             /\ NoteGap(gap, stats).max_gap = IF gap > stats.max_gap THEN gap ELSE stats.max_gap
  BY <1>1 DEF NoteGap, Counters
<1>5. ASSUME NEW gap \in 0 .. GapFloor - 1
      PROVE  /\ Adjusted(NoteGap(gap, stats))
             /\ Adjusted([NoteGap(gap, stats) EXCEPT !.missing = @ + gap])
  <2>1. gap \in Nat /\ gap < GapFloor
    BY SizesAssumption
  <2>2. stats.max_gap \in Nat
    BY <1>1 DEF Counters
  <2>3. (NoteGap(gap, stats).stream_switches > 0) <=> (NoteGap(gap, stats).max_gap >= GapFloor)
    BY <1>1, <1>4, <2>1, <2>2, SizesAssumption DEF Counters
  <2>4. QED
    BY <1>4, <2>1, <2>3 DEF Adjusted, Counters
<1>6. ASSUME NEW gap \in Nat, gap >= GapFloor
      PROVE  Adjusted([NoteGap(gap, stats) EXCEPT !.stream_switches = @ + 1])
  <2>1. stats.max_gap \in Nat /\ stats.stream_switches \in Nat
    BY <1>1 DEF Counters
  <2>2. NoteGap(gap, stats).max_gap >= GapFloor
    <3>1. GapFloor \in Nat
      BY SizesAssumption
    <3>2. NoteGap(gap, stats).max_gap = IF gap > stats.max_gap THEN gap ELSE stats.max_gap
      BY <1>4
    <3>3. QED
      BY <1>6, <2>1, <3>1, <3>2
  <2>3. QED
    BY <1>4, <2>1, <2>2 DEF Adjusted, Counters
<1>7. QED
  BY <1>2, <1>3, <1>5, <1>6

LEMMA WindowRange ==
    ASSUME IInv
    PROVE  window \in Windows /\ window \in Nat /\ window < SeqMod
  BY SizesAssumption DEF IInv, TypeOK

\* An empty window means an empty buffer.
LEMMA NoWindowNoBuffer ==
    ASSUME IInv, window = 0
    PROVE  Held = {}
<1>1. Held \in SUBSET SeqNo /\ Cardinality(Held) <= 0
  BY DEF IInv, TypeOK, BufferBounded
<1>2. Cardinality(Held) \in Nat /\ IsFiniteSet(Held)
  BY <1>1, SeqSetsFinite
<1>3. Cardinality(Held) = 0
  BY <1>1, <1>2
<1>4. QED
  BY <1>2, <1>3, FS_EmptySet

LEMMA TrackAcceptKeeps ==
    ASSUME IInv, NEW p \in Payload, NEW s \in SeqNo, NEW st, Adjusted(st),
           TrackAccept(p, s, st), fed' = fed + 1, window' = window
    PROVE  /\ IInv'
           /\ stats'.received - stats.received = Len(out')
           /\ expected' = Plus(s, 1)
           /\ stats' = [st EXCEPT !.received = @ + 1]
<1>1. /\ expected' = Plus(s, 1)
      /\ stats' = [st EXCEPT !.received = @ + 1]
      /\ out' = <<p>>
      /\ pending' = pending /\ discarded' = discarded /\ Held' = Held
  BY DEF TrackAccept, Held
<1>2. seen' \in Seq(SeqNo) /\ seenSet' \in SUBSET SeqNo /\ SeenInStep'
  BY MarkSeenKeeps DEF IInv, TypeOK, TrackAccept
<1>3. expected' \in SeqNo
  <2>1. 1 \in 0 .. SeqMod
    BY SizesAssumption
  <2>2. QED
    BY <1>1, <2>1, SeqArithmetic
<1>4. stats' \in [Counters -> Nat]
  BY <1>1 DEF Adjusted, Counters
<1>5. TypeOK'
  <2>1. /\ Held' \in SUBSET SeqNo /\ pending' \in [Held' -> Payload]
        /\ fed' \in Nat /\ discarded' \in Nat
    BY <1>1 DEF IInv, TypeOK
  <2>2. out' \in Seq(Payload)
    BY <1>1
  <2>3. QED
    BY <1>2, <1>3, <1>4, <2>1, <2>2, NoneIsNoSeqNo, WindowRange DEF TypeOK
<1>6. /\ stats'.received = stats.received + 1
      /\ stats'.dups = stats.dups
      /\ stats'.reordered = stats.reordered
      /\ stats'.true_dups = stats.true_dups
      /\ stats'.max_gap = st.max_gap
      /\ stats'.stream_switches = st.stream_switches
  BY <1>1 DEF Adjusted, Counters
<1>7. Cardinality(Held) \in Nat
  BY SeqSetsFinite DEF IInv, TypeOK
<1>8. Conservation'
  <2>1. stats \in [Counters -> Nat] /\ fed \in Nat /\ discarded \in Nat
    BY DEF IInv, TypeOK
  <2>2. QED
    BY <1>1, <1>6, <1>7, <2>1 DEF IInv, Conservation, Counters
<1>9. BufferBounded'
  BY <1>1 DEF IInv, BufferBounded
<1>10. SwitchIffHugeGap'
  BY <1>6 DEF Adjusted, SwitchIffHugeGap
<1>11. stats'.received - stats.received = Len(out')
  BY <1>1, <1>6 DEF IInv, TypeOK, Counters
<1>12. QED
  BY <1>1, <1>2, <1>5, <1>8, <1>9, <1>10, <1>11 DEF IInv

\* A delivery in feed(): D is what is left of the buffer when the drain starts.
LEMMA AcceptKeeps ==
    ASSUME IInv, NEW p \in Payload, NEW s \in SeqNo, NEW st, Adjusted(st),
           NEW D \in SUBSET Held, NEW buf \in [D -> Payload],
           Accept(p, s, buf, st), fed' = fed + 1, window' = window,
           discarded' = discarded + (Cardinality(Held) - Cardinality(D))
    PROVE  /\ IInv'
           /\ stats'.received - stats.received = Len(out')
           /\ \E k \in 0 .. SeqMod :
                /\ expected' = Plus(Plus(s, 1), k)
                /\ stats' = [st EXCEPT !.received = @ + 1 + k]
                /\ k <= Cardinality(D)
<1>1. D \in SUBSET SeqNo /\ Held \in SUBSET SeqNo
  BY DEF IInv, TypeOK
<1>2. /\ IsFiniteSet(Held) /\ Cardinality(Held) \in Nat
      /\ Cardinality(D) \in Nat /\ Cardinality(D) <= Cardinality(Held)
  BY <1>1, SeqSetsFinite, FS_Subset
<1>3. st \in [Counters -> Nat]
  BY DEF Adjusted
<1>4. PICK k \in 0 .. SeqMod :
               /\ expected' = Plus(Plus(s, 1), k)
               /\ expected' \in SeqNo
               /\ Held' \in SUBSET D
               /\ pending' \in [Held' -> Payload]
               /\ Cardinality(D) = Cardinality(Held') + k
               /\ out' \in Seq(Payload) /\ Len(out') = 1 + k
               /\ stats' = [st EXCEPT !.received = @ + 1 + k]
  BY <1>1, <1>3, AcceptEffect
<1>5. seen' \in Seq(SeqNo) /\ seenSet' \in SUBSET SeqNo /\ SeenInStep'
  BY MarkSeenKeeps DEF IInv, TypeOK, Accept
<1>6. stats' \in [Counters -> Nat]
  <2>1. k \in Nat /\ stats' = [st EXCEPT !.received = @ + 1 + k]
    BY <1>4
  <2>2. st.received + 1 + k \in Nat
    BY <1>3, <2>1 DEF Counters
  <2>3. QED
    BY <1>3, <2>1, <2>2
<1>7. Held' \in SUBSET SeqNo
  BY <1>1, <1>4
<1>8. Cardinality(Held') \in Nat
  BY <1>7, SeqSetsFinite
<1>9. fed' \in Nat /\ discarded' \in Nat
  BY <1>2 DEF IInv, TypeOK
<1>10. TypeOK'
  BY <1>4, <1>5, <1>6, <1>7, <1>9, NoneIsNoSeqNo, WindowRange DEF TypeOK
<1>11. /\ stats'.received = stats.received + 1 + k
       /\ stats'.dups = stats.dups
       /\ stats'.reordered = stats.reordered
       /\ stats'.true_dups = stats.true_dups
       /\ stats'.max_gap = st.max_gap
       /\ stats'.stream_switches = st.stream_switches
  BY <1>3, <1>4 DEF Adjusted, Counters
<1>12. stats.received \in Nat /\ stats.dups \in Nat /\ fed \in Nat /\ discarded \in Nat
  BY DEF IInv, TypeOK, Counters
<1>13. Conservation'
  <2>1. k \in Nat /\ Cardinality(D) = Cardinality(Held') + k
    BY <1>4
  <2>2. /\ fed = stats.received + stats.dups + Cardinality(Held) + discarded
        /\ stats.dups = stats.reordered + stats.true_dups
    BY DEF IInv, Conservation
  <2>3. fed' = stats'.received + stats'.dups + Cardinality(Held') + discarded'
    BY <1>2, <1>8, <1>11, <1>12, <2>1, <2>2
  <2>4. QED
    BY <1>11, <2>2, <2>3 DEF Conservation
<1>14. BufferBounded'
  BY <1>2, <1>4, <1>8, WindowRange DEF IInv, BufferBounded
<1>15. SwitchIffHugeGap'
  BY <1>11 DEF Adjusted, SwitchIffHugeGap
<1>16. stats'.received - stats.received = Len(out')
  BY <1>4, <1>11, <1>12
<1>17. k <= Cardinality(D)
  BY <1>4, <1>8
<1>18. QED
  BY <1>4, <1>5, <1>10, <1>13, <1>14, <1>15, <1>16, <1>17 DEF IInv

\* What the two action properties say of a step, apart from stuttering.
StepCounts ==
    /\ stats'.received - stats.received = Len(out')
    /\ expected # None /\ ~Rebaselined =>
        expected' = Plus(expected, (stats'.received + stats'.missing)
                                    - (stats.received + stats.missing))

\* A dropped datagram moves `dups` and one of its two parts.
DropCounted ==
    /\ stats' \in [Counters -> Nat]
    /\ stats'.received = stats.received
    /\ stats'.missing = stats.missing
    /\ stats'.dups = stats.dups + 1
    /\ stats'.reordered + stats'.true_dups = stats.reordered + stats.true_dups + 1
    /\ SwitchIffHugeGap'

LEMMA CountTrueDup ==
    ASSUME IInv, NEW st, Adjusted(st), st.missing = stats.missing,
           stats' = [st EXCEPT !.dups = @ + 1, !.true_dups = @ + 1]
    PROVE  DropCounted
<1>1. st \in [Counters -> Nat] /\ stats \in [Counters -> Nat]
  BY DEF Adjusted, IInv, TypeOK
<1>2. /\ st.received = stats.received /\ st.dups = stats.dups
      /\ st.reordered = stats.reordered /\ st.true_dups = stats.true_dups
  BY DEF Adjusted
<1>3. (st.stream_switches > 0) <=> (st.max_gap >= GapFloor)
  BY DEF Adjusted
<1>4. /\ stats'.received = stats.received /\ stats'.missing = stats.missing
      /\ stats'.dups = stats.dups + 1
      /\ stats'.true_dups = stats.true_dups + 1
      /\ stats'.reordered = stats.reordered
      /\ stats'.stream_switches = st.stream_switches
      /\ stats'.max_gap = st.max_gap
  BY <1>1, <1>2 DEF Counters
<1>5. stats' \in [Counters -> Nat]
  <2> DEFINE a == [st EXCEPT !.dups = @ + 1]
  <2>1. a \in [Counters -> Nat]
    BY <1>1 DEF Counters
  <2>2. a.true_dups + 1 \in Nat /\ stats' = [a EXCEPT !.true_dups = a.true_dups + 1]
    BY <2>1 DEF Counters
  <2> HIDE DEF a
  <2>3. QED
    BY <2>1, <2>2
<1>6. stats.reordered \in Nat /\ stats.true_dups \in Nat
  BY <1>1 DEF Counters
<1>7. SwitchIffHugeGap'
  BY <1>3, <1>4 DEF SwitchIffHugeGap
<1>8. stats'.reordered + stats'.true_dups = stats.reordered + stats.true_dups + 1
  BY <1>4, <1>6
<1>9. QED
  BY <1>4, <1>5, <1>7, <1>8 DEF DropCounted

LEMMA CountReordered ==
    ASSUME IInv, stats' = [stats EXCEPT !.dups = @ + 1, !.reordered = @ + 1]
    PROVE  DropCounted
<1>1. stats \in [Counters -> Nat]
  BY DEF IInv, TypeOK
<1>2. (stats.stream_switches > 0) <=> (stats.max_gap >= GapFloor)
  BY DEF IInv, SwitchIffHugeGap
<1>3. /\ stats'.received = stats.received /\ stats'.missing = stats.missing
      /\ stats'.dups = stats.dups + 1
      /\ stats'.true_dups = stats.true_dups
      /\ stats'.reordered = stats.reordered + 1
      /\ stats'.stream_switches = stats.stream_switches
      /\ stats'.max_gap = stats.max_gap
  BY <1>1 DEF Counters
<1>4. stats' \in [Counters -> Nat]
  <2> DEFINE a == [stats EXCEPT !.dups = @ + 1]
  <2>1. a \in [Counters -> Nat]
    BY <1>1 DEF Counters
  <2>2. a.reordered + 1 \in Nat /\ stats' = [a EXCEPT !.reordered = a.reordered + 1]
    BY <2>1 DEF Counters
  <2> HIDE DEF a
  <2>3. QED
    BY <2>1, <2>2
<1>5. stats.reordered \in Nat /\ stats.true_dups \in Nat
  BY <1>1 DEF Counters
<1>6. SwitchIffHugeGap'
  BY <1>2, <1>3 DEF SwitchIffHugeGap
<1>7. stats'.reordered + stats'.true_dups = stats.reordered + stats.true_dups + 1
  BY <1>3, <1>5
<1>8. QED
  BY <1>3, <1>4, <1>6, <1>7 DEF DropCounted

\* A dropped datagram leaves the base and the buffer alone.
LEMMA DropKeeps ==
    ASSUME IInv, DropCounted,
           fed' = fed + 1, window' = window, out' = <<>>,
           UNCHANGED <<expected, pending, discarded>>,
           seen' \in Seq(SeqNo), seenSet' \in SUBSET SeqNo, SeenInStep'
    PROVE  IInv' /\ StepCounts
<1>1. stats \in [Counters -> Nat] /\ stats' \in [Counters -> Nat]
  BY DEF DropCounted, IInv, TypeOK
<1>2. Held' = Held
  BY DEF Held
<1>3. TypeOK'
  <2>1. out' \in Seq(Payload)
    OBVIOUS
  <2>2. QED
    BY <1>1, <1>2, <2>1 DEF IInv, TypeOK
<1>4. Cardinality(Held) \in Nat
  BY SeqSetsFinite DEF IInv, TypeOK
<1>5. /\ stats.received \in Nat /\ stats.dups \in Nat /\ stats.missing \in Nat
      /\ stats'.reordered \in Nat /\ stats'.true_dups \in Nat
      /\ stats.reordered \in Nat /\ stats.true_dups \in Nat
      /\ fed \in Nat /\ discarded \in Nat
  BY <1>1 DEF IInv, TypeOK, Counters
<1>6. /\ stats'.received = stats.received
      /\ stats'.missing = stats.missing
      /\ stats'.dups = stats.dups + 1
      /\ stats'.reordered + stats'.true_dups = stats.reordered + stats.true_dups + 1
  BY DEF DropCounted
<1>7. Conservation'
  <2>1. /\ fed = stats.received + stats.dups + Cardinality(Held) + discarded
        /\ stats.dups = stats.reordered + stats.true_dups
    BY DEF IInv, Conservation
  <2>2. fed' = stats'.received + stats'.dups + Cardinality(Held') + discarded'
    <3>1. /\ fed' = fed + 1 /\ discarded' = discarded
          /\ Cardinality(Held') = Cardinality(Held)
      BY <1>2
    <3>2. fed + 1 = stats.received + (stats.dups + 1) + Cardinality(Held) + discarded
      BY <1>4, <1>5, <2>1, SMTT(60)
    <3>3. QED
      BY <1>6, <3>1, <3>2
  <2>3. stats'.dups = stats'.reordered + stats'.true_dups
    BY <1>6, <2>1
  <2>4. QED
    BY <2>2, <2>3 DEF Conservation
<1>8. BufferBounded'
  BY <1>2 DEF IInv, BufferBounded
<1>9. StepCounts
  <2>1. Len(out') = 0 /\ stats'.received - stats.received = 0
    BY <1>5, <1>6
  <2>2. (stats'.received + stats'.missing) - (stats.received + stats.missing) = 0
    BY <1>5, <1>6
  <2>3. expected # None => expected \in SeqNo /\ Plus(expected, 0) = expected
    BY SizesAssumption DEF IInv, TypeOK, Plus, SeqNo
  <2>4. QED
    BY <2>1, <2>2, <2>3 DEF StepCounts
<1>10. QED
  BY <1>3, <1>7, <1>8, <1>9 DEF IInv, DropCounted

LEMMA BehindKeeps ==
    ASSUME IInv, NEW s \in SeqNo, Behind(s), fed' = fed + 1, window' = window
    PROVE  IInv' /\ StepCounts
<1>1. seen' \in Seq(SeqNo) /\ seenSet' \in SUBSET SeqNo /\ SeenInStep'
  BY MarkSeenKeeps DEF IInv, TypeOK, Behind
<1>2. Adjusted(stats)
  BY AdjustedCounters
<1>3. DropCounted
  <2>1. CASE s \in seenSet
    BY <1>2, <2>1, CountTrueDup DEF Behind
  <2>2. CASE s \notin seenSet
    BY <2>2, CountReordered DEF Behind
  <2>3. QED
    BY <2>1, <2>2
<1>4. out' = <<>> /\ UNCHANGED <<expected, pending, discarded>>
  BY DEF Behind
<1>5. QED
  BY <1>1, <1>3, <1>4, DropKeeps

LEMMA EarlyCopyKeeps ==
    ASSUME IInv, expected # None, NEW s \in SeqNo, FeedEarlyCopy(s), fed' = fed + 1, window' = window
    PROVE  IInv' /\ StepCounts
<1> DEFINE gap == Ahead(s, expected)
           st == NoteGap(gap, stats)
<1>1. gap \in 0 .. GapFloor - 1
  <2>1. expected \in SeqNo
    BY DEF IInv, TypeOK
  <2>2. gap \in SeqNo /\ gap < GapFloor
    BY <2>1, SeqArithmetic DEF Known, FeedEarlyCopy, Early
  <2>3. QED
    BY <2>2, SizesAssumption DEF SeqNo
<1>2. Adjusted(st)
  BY <1>1, AdjustedCounters
<1>3. st.missing = stats.missing
  BY DEF NoteGap, IInv, TypeOK, Counters
<1>4. seen' \in Seq(SeqNo) /\ seenSet' \in SUBSET SeqNo /\ SeenInStep'
  BY DEF IInv, TypeOK, SeenInStep, Known, FeedEarlyCopy
<1>5. /\ stats' = [st EXCEPT !.dups = @ + 1, !.true_dups = @ + 1]
      /\ out' = <<>>
      /\ UNCHANGED <<expected, pending, discarded>>
  BY DEF Known, FeedEarlyCopy
<1> HIDE DEF st
<1>6. DropCounted
  BY <1>2, <1>3, <1>5, CountTrueDup
<1>7. QED
  BY <1>4, <1>5, <1>6, DropKeeps

\* The base walks over the buffer: buf holds `extra` datagrams more than
\* before, and what is left fits the window.
LEMMA WalkKeeps ==
    ASSUME IInv, expected # None,
           NEW D \in SUBSET SeqNo, NEW buf \in [D -> Payload], NEW n \in 0 .. SeqMod,
           NEW st, Adjusted(st), st.missing = stats.missing,
           WalkBase(buf, n, st),
           NEW extra \in {0, 1}, Cardinality(D) = Cardinality(Held) + extra,
           fed' = fed + extra, window' = window, UNCHANGED discarded,
           Cardinality(D \ Passed(expected, D, n)) <= window,
           seen' \in Seq(SeqNo), seenSet' \in SUBSET SeqNo, SeenInStep'
    PROVE  IInv' /\ StepCounts
<1>1. /\ st \in [Counters -> Nat]
      /\ stats \in [Counters -> Nat]
      /\ expected \in SeqNo /\ Held \in SUBSET SeqNo
  BY DEF Adjusted, IInv, TypeOK
<1>2. Walked(D, n, st)
  BY <1>1, WalkEffect
<1>2a. /\ expected' = Plus(expected, n)
       /\ expected' \in SeqNo
       /\ Held' = D \ Passed(expected, D, n)
       /\ pending' \in [Held' -> Payload]
  BY <1>2 DEF Walked
<1>3. PICK k \in 0 .. n :
           /\ Cardinality(D) = Cardinality(Held') + k
           /\ out' \in Seq(Payload) /\ Len(out') = k
           /\ stats' = [st EXCEPT !.received = @ + k, !.missing = @ + (n - k)]
  BY <1>2 DEF Walked
<1>4. k \in Nat /\ n - k \in Nat /\ n \in Nat
  OBVIOUS
<1>5. stats' \in [Counters -> Nat]
  <2>1. st.received \in Nat /\ st.missing \in Nat
    BY <1>1 DEF Counters
  <2>2. st.received + k \in Nat /\ st.missing + (n - k) \in Nat
    BY <1>4, <2>1
  <2>3. QED
    BY <1>1, <1>3, <2>2
<1>6. Held' \in SUBSET SeqNo
  BY <1>2a
<1>7. fed' \in Nat /\ discarded' \in Nat
  BY DEF IInv, TypeOK
<1>8. TypeOK'
  BY <1>2a, <1>3, <1>5, <1>6, <1>7, NoneIsNoSeqNo, WindowRange DEF TypeOK
<1>9. /\ stats'.received = stats.received + k
      /\ stats'.missing = stats.missing + (n - k)
      /\ stats'.dups = stats.dups
      /\ stats'.reordered = stats.reordered
      /\ stats'.true_dups = stats.true_dups
      /\ stats'.max_gap = st.max_gap
      /\ stats'.stream_switches = st.stream_switches
  BY <1>1, <1>3 DEF Adjusted, Counters
<1>10. Cardinality(Held') \in Nat /\ Cardinality(Held) \in Nat
  BY <1>1, <1>6, SeqSetsFinite
<1>11. /\ stats.received \in Nat /\ stats.dups \in Nat /\ stats.missing \in Nat
       /\ fed \in Nat /\ discarded \in Nat
  BY <1>1 DEF IInv, TypeOK, Counters
<1>12. Conservation'
  <2>1. /\ fed = stats.received + stats.dups + Cardinality(Held) + discarded
        /\ stats.dups = stats.reordered + stats.true_dups
    BY DEF IInv, Conservation
  <2>2. fed' = stats'.received + stats'.dups + Cardinality(Held') + discarded'
    <3>1. Cardinality(Held) + extra = Cardinality(Held') + k
      BY <1>3
    <3>2. extra \in Nat /\ fed' = fed + extra /\ discarded' = discarded
      OBVIOUS
    <3>3. QED
      BY <1>4, <1>9, <1>10, <1>11, <2>1, <3>1, <3>2, SMTT(60)
  <2>3. QED
    BY <1>9, <2>1, <2>2 DEF Conservation
<1>13. BufferBounded'
  BY <1>2a DEF BufferBounded
<1>14. SwitchIffHugeGap'
  BY <1>9 DEF Adjusted, SwitchIffHugeGap
<1>15. StepCounts
  <2>1. stats'.received - stats.received = Len(out')
    BY <1>3, <1>4, <1>9, <1>11
  <2>2. (stats'.received + stats'.missing) - (stats.received + stats.missing) = n
    BY <1>4, <1>9, <1>11
  <2>3. QED
    BY <1>2a, <2>1, <2>2 DEF StepCounts
<1>16. QED
  BY <1>8, <1>12, <1>13, <1>14, <1>15 DEF IInv

-----------------------------------------------------------------------------
(* One lemma per branch of the handlers.                                   *)

LEMMA PlusIsSum ==
    ASSUME NEW e \in SeqNo, NEW i \in Nat, NEW j \in Nat, i + j <= SeqMod
    PROVE  Plus(Plus(e, i), j) = Plus(e, i + j)
  BY SizesAssumption DEF SeqNo, Plus

\* An early datagram is buffered and the window enforced.
LEMMA HoldKeeps ==
    ASSUME IInv, expected # None, window > 0,
           NEW p \in Payload, NEW s \in SeqNo, FeedHold(p, s), fed' = fed + 1, window' = window
    PROVE  IInv' /\ StepCounts
<1> DEFINE D == Held \cup {s}
           buf == [t \in DOMAIN pending \cup {s} |-> IF t = s THEN p ELSE pending[t]]
           gap == Ahead(s, expected)
           st == NoteGap(gap, stats)
           n == ForcedSteps(expected, D)
           hi == HiAhead(expected, D)
<1>1. /\ expected \in SeqNo /\ Held \in SUBSET SeqNo /\ pending \in [Held -> Payload]
      /\ stats \in [Counters -> Nat] /\ D \in SUBSET SeqNo /\ D # {}
  BY DEF IInv, TypeOK
<1>2. buf \in [D -> Payload] /\ DOMAIN buf = D
  BY <1>1 DEF Held
<1>3. hi \in SeqNo /\ (\A t \in D : Ahead(t, expected) <= hi)
  BY <1>1, HiAheadIsMax
<1>4. n = IF hi >= window THEN hi - window + 1 ELSE 0
  BY <1>1, ForcedStepsExact, WindowRange
<1> HIDE DEF hi, n, D
<1>5. n \in 0 .. SeqMod
  BY <1>3, <1>4, SizesAssumption, WindowRange DEF SeqNo
<1>6. Cardinality(D \ Passed(expected, D, n)) <= window
  <2>1. CASE hi < window
    <3>1. \A t \in D \ Passed(expected, D, n) : Ahead(t, expected) \in 0 .. hi
      BY <1>1, <1>3, SeqArithmetic DEF SeqNo
    <3>2. D \ Passed(expected, D, n) \in SUBSET SeqNo /\ hi \in Int /\ 0 <= hi + 1
      <4>1. D \ Passed(expected, D, n) \in SUBSET SeqNo
        BY <1>1
      <4>2. hi \in Int /\ 0 <= hi + 1
        BY <1>3 DEF SeqNo
      <4>3. QED
        BY <4>1, <4>2
    <3>3. Cardinality(D \ Passed(expected, D, n)) <= hi - 0 + 1
      BY <1>1, <3>1, <3>2, CountByDistance
    <3>4. Cardinality(D \ Passed(expected, D, n)) \in Nat
      BY <3>2, SeqSetsFinite
    <3>5. QED
      BY <2>1, <3>2, <3>3, <3>4, WindowRange
  <2>2. CASE hi >= window
    <3>1. n = hi - window + 1 /\ n \in Int /\ hi \in Int /\ n <= hi + 1
      BY <1>3, <1>4, <2>2, WindowRange DEF SeqNo
    <3>2. \A t \in D \ Passed(expected, D, n) : Ahead(t, expected) \in n .. hi
      <4>1. TAKE t \in D \ Passed(expected, D, n)
      <4>2. t \in D /\ ~(Ahead(t, expected) < n)
        BY DEF Passed
      <4>3. Ahead(t, expected) \in Int /\ Ahead(t, expected) <= hi
        BY <1>1, <1>3, <4>2, SeqArithmetic DEF SeqNo
      <4>4. QED
        BY <3>1, <4>2, <4>3
    <3>3. D \ Passed(expected, D, n) \in SUBSET SeqNo
      BY <1>1
    <3>4. Cardinality(D \ Passed(expected, D, n)) <= hi - n + 1
      BY <1>1, <3>1, <3>2, <3>3, CountByDistance
    <3>5. Cardinality(D \ Passed(expected, D, n)) \in Nat
      BY <3>3, SeqSetsFinite
    <3>6. QED
      BY <3>1, <3>4, <3>5, WindowRange
  <2>3. QED
    BY <1>3, <2>1, <2>2, WindowRange DEF SeqNo
<1>7. gap \in 0 .. GapFloor - 1
  <2>1. gap \in SeqNo /\ gap < GapFloor
    BY <1>1, SeqArithmetic DEF Known, FeedHold, Early
  <2>2. QED
    BY <2>1, SizesAssumption DEF SeqNo
<1>8. Adjusted(st)
  BY <1>7, AdjustedCounters
<1>9. st.missing = stats.missing
  BY <1>1 DEF NoteGap, Counters
<1> HIDE DEF st
<1>10. WalkBase(buf, n, st)
  BY <1>2 DEF Known, FeedHold, n, st, D, Held
<1>11. UNCHANGED discarded
  BY DEF Known, FeedHold
<1>12. Cardinality(D) = Cardinality(Held) + 1
  <2>1. s \notin Held
    BY DEF Known, FeedHold, Held
  <2>2. IsFiniteSet(Held)
    BY <1>1, SeqSetsFinite
  <2>3. QED
    BY <2>1, <2>2, FS_AddElement DEF D
<1>13. seen' \in Seq(SeqNo) /\ seenSet' \in SUBSET SeqNo /\ SeenInStep'
  BY MarkSeenKeeps DEF IInv, TypeOK, Known, FeedHold
<1> HIDE DEF buf
<1>14. QED
  BY <1>1, <1>2, <1>5, <1>6, <1>8, <1>9, <1>10, <1>11, <1>12, <1>13, WalkKeeps

\* The first datagram, or a RESTART.
LEMMA RebaseKeeps ==
    ASSUME IInv, NEW p \in Payload, NEW s \in SeqNo, NEW restart \in BOOLEAN,
           FeedRebase(p, s, restart), fed' = fed + 1, window' = window
    PROVE  IInv' /\ StepCounts
<1> DEFINE old == restart /\ expected # None
           st == CountRestart(restart, stats)
           buf == IF old THEN Empty ELSE pending
           D == DOMAIN buf
<1>1. pending \in [Held -> Payload] /\ stats \in [Counters -> Nat] /\ Held \in SUBSET SeqNo
  BY DEF IInv, TypeOK
<1>2. /\ D \in SUBSET Held /\ buf \in [D -> Payload]
      /\ D = IF old THEN {} ELSE Held
  BY <1>1 DEF Held, Empty
<1>3. Cardinality(Held \ D) = Cardinality(Held) - Cardinality(D)
  <2>1. IsFiniteSet(Held) /\ Held \cap D = D
    BY <1>1, <1>2, SeqSetsFinite
  <2>2. QED
    BY <2>1, FS_Difference
<1>4. /\ Accept(p, s, buf, st)
      /\ discarded' = discarded + (Cardinality(Held) - Cardinality(D))
  BY <1>3 DEF FeedRebase, Held
<1>5. Adjusted(st)
  BY AdjustedCounters
<1>6. expected # None => st.restarts = stats.restarts + 1
  BY <1>1 DEF FeedRebase, Rebases, CountRestart, Counters
<1> HIDE DEF st, buf, D
<1>7. /\ IInv'
      /\ stats'.received - stats.received = Len(out')
      /\ \E k \in 0 .. SeqMod :
            /\ expected' = Plus(Plus(s, 1), k)
            /\ stats' = [st EXCEPT !.received = @ + 1 + k]
            /\ k <= Cardinality(D)
  BY <1>2, <1>4, <1>5, AcceptKeeps
<1>8. expected # None => Rebaselined
  <2>1. stats'.restarts = st.restarts
    BY <1>7, <1>5 DEF Adjusted, Counters
  <2>2. stats.restarts \in Nat
    BY <1>1 DEF Counters
  <2>3. QED
    BY <1>6, <2>1, <2>2 DEF Rebaselined
<1>9. QED
  BY <1>7, <1>8 DEF StepCounts

LEMMA InOrderKeeps ==
    ASSUME IInv, expected # None, NEW p \in Payload, NEW s \in SeqNo,
           FeedInOrder(p, s), fed' = fed + 1, window' = window
    PROVE  IInv' /\ StepCounts
<1>1. /\ pending \in [Held -> Payload] /\ stats \in [Counters -> Nat]
      /\ Held \in SUBSET SeqNo /\ Held \in SUBSET Held /\ expected \in SeqNo
  BY DEF IInv, TypeOK
<1>2. Cardinality(Held) \in Nat /\ Cardinality(Held) <= window
  BY <1>1, SeqSetsFinite DEF IInv, BufferBounded
<1>3. /\ Accept(p, s, pending, stats) /\ s = expected
      /\ discarded' = discarded + (Cardinality(Held) - Cardinality(Held))
  <2>1. discarded \in Int /\ discarded' = discarded
    BY DEF FeedInOrder, IInv, TypeOK
  <2>2. QED
    BY <1>2, <2>1 DEF FeedInOrder
<1>4. Adjusted(stats)
  BY AdjustedCounters
<1>5. /\ IInv'
      /\ stats'.received - stats.received = Len(out')
      /\ \E k \in 0 .. SeqMod :
            /\ expected' = Plus(Plus(s, 1), k)
            /\ stats' = [stats EXCEPT !.received = @ + 1 + k]
            /\ k <= Cardinality(Held)
  BY <1>1, <1>3, <1>4, AcceptKeeps
<1>6. PICK k \in 0 .. SeqMod :
            /\ expected' = Plus(Plus(s, 1), k)
            /\ stats' = [stats EXCEPT !.received = @ + 1 + k]
            /\ k <= Cardinality(Held)
  BY <1>5
<1>7. k \in Nat /\ 1 + k <= SeqMod
  BY <1>2, <1>6, SizesAssumption, WindowRange
<1>8. expected' = Plus(expected, 1 + k)
  BY <1>1, <1>3, <1>6, <1>7, PlusIsSum
<1>9. (stats'.received + stats'.missing) - (stats.received + stats.missing) = 1 + k
  <2>1. stats.received \in Nat /\ stats.missing \in Nat
    BY <1>1 DEF Counters
  <2>2. stats'.received = stats.received + 1 + k /\ stats'.missing = stats.missing
    BY <1>1, <1>6 DEF Counters
  <2>3. QED
    BY <1>7, <2>1, <2>2
<1>10. QED
  BY <1>5, <1>8, <1>9 DEF StepCounts

LEMMA SwitchKeeps ==
    ASSUME IInv, expected # None, NEW p \in Payload, NEW s \in SeqNo,
           FeedSwitch(p, s), fed' = fed + 1, window' = window
    PROVE  IInv' /\ StepCounts
<1> DEFINE gap == Ahead(s, expected)
           st == [NoteGap(gap, stats) EXCEPT !.stream_switches = @ + 1]
<1>1. /\ stats \in [Counters -> Nat] /\ Held \in SUBSET SeqNo /\ expected \in SeqNo
  BY DEF IInv, TypeOK
<1>2. Cardinality(Held) \in Nat
  BY <1>1, SeqSetsFinite
<1>3. /\ Accept(p, s, Empty, st)
      /\ discarded' = discarded + (Cardinality(Held) - Cardinality({}))
  BY <1>2, FS_EmptySet DEF FeedSwitch, Held
<1>4. gap \in Nat /\ gap >= GapFloor
  BY <1>1, SeqArithmetic DEF FeedSwitch, SeqNo
<1>5. Adjusted(st)
  BY <1>4, AdjustedCounters
<1>6. st.stream_switches = stats.stream_switches + 1
  BY <1>1 DEF NoteGap, Counters
<1> HIDE DEF st
<1>7. Empty \in [{} -> Payload] /\ {} \in SUBSET Held
  BY DEF Empty
<1>8. /\ IInv'
      /\ stats'.received - stats.received = Len(out')
      /\ \E k \in 0 .. SeqMod :
            /\ expected' = Plus(Plus(s, 1), k)
            /\ stats' = [st EXCEPT !.received = @ + 1 + k]
            /\ k <= Cardinality({})
  BY ZenonT(30), <1>3, <1>5, <1>7, AcceptKeeps
<1>9. Rebaselined
  <2>1. stats'.stream_switches = st.stream_switches
    BY <1>8, <1>5 DEF Adjusted, Counters
  <2>2. stats.stream_switches \in Nat
    BY <1>1 DEF Counters
  <2>3. QED
    BY <1>6, <2>1, <2>2 DEF Rebaselined
<1>10. QED
  BY <1>8, <1>9 DEF StepCounts

\* track(): the four ways it delivers, and the drop.
LEMMA TrackKeeps ==
    ASSUME IInv, NEW p \in Payload, NEW s \in SeqNo, NEW restart \in BOOLEAN,
           Track(p, s, restart), fed' = fed + 1, window' = window
    PROVE  IInv' /\ StepCounts
<1> DEFINE gap == Ahead(s, expected)
<1>1. stats \in [Counters -> Nat] /\ expected \in SeqNo \cup {None}
  BY DEF IInv, TypeOK
<1>2. stats.received \in Nat /\ stats.missing \in Nat /\ stats.restarts \in Nat
      /\ stats.stream_switches \in Nat
  BY <1>1 DEF Counters
<1>3. CASE Rebases(restart) /\ TrackAccept(p, s, CountRestart(restart, stats))
  <2>1. Adjusted(CountRestart(restart, stats))
    BY AdjustedCounters
  <2>2. /\ IInv' /\ stats'.received - stats.received = Len(out')
        /\ stats' = [CountRestart(restart, stats) EXCEPT !.received = @ + 1]
    BY <1>3, <2>1, TrackAcceptKeeps
  <2>3. expected # None => stats'.restarts = stats.restarts + 1
    BY <1>1, <1>3, <2>2 DEF Rebases, CountRestart, Counters
  <2>4. QED
    BY <1>2, <2>2, <2>3 DEF StepCounts, Rebaselined
<1>4. CASE ~Rebases(restart) /\ s = expected /\ TrackAccept(p, s, stats)
  <2>1. Adjusted(stats)
    BY AdjustedCounters
  <2>2. /\ IInv' /\ stats'.received - stats.received = Len(out')
        /\ expected' = Plus(s, 1)
        /\ stats' = [stats EXCEPT !.received = @ + 1]
    BY <1>4, <2>1, TrackAcceptKeeps
  <2>3. stats'.received = stats.received + 1 /\ stats'.missing = stats.missing
    BY <1>1, <2>2 DEF Counters
  <2>4. (stats'.received + stats'.missing) - (stats.received + stats.missing) = 1
    BY <1>2, <2>3
  <2>5. QED
    BY <1>4, <2>2, <2>4 DEF StepCounts
<1>5. CASE /\ ~Rebases(restart) /\ 0 < gap /\ gap < GapFloor
           /\ TrackAccept(p, s, [NoteGap(gap, stats) EXCEPT !.missing = @ + gap])
  <2>1. expected \in SeqNo
    BY <1>1, <1>5 DEF Rebases
  <2>2. gap \in 0 .. GapFloor - 1 /\ gap \in Nat /\ gap + 1 <= SeqMod
    <3>1. gap \in SeqNo
      BY <2>1, SeqArithmetic
    <3>2. QED
      BY <1>5, <3>1, SizesAssumption DEF SeqNo
  <2>3. Adjusted([NoteGap(gap, stats) EXCEPT !.missing = @ + gap])
    BY <2>2, AdjustedCounters
  <2>4. /\ IInv' /\ stats'.received - stats.received = Len(out')
        /\ expected' = Plus(s, 1)
        /\ stats' = [[NoteGap(gap, stats) EXCEPT !.missing = @ + gap] EXCEPT !.received = @ + 1]
    BY <1>5, <2>3, TrackAcceptKeeps
  <2>5. stats'.received = stats.received + 1 /\ stats'.missing = stats.missing + gap
    BY <1>1, <2>4 DEF NoteGap, Counters
  <2>6. (stats'.received + stats'.missing) - (stats.received + stats.missing) = gap + 1
    BY <1>2, <2>2, <2>5
  <2>7. Plus(s, 1) = Plus(expected, gap + 1)
    BY <2>1, <2>2, PlusIsSum, SeqArithmetic
  <2>8. QED
    BY <2>4, <2>6, <2>7 DEF StepCounts
<1>6. CASE /\ ~Rebases(restart) /\ GapFloor <= gap /\ gap < Half
           /\ TrackAccept(p, s, [NoteGap(gap, stats) EXCEPT !.stream_switches = @ + 1])
  <2>1. expected \in SeqNo
    BY <1>1, <1>6 DEF Rebases
  <2>2. gap \in Nat /\ gap >= GapFloor
    BY <1>6, <2>1, SeqArithmetic DEF SeqNo
  <2>3. Adjusted([NoteGap(gap, stats) EXCEPT !.stream_switches = @ + 1])
    BY <2>2, AdjustedCounters
  <2>4. /\ IInv' /\ stats'.received - stats.received = Len(out')
        /\ stats' = [[NoteGap(gap, stats) EXCEPT !.stream_switches = @ + 1] EXCEPT !.received = @ + 1]
    BY <1>6, <2>3, TrackAcceptKeeps
  <2>5. stats'.stream_switches = stats.stream_switches + 1
    BY <1>1, <2>4 DEF NoteGap, Counters
  <2>6. QED
    BY <1>2, <2>4, <2>5 DEF StepCounts, Rebaselined
<1>7. CASE Behind(s)
  BY <1>7, BehindKeeps
<1>8. QED
  BY <1>3, <1>4, <1>5, <1>6, <1>7 DEF Track, Skip

LEMMA FeedKeeps ==
    ASSUME IInv, NEW p \in Payload, NEW s \in SeqNo, NEW restart \in BOOLEAN,
           Feed(p, s, restart)
    PROVE  IInv' /\ StepCounts
<1>1. fed' = fed + 1 /\ window' = window
  BY DEF Feed
<1>2. CASE Track(p, s, restart)
  BY <1>1, <1>2, TrackKeeps
<1>3. CASE window > 0 /\ FeedBuffered(p, s, restart)
  <2>1. CASE FeedRebase(p, s, restart)
    BY <1>1, <2>1, RebaseKeeps
  <2>2. CASE ~Rebases(restart) /\ FeedInOrder(p, s)
    BY <1>1, <2>2, InOrderKeeps DEF Rebases
  <2>3. CASE ~Rebases(restart) /\ FeedSwitch(p, s)
    BY <1>1, <2>3, SwitchKeeps DEF Rebases
  <2>4. CASE ~Rebases(restart) /\ FeedEarlyCopy(s)
    BY <1>1, <2>4, EarlyCopyKeeps DEF Rebases
  <2>5. CASE ~Rebases(restart) /\ FeedHold(p, s)
    BY <1>1, <1>3, <2>5, HoldKeeps DEF Rebases
  <2>6. CASE Behind(s)
    BY <1>1, <2>6, BehindKeeps
  <2>7. QED
    BY <1>3, <2>1, <2>2, <2>3, <2>4, <2>5, <2>6 DEF FeedBuffered
<1>4. QED
  BY <1>2, <1>3 DEF Feed

\* The walk of flush() goes one place past the furthest datagram held: it
\* passes them all.
LEMMA FlushPassesAll ==
    ASSUME IInv, Held # {}
    PROVE  /\ expected \in SeqNo
           /\ HiAhead(expected, Held) + 1 \in 0 .. SeqMod
           /\ Held \ Passed(expected, Held, HiAhead(expected, Held) + 1) = {}
<1> DEFINE n == HiAhead(expected, Held) + 1
<1>1. Held \in SUBSET SeqNo /\ expected \in SeqNo
  BY DEF IInv, TypeOK
<1>2. HiAhead(expected, Held) \in SeqNo
  BY <1>1, HiAheadIsMax
<1>3. n \in 0 .. SeqMod
  BY <1>2, SizesAssumption DEF SeqNo
<1>4. Held \ Passed(expected, Held, n) = {}
  <2>1. \A s \in Held : Ahead(s, expected) <= HiAhead(expected, Held)
    BY <1>1, HiAheadIsMax
  <2>2. \A s \in Held : Ahead(s, expected) \in Int
    BY <1>1, SeqArithmetic DEF SeqNo
  <2>3. HiAhead(expected, Held) \in Int
    BY <1>2 DEF SeqNo
  <2>4. \A s \in Held : Ahead(s, expected) < n
    BY <2>1, <2>2, <2>3
  <2>5. QED
    BY <2>4 DEF Passed
<1>5. QED
  BY <1>1, <1>3, <1>4

LEMMA FlushKeeps ==
    ASSUME IInv, Flush
    PROVE  IInv' /\ StepCounts
<1>1. /\ pending \in [Held -> Payload] /\ stats \in [Counters -> Nat]
      /\ Held \in SUBSET SeqNo
      /\ expected = None => Held = {}
  BY DEF IInv, TypeOK
<1>2. fed' = fed + 0 /\ window' = window /\ UNCHANGED discarded
  BY DEF Flush, IInv, TypeOK
<1>3. seen' \in Seq(SeqNo) /\ seenSet' \in SUBSET SeqNo /\ SeenInStep'
  BY DEF Flush, IInv, TypeOK, SeenInStep
<1>4. CASE Held = {}
  <2>1. /\ out' = <<>>
        /\ UNCHANGED <<window, expected, stats, pending, seen, seenSet, fed, discarded>>
    BY <1>4 DEF Flush, Held
  <2>2. TypeOK'
    BY <2>1 DEF IInv, TypeOK, Held
  <2>3. IInv'
    BY <2>1, <2>2 DEF IInv, SeenInStep, Conservation, BufferBounded, SwitchIffHugeGap, Held
  <2>4. StepCounts
    <3>1. stats.received \in Nat /\ stats.missing \in Nat /\ Len(<<>>) = 0
      BY <1>1 DEF Counters
    <3>2. expected # None => expected \in SeqNo /\ Plus(expected, 0) = expected
      BY SizesAssumption DEF IInv, TypeOK, Plus, SeqNo
    <3>3. QED
      BY <2>1, <3>1, <3>2 DEF StepCounts
  <2>5. QED
    BY <2>3, <2>4
<1>5. CASE Held # {}
  <2> DEFINE n == HiAhead(expected, Held) + 1
  <2>1. expected # None /\ expected \in SeqNo
    BY <1>1, <1>5 DEF IInv, TypeOK
  <2>3. n \in 0 .. SeqMod
    BY <1>5, FlushPassesAll
  <2>4. Held \ Passed(expected, Held, n) = {}
    BY <1>5, FlushPassesAll
  <2>5. Cardinality(Held \ Passed(expected, Held, n)) <= window
    BY <2>4, FS_EmptySet, WindowRange
  <2>6. WalkBase(pending, n, stats)
    BY <1>5 DEF Flush, Held
  <2>7. Adjusted(stats)
    BY AdjustedCounters
  <2>8. Cardinality(Held) = Cardinality(Held) + 0
    BY <1>1, SeqSetsFinite
  <2> HIDE DEF n
  <2>9. IInv' /\ StepCounts
    BY <1>1, <1>2, <1>3, <2>1, <2>3, <2>5, <2>6, <2>7, <2>8, WalkKeeps
  <2>10. QED
    BY <2>9
<1>6. QED
  BY <1>4, <1>5

LEMMA NoteMalformedKeeps ==
    ASSUME IInv, NoteMalformed
    PROVE  IInv' /\ StepCounts
<1>1. stats \in [Counters -> Nat]
  BY DEF IInv, TypeOK
<1>2. /\ stats' = [stats EXCEPT !.bad = @ + 1]
      /\ out' = <<>>
      /\ UNCHANGED <<window, expected, seen, seenSet, pending, fed, discarded>>
  BY DEF NoteMalformed
<1>3. stats' \in [Counters -> Nat] /\ (\A c \in Counters \ {"bad"} : stats'[c] = stats[c])
  BY <1>1, <1>2 DEF Counters
<1>4. Held' = Held
  BY <1>2 DEF Held
<1>5. TypeOK'
  BY <1>2, <1>3, <1>4 DEF IInv, TypeOK
<1>6. IInv'
  BY <1>2, <1>3, <1>4, <1>5
     DEF IInv, SeenInStep, Conservation, BufferBounded, SwitchIffHugeGap, Counters
<1>7. stats.received \in Nat /\ stats.missing \in Nat /\ Len(<<>>) = 0
  BY <1>1 DEF Counters
<1>8. stats'.received = stats.received /\ stats'.missing = stats.missing
  BY <1>3 DEF Counters
<1>9. expected # None => expected \in SeqNo /\ Plus(expected, 0) = expected
  BY SizesAssumption DEF IInv, TypeOK, Plus, SeqNo
<1>10. StepCounts
  BY <1>2, <1>7, <1>8, <1>9 DEF StepCounts
<1>11. QED
  BY <1>6, <1>10

-----------------------------------------------------------------------------
(* The theorems.                                                           *)

LEMMA InitHolds == Init => IInv
<1> SUFFICES ASSUME Init PROVE IInv
  OBVIOUS
<1>1. Held = {}
  BY DEF Init, Held, Empty
<1>2. Cardinality({}) = 0
  BY FS_EmptySet
<1>3. TypeOK
  BY <1>1 DEF Init, TypeOK, Counters, Empty
<1>4. SeenInStep
  BY SizesAssumption DEF Init, SeenInStep
<1>5. Conservation
  BY <1>1, <1>2 DEF Init, Conservation, Counters
<1>6. BufferBounded
  BY <1>1, <1>2, SizesAssumption DEF Init, BufferBounded
<1>7. SwitchIffHugeGap
  BY SizesAssumption DEF Init, SwitchIffHugeGap, Counters
<1>8. QED
  BY <1>3, <1>4, <1>5, <1>6, <1>7 DEF IInv

LEMMA StepHolds ==
    ASSUME IInv, [Next]_vars
    PROVE  IInv' /\ (StepCounts \/ UNCHANGED vars)
<1>1. ASSUME NEW p \in Payload, NEW s \in SeqNo, NEW restart \in BOOLEAN, Feed(p, s, restart)
      PROVE  IInv' /\ StepCounts
  BY <1>1, FeedKeeps
<1>2. CASE Flush
  BY <1>2, FlushKeeps
<1>3. CASE NoteMalformed
  BY <1>3, NoteMalformedKeeps
<1>4. CASE UNCHANGED vars
  <2>1. IInv'
    BY <1>4 DEF vars, IInv, TypeOK, SeenInStep, Conservation, BufferBounded,
                SwitchIffHugeGap, Held
  <2>2. QED
    BY <1>4, <2>1
<1>5. QED
  BY <1>1, <1>2, <1>3, <1>4 DEF Next

\* The inductive invariant holds in every reachable state.
THEOREM Invariance == Spec => []IInv
<1>1. IInv /\ [Next]_vars => IInv'
  BY StepHolds
<1>2. QED
  BY <1>1, InitHolds, PTL DEF Spec

\* Type correctness of the tracker's state.
THEOREM TypeCorrect == Spec => []TypeOK
<1>1. IInv => TypeOK
  BY DEF IInv
<1>2. QED
  BY <1>1, Invariance, PTL

\* Whatever arrives, in whatever order: every datagram fed is delivered,
\* dropped, held, or gone with its baseline, and counted once.
THEOREM EveryDatagramCountedOnce == Spec => []Conservation
<1>1. IInv => Conservation
  BY DEF IInv
<1>2. QED
  BY <1>1, Invariance, PTL

\* The reorder buffer never holds more than the window.
THEOREM BufferNeverExceedsWindow == Spec => []BufferBounded
<1>1. IInv => BufferBounded
  BY DEF IInv
<1>2. QED
  BY <1>1, Invariance, PTL

\* The deque and the set of _mark_seen agree.
THEOREM SeenDequeAndSetAgree == Spec => []SeenInStep
<1>1. IInv => SeenInStep
  BY DEF IInv
<1>2. QED
  BY <1>1, Invariance, PTL

\* A second stream is suspected exactly when a huge gap was recorded.
THEOREM SuspicionMatchesGap == Spec => []SwitchIffHugeGap
<1>1. IInv => SwitchIffHugeGap
  BY DEF IInv
<1>2. QED
  BY <1>1, Invariance, PTL

\* `received` counts the payloads returned.
THEOREM ReceivedCountsDeliveries == Spec => ReceivedIsDelivered
<1>1. IInv /\ [Next]_vars => [stats'.received - stats.received = Len(out')]_vars
  BY StepHolds DEF StepCounts
<1>2. QED
  BY <1>1, Invariance, PTL DEF Spec, ReceivedIsDelivered

\* received + missing, the denominator of loss_pct, grows by what the base moved.
THEOREM LossTotalCountsPlaces == Spec => LossTotalFollowsBase
<1>1. IInv /\ [Next]_vars =>
        [expected # None /\ ~Rebaselined =>
            expected' = Plus(expected, (stats'.received + stats'.missing)
                                        - (stats.received + stats.missing))]_vars
  BY StepHolds DEF StepCounts
<1>2. QED
  BY <1>1, Invariance, PTL DEF Spec, LossTotalFollowsBase

=============================================================================
