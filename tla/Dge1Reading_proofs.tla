-------------------------- MODULE Dge1Reading_proofs --------------------------
(***************************************************************************)
(* Proofs about the two modules around the tracker, on top of those about  *)
(* the tracker.  Dge1Stream, for every sequence space, window, first       *)
(* number and bound of the path; and UdpListen, for every window, every    *)
(* datagram and every socket queue.                                        *)
(***************************************************************************)
EXTENDS Dge1Stream, UdpListen, Dge1Tracker_proofs, SequenceTheorems, WellFoundedInduction

-----------------------------------------------------------------------------
(* Stretches of places: rising sequences of whole numbers.                 *)

\* q rises, from a on and to below b.
Stretch(q, a, b) ==
    /\ q \in Seq(Int)
    /\ \A i \in 1 .. Len(q) : a <= q[i] /\ q[i] < b
    /\ \A i, j \in 1 .. Len(q) : i < j => q[i] < q[j]

\* The places of a stretch.
PlacesOf(q) == {q[i] : i \in 1 .. Len(q)}

LEMMA CountInterval ==
    /\ \A n \in Nat : IsFiniteSet(1 .. n) /\ Cardinality(1 .. n) = n
    /\ \A a, b \in Int : IsFiniteSet(a .. b - 1)
    /\ \A a, b \in Int : a <= b => Cardinality(a .. b - 1) = b - a
<1>1. ASSUME NEW a \in Int, NEW b \in Int
      PROVE  /\ IsFiniteSet(a .. b - 1)
             /\ Cardinality(a .. b - 1) = IF a > b - 1 THEN 0 ELSE (b - 1) - a + 1
  <2>1. b - 1 \in Int
    OBVIOUS
  <2>2. QED
    BY <2>1, FS_Interval
<1>2. ASSUME NEW n \in Nat
      PROVE  IsFiniteSet(1 .. n) /\ Cardinality(1 .. n) = IF 1 > n THEN 0 ELSE n - 1 + 1
  BY FS_Interval
<1>3. \A n \in Nat : (IF 1 > n THEN 0 ELSE n - 1 + 1) = n
  OBVIOUS
<1>4. \A a, b \in Int : a <= b => (IF a > b - 1 THEN 0 ELSE (b - 1) - a + 1) = b - a
  OBVIOUS
<1>5. QED
  BY <1>1, <1>2, <1>3, <1>4

LEMMA EmptyStretch ==
    ASSUME NEW a \in Int, NEW b \in Int
    PROVE  Stretch(<<>>, a, b) /\ PlacesOf(<<>>) = {}
  BY DEF Stretch, PlacesOf

LEMMA SingleStretch ==
    ASSUME NEW a \in Int, NEW p \in Int, NEW b \in Int, a <= p, p < b
    PROVE  Stretch(<<p>>, a, b) /\ PlacesOf(<<p>>) = {p}
<1>1. <<p>> \in Seq(Int) /\ Len(<<p>>) = 1
  OBVIOUS
<1>2. \A i \in 1 .. Len(<<p>>) : <<p>>[i] = p
  BY <1>1
<1>3. \A i, j \in 1 .. Len(<<p>>) : ~(i < j)
  BY <1>1
<1>4. PlacesOf(<<p>>) = {p}
  BY <1>1, <1>2 DEF PlacesOf
<1>5. QED
  BY <1>1, <1>2, <1>3, <1>4 DEF Stretch

LEMMA WiderStretch ==
    ASSUME NEW a \in Int, NEW b \in Int, NEW c \in Int, b <= c, NEW q, Stretch(q, a, b)
    PROVE  Stretch(q, a, c)
<1>1. q \in Seq(Int) /\ \A i \in 1 .. Len(q) : a <= q[i] /\ q[i] < b /\ q[i] \in Int
  BY DEF Stretch
<1>2. \A i \in 1 .. Len(q) : a <= q[i] /\ q[i] < c
  BY <1>1
<1>3. QED
  BY <1>1, <1>2 DEF Stretch

\* A stretch and one behind it are a stretch.
LEMMA StretchJoin ==
    ASSUME NEW a \in Int, NEW b \in Int, NEW c \in Int, a <= b, b <= c,
           NEW q, NEW r, Stretch(q, a, b), Stretch(r, b, c)
    PROVE  Stretch(q \o r, a, c) /\ PlacesOf(q \o r) = PlacesOf(q) \cup PlacesOf(r)
<1> DEFINE m == Len(q)
           n == Len(r)
           s == q \o r
<1>1. /\ q \in Seq(Int) /\ r \in Seq(Int)
      /\ \A i \in 1 .. m : a <= q[i] /\ q[i] < b
      /\ \A i \in 1 .. n : b <= r[i] /\ r[i] < c
      /\ \A i, j \in 1 .. m : i < j => q[i] < q[j]
      /\ \A i, j \in 1 .. n : i < j => r[i] < r[j]
  BY DEF Stretch
<1>2. /\ m \in Nat /\ n \in Nat
      /\ s \in Seq(Int) /\ Len(s) = m + n
      /\ \A i \in 1 .. m + n : s[i] = IF i <= m THEN q[i] ELSE r[i - m]
  BY <1>1
<1>3. (\A i \in 1 .. m : q[i] \in Int) /\ (\A i \in 1 .. n : r[i] \in Int)
  BY <1>1
<1> HIDE DEF m, n, s
<1>4. \A i \in 1 .. m + n : IF i <= m THEN i \in 1 .. m ELSE i - m \in 1 .. n
  BY <1>2
<1>5. \A i \in 1 .. m + n : a <= s[i] /\ s[i] < c
  <2>1. TAKE i \in 1 .. m + n
  <2>2. CASE i <= m
    <3>1. i \in 1 .. m /\ s[i] = q[i]
      BY <1>2, <1>4, <2>2
    <3>2. QED
      BY <1>1, <1>3, <3>1
  <2>3. CASE ~(i <= m)
    <3>1. i - m \in 1 .. n /\ s[i] = r[i - m]
      BY <1>2, <1>4, <2>3
    <3>2. QED
      BY <1>1, <1>3, <3>1
  <2>4. QED
    BY <2>2, <2>3
<1>6. \A i, j \in 1 .. m + n : i < j => s[i] < s[j]
  <2>1. TAKE i, j \in 1 .. m + n
  <2>2. HAVE i < j
  <2>3. CASE j <= m
    <3>1. i \in 1 .. m /\ j \in 1 .. m /\ s[i] = q[i] /\ s[j] = q[j]
      BY <1>2, <1>4, <2>2, <2>3
    <3>2. QED
      BY <1>1, <2>2, <3>1
  <2>4. CASE ~(j <= m) /\ i <= m
    <3>1. i \in 1 .. m /\ j - m \in 1 .. n /\ s[i] = q[i] /\ s[j] = r[j - m]
      BY <1>2, <1>4, <2>4
    <3>2. QED
      BY <1>1, <1>3, <3>1
  <2>5. CASE ~(i <= m)
    <3>1. /\ i - m \in 1 .. n /\ j - m \in 1 .. n /\ i - m < j - m
          /\ s[i] = r[i - m] /\ s[j] = r[j - m]
      BY <1>2, <1>4, <2>2, <2>5
    <3>2. QED
      BY <1>1, <3>1
  <2>6. QED
    BY <2>3, <2>4, <2>5
<1>7. PlacesOf(s) = PlacesOf(q) \cup PlacesOf(r)
  <2>1. \A i \in 1 .. m : i \in 1 .. m + n /\ s[i] = q[i]
    BY <1>2
  <2>2. \A i \in 1 .. n : m + i \in 1 .. m + n /\ s[m + i] = r[i]
    <3>1. TAKE i \in 1 .. n
    <3>2. m + i \in 1 .. m + n /\ ~(m + i <= m) /\ (m + i) - m = i
      BY <1>2
    <3>3. QED
      BY <1>2, <3>2
  <2>3. PlacesOf(s) = {s[i] : i \in 1 .. m + n}
    BY <1>2 DEF PlacesOf
  <2>4. PlacesOf(q) = {q[i] : i \in 1 .. m} /\ PlacesOf(r) = {r[i] : i \in 1 .. n}
    BY DEF PlacesOf, m, n
  <2>5. \A x \in PlacesOf(s) : x \in PlacesOf(q) \cup PlacesOf(r)
    BY <1>2, <1>4, <2>3, <2>4
  <2>6. \A x \in PlacesOf(q) \cup PlacesOf(r) : x \in PlacesOf(s)
    BY <2>1, <2>2, <2>3, <2>4
  <2>7. QED
    BY <2>5, <2>6
<1>8. QED
  BY <1>2, <1>5, <1>6, <1>7 DEF Stretch, s

\* A stretch has as many places as it is long.
LEMMA StretchCount ==
    ASSUME NEW a \in Int, NEW b \in Int, NEW q, Stretch(q, a, b)
    PROVE  /\ PlacesOf(q) \subseteq a .. b - 1
           /\ IsFiniteSet(PlacesOf(q))
           /\ Cardinality(PlacesOf(q)) = Len(q)
<1> DEFINE n == Len(q)
           f == [i \in 1 .. n |-> q[i]]
<1>1. /\ q \in Seq(Int) /\ n \in Nat
      /\ \A i \in 1 .. n : a <= q[i] /\ q[i] < b
      /\ \A i, j \in 1 .. n : i < j => q[i] < q[j]
      /\ \A i \in 1 .. n : q[i] \in Int
  BY DEF Stretch
<1>2. f \in [1 .. n -> PlacesOf(q)]
  BY DEF PlacesOf
<1>3. \A i, j \in 1 .. n : f[i] = f[j] => i = j
  BY <1>1
<1>4. \A x \in PlacesOf(q) : \E i \in 1 .. n : f[i] = x
  BY DEF PlacesOf
<1>5. f \in Injection(1 .. n, PlacesOf(q))
  BY <1>2, <1>3, Fun_IsInj
<1>6. f \in Surjection(1 .. n, PlacesOf(q))
  BY <1>2, <1>4, Fun_IsSurj
<1>7. IsFiniteSet(1 .. n) /\ Cardinality(1 .. n) = n
  BY <1>1, CountInterval
<1>8. IsFiniteSet(PlacesOf(q)) /\ Cardinality(PlacesOf(q)) = n
  BY <1>5, <1>6, <1>7, FS_Surjection
<1>9. PlacesOf(q) \subseteq a .. b - 1
  BY <1>1 DEF PlacesOf
<1>10. QED
  BY <1>8, <1>9

\* A base that moves from b to c over the places O skips the rest of them.
Missed(a, b, S) == (a .. b - 1) \ S

\* What is missed when the base goes from b to c and r comes out, q having come out.
MissedGoesOn(a, b, c, q, r) ==
    /\ Missed(a, c, PlacesOf(q) \cup PlacesOf(r))
          = Missed(a, b, PlacesOf(q)) \cup Missed(b, c, PlacesOf(r))
    /\ Cardinality(Missed(a, c, PlacesOf(q) \cup PlacesOf(r)))
          = Cardinality(Missed(a, b, PlacesOf(q))) + (c - b) - Len(r)

LEMMA SkippedGrows ==
    ASSUME NEW d \in Int, NEW a \in Int, NEW b \in Int, NEW c \in Int, a <= b, b <= c,
           NEW q, NEW r, Stretch(q, d, b), Stretch(r, b, c)
    PROVE  MissedGoesOn(a, b, c, q, r)
<1> DEFINE Old == PlacesOf(q)
           O == PlacesOf(r)
<1>0. /\ Old \subseteq d .. b - 1
      /\ O \subseteq b .. c - 1 /\ IsFiniteSet(O) /\ Cardinality(O) = Len(r)
  BY StretchCount
<1> HIDE DEF Old, O
<1> DEFINE X == (a .. b - 1) \ Old
           Y == (b .. c - 1) \ O
<1>1. (a .. c - 1) \ (Old \cup O) = X \cup Y
  <2>1. \A x \in b .. c - 1 : x \notin Old
    BY <1>0
  <2>2. \A x \in O : x \notin a .. b - 1
    BY <1>0
  <2>3. a .. c - 1 = (a .. b - 1) \cup (b .. c - 1)
    OBVIOUS
  <2>4. QED
    BY <2>1, <2>2, <2>3
<1>2. /\ IsFiniteSet(a .. b - 1) /\ IsFiniteSet(b .. c - 1)
      /\ Cardinality(b .. c - 1) = c - b
  BY CountInterval
<1>3. IsFiniteSet(X)
  BY <1>2, FS_Difference
<1>4. IsFiniteSet(Y) /\ Cardinality(Y) = Cardinality(b .. c - 1) - Cardinality((b .. c - 1) \cap O)
  BY <1>2, FS_Difference
<1>5. (b .. c - 1) \cap O = O
  BY <1>0
<1>6. X \cap Y = {}
  OBVIOUS
<1>7. Cardinality(X \cup Y) = Cardinality(X) + Cardinality(Y) - Cardinality(X \cap Y)
  BY <1>3, <1>4, FS_Union
<1>8. Cardinality(X \cap Y) = 0
  BY <1>6, FS_EmptySet
<1>9. Cardinality(X) \in Nat /\ Cardinality(O) \in Nat
  BY <1>0, <1>3, FS_CardinalityType
<1>10. Cardinality(Y) = (c - b) - Cardinality(O)
  BY <1>2, <1>4, <1>5
<1> HIDE DEF X, Y
<1>11. Cardinality(X \cup Y) = Cardinality(X) + (c - b) - Cardinality(O)
  BY <1>7, <1>8, <1>9, <1>10
<1>12. QED
  BY <1>0, <1>1, <1>11 DEF MissedGoesOn, X, Y, Missed, Old, O

-----------------------------------------------------------------------------
(* What the loops pop, by place.                                           *)

\* A member is nearer to e than another exactly when its rank is lower.
LEMMA RankOrders ==
    ASSUME NEW e \in SeqNo, NEW S \in SUBSET SeqNo, NEW s \in S, NEW t \in S
    PROVE  /\ Cardinality(Nearer(S, s, e)) \in 0 .. Cardinality(S) - 1
           /\ Cardinality(Nearer(S, s, e)) < Cardinality(Nearer(S, t, e))
                <=> Ahead(s, e) < Ahead(t, e)
           /\ Cardinality(Nearer(S, s, e)) = Cardinality(Nearer(S, t, e)) => s = t
<1>1. \A q \in S : q \in SeqNo /\ Ahead(q, e) \in Int
  BY SeqArithmetic DEF SeqNo
<1>2. IsFiniteSet(S) /\ Cardinality(S) \in Nat
  BY SeqSetsFinite
<1>3. ASSUME NEW q \in S
      PROVE  /\ Nearer(S, q, e) \in SUBSET S /\ q \notin Nearer(S, q, e)
             /\ IsFiniteSet(Nearer(S, q, e)) /\ Cardinality(Nearer(S, q, e)) \in Nat
             /\ Cardinality(Nearer(S, q, e)) < Cardinality(S)
  <2>1. Nearer(S, q, e) \in SUBSET S /\ q \notin Nearer(S, q, e)
    BY <1>1 DEF Nearer
  <2>2. Nearer(S, q, e) \in SUBSET SeqNo
    BY <2>1
  <2>3. IsFiniteSet(Nearer(S, q, e)) /\ Cardinality(Nearer(S, q, e)) \in Nat
    BY <2>2, SeqSetsFinite
  <2>4. /\ Cardinality(Nearer(S, q, e)) <= Cardinality(S)
        /\ Cardinality(Nearer(S, q, e)) # Cardinality(S)
    BY <1>2, <2>1, FS_Subset
  <2>5. QED
    BY <1>2, <2>1, <2>3, <2>4
<1>4. ASSUME NEW q \in S, NEW r \in S, Ahead(q, e) < Ahead(r, e)
      PROVE  Cardinality(Nearer(S, q, e)) < Cardinality(Nearer(S, r, e))
  <2>1. Nearer(S, q, e) \in SUBSET Nearer(S, r, e) /\ q \in Nearer(S, r, e)
    <3>1. \A x \in S : Ahead(x, e) < Ahead(q, e) => Ahead(x, e) < Ahead(r, e)
      BY <1>1, <1>4
    <3>2. QED
      BY <1>4, <3>1 DEF Nearer
  <2>2. /\ Cardinality(Nearer(S, q, e)) <= Cardinality(Nearer(S, r, e))
        /\ Cardinality(Nearer(S, q, e)) = Cardinality(Nearer(S, r, e))
             => Nearer(S, r, e) = Nearer(S, q, e)
    BY <1>3, <2>1, FS_Subset
  <2>3. Cardinality(Nearer(S, q, e)) # Cardinality(Nearer(S, r, e))
    BY <1>3, <2>1, <2>2
  <2>4. QED
    BY <1>3, <2>2, <2>3
<1>5. Ahead(s, e) = Ahead(t, e) => s = t
  BY <1>1, SeqArithmetic
<1>6. /\ Cardinality(Nearer(S, s, e)) \in Nat /\ Cardinality(Nearer(S, t, e)) \in Nat
      /\ Cardinality(Nearer(S, s, e)) < Cardinality(S)
      /\ Ahead(s, e) \in Int /\ Ahead(t, e) \in Int
  BY <1>1, <1>3
<1>7. /\ Ahead(s, e) < Ahead(t, e) => Cardinality(Nearer(S, s, e)) < Cardinality(Nearer(S, t, e))
      /\ Ahead(t, e) < Ahead(s, e) => Cardinality(Nearer(S, t, e)) < Cardinality(Nearer(S, s, e))
  BY <1>4
<1>8. QED
  BY <1>2, <1>5, <1>6, <1>7

\* buf keeps the payloads of S at their places, counted from c on, and below n.
Placed(buf, S, e, c, n) == \A s \in S : buf[s] = c + Ahead(s, e) /\ Ahead(s, e) < n

\* InOrder of a buffer that keeps a payload at its place is a stretch of the
\* places asked for.
LEMMA InOrderPlaces ==
    ASSUME NEW e \in SeqNo, NEW buf, NEW S \in SUBSET SeqNo, NEW c \in Int, NEW n \in Int,
           Placed(buf, S, e, c, n)
    PROVE  /\ Stretch(InOrder(e, buf, S), c, c + n)
           /\ Len(InOrder(e, buf, S)) = Cardinality(S)
           /\ PlacesOf(InOrder(e, buf, S)) = {buf[s] : s \in S}
<1> DEFINE k == Cardinality(S)
           f == InOrder(e, buf, S)
           at(i) == CHOOSE s \in S : Cardinality({t \in S : Ahead(t, e) < Ahead(s, e)}) = i - 1
<1>1. k \in Nat
  BY SeqSetsFinite
<1>2. \A s \in S : Ahead(s, e) \in Nat
  BY <1>1, SeqArithmetic DEF SeqNo
<1>3. ASSUME NEW i \in 1 .. k
      PROVE  at(i) \in S /\ Cardinality(Nearer(S, at(i), e)) = i - 1
  <2>1. i - 1 \in 0 .. k - 1
    BY <1>1
  <2>2. \E s \in S : Cardinality(Nearer(S, s, e)) = i - 1
    BY <1>1, <2>1, RankExists
  <2>3. QED
    BY <2>2 DEF Nearer
<1>4. f = [i \in 1 .. k |-> buf[at(i)]]
  BY DEF InOrder
<1> HIDE DEF at, f
<1>5. \A i \in 1 .. k : /\ f[i] = c + Ahead(at(i), e)
                        /\ f[i] \in Int /\ c <= f[i] /\ f[i] < c + n
  <2>1. TAKE i \in 1 .. k
  <2>2. f[i] = buf[at(i)] /\ at(i) \in S
    BY <1>3, <1>4
  <2>3. f[i] = c + Ahead(at(i), e) /\ Ahead(at(i), e) \in Nat /\ Ahead(at(i), e) < n
    BY <1>2, <2>2 DEF Placed
  <2>4. QED
    BY <2>3
<1>6. f \in Seq(Int) /\ Len(f) = k
  <2>1. f \in [1 .. k -> Int]
    BY <1>4, <1>5
  <2>2. QED
    BY <1>1, <2>1, LenOfSeqFcn
<1>7. \A i, j \in 1 .. k : i < j => f[i] < f[j]
  <2>1. TAKE i, j \in 1 .. k
  <2>2. HAVE i < j
  <2>3. /\ at(i) \in S /\ Cardinality(Nearer(S, at(i), e)) = i - 1
        /\ at(j) \in S /\ Cardinality(Nearer(S, at(j), e)) = j - 1
    BY <1>3
  <2>4. i - 1 < j - 1
    BY <2>2
  <2>5. Ahead(at(i), e) < Ahead(at(j), e)
    BY <1>1, <2>3, <2>4, RankOrders
  <2>6. Ahead(at(i), e) \in Int /\ Ahead(at(j), e) \in Int
    BY <1>2, <2>3
  <2>7. QED
    BY <1>5, <2>5, <2>6
<1>8. \A s \in S : \E i \in 1 .. k : f[i] = buf[s]
  <2>1. TAKE s \in S
  <2>2. Cardinality(Nearer(S, s, e)) \in 0 .. k - 1
    BY <1>1, RankOrders
  <2> DEFINE i == Cardinality(Nearer(S, s, e)) + 1
  <2>3. i \in 1 .. k /\ i - 1 = Cardinality(Nearer(S, s, e))
    BY <1>1, <2>2
  <2> HIDE DEF i
  <2>4. at(i) \in S /\ Cardinality(Nearer(S, at(i), e)) = Cardinality(Nearer(S, s, e))
    BY <1>3, <2>3
  <2>5. at(i) = s
    BY <1>1, <2>4, RankOrders
  <2>6. f[i] = buf[s]
    BY <1>4, <2>3, <2>5
  <2>7. QED
    BY <2>3, <2>6
<1>9. \A i \in 1 .. k : \E s \in S : f[i] = buf[s]
  BY <1>3, <1>4
<1>10. PlacesOf(f) = {buf[s] : s \in S}
  BY <1>6, <1>8, <1>9 DEF PlacesOf
<1>11. Stretch(f, c, c + n)
  BY <1>5, <1>6, <1>7 DEF Stretch
<1>12. QED
  BY <1>6, <1>10, <1>11 DEF f

\* A drain pops what lies within its own length of the base.
LEMMA RunIsFront ==
    ASSUME NEW e \in SeqNo, NEW held \in SUBSET SeqNo
    PROVE  LET run == Run(e, held)
           IN  /\ run \in SUBSET held
               /\ Cardinality(run) \in 0 .. SeqMod
               /\ \A t \in SeqNo : t \in run <=> Ahead(t, e) < Cardinality(run)
<1> DEFINE run == Run(e, held)
           k == Cardinality(run)
<1>1. run \in SUBSET held /\ run \in SUBSET SeqNo
  BY DEF Run
<1>2. \A t \in SeqNo : Ahead(t, e) \in 0 .. SeqMod - 1
  BY SeqArithmetic DEF SeqNo
<1>3. SeqMod \in Nat
  BY SizesAssumption
<1>4. k \in Nat
  BY <1>1, SeqSetsFinite
<1>5. CASE run = {}
  <2>1. k = 0
    BY <1>5, FS_EmptySet
  <2>2. \A t \in SeqNo : ~(Ahead(t, e) < 0)
    BY <1>2, <1>3
  <2>3. QED
    BY <1>1, <1>3, <1>5, <2>1, <2>2
<1>6. CASE run # {}
  <2> DEFINE hi == HiAhead(e, run)
  <2>1. /\ \E s \in run : Ahead(s, e) = hi
        /\ \A s \in run : Ahead(s, e) <= hi
        /\ hi \in 0 .. SeqMod - 1
    BY <1>1, <1>6, HiAheadIsMax DEF SeqNo
  <2> HIDE DEF hi
  <2>2. \A t \in SeqNo : Ahead(t, e) <= hi => t \in run
    <3>1. PICK s \in run : Ahead(s, e) = hi
      BY <2>1
    <3>2. \A t \in SeqNo : Ahead(t, e) <= hi => t \in held
      BY <3>1 DEF Run
    <3>3. TAKE t \in SeqNo
    <3>4. HAVE Ahead(t, e) <= hi
    <3>5. \A u \in SeqNo : Ahead(u, e) <= Ahead(t, e) => Ahead(u, e) <= hi
      BY <1>2, <1>3, <2>1, <3>4
    <3>6. QED
      BY <3>2, <3>4, <3>5 DEF Run
  <2>3. \A t \in SeqNo : t \in run <=> Ahead(t, e) <= hi
    BY <2>1, <2>2
  <2> DEFINE d == [s \in run |-> Ahead(s, e)]
  <2>4. d \in [run -> 0 .. hi]
    BY <1>1, <1>2, <1>3, <2>1
  <2>5. \A s, t \in run : d[s] = d[t] => s = t
    BY <1>1, SeqArithmetic
  <2>6. \A n \in 0 .. hi : \E s \in run : d[s] = n
    <3>1. TAKE n \in 0 .. hi
    <3>2. n \in 0 .. SeqMod - 1 /\ n \in 0 .. SeqMod /\ n <= hi
      BY <1>3, <2>1
    <3>3. Plus(e, n) \in SeqNo /\ Ahead(Plus(e, n), e) = n
      BY <3>2, SeqArithmetic
    <3>4. Plus(e, n) \in run
      BY <2>3, <3>2, <3>3
    <3>5. QED
      BY <3>3, <3>4
  <2>7. d \in Injection(run, 0 .. hi) /\ d \in Surjection(run, 0 .. hi)
    BY <2>4, <2>5, <2>6, Fun_IsInj, Fun_IsSurj
  <2>8. IsFiniteSet(0 .. hi) /\ Cardinality(0 .. hi) = hi + 1
    <3>1. hi + 1 \in Int /\ 0 <= hi + 1 /\ (hi + 1) - 1 = hi /\ (hi + 1) - 0 = hi + 1
      BY <1>3, <2>1
    <3>2. /\ IsFiniteSet(0 .. (hi + 1) - 1)
          /\ Cardinality(0 .. (hi + 1) - 1) = (hi + 1) - 0
      BY <3>1, CountInterval
    <3>3. QED
      BY <3>1, <3>2
  <2>9. k = hi + 1
    BY <2>7, <2>8, FS_Injection
  <2>10. \A t \in SeqNo : Ahead(t, e) <= hi <=> Ahead(t, e) < hi + 1
    BY <1>2, <1>3, <2>1
  <2> HIDE DEF run
  <2>11. k \in 0 .. SeqMod
    BY <1>3, <2>1, <2>9
  <2>12. QED
    BY <1>1, <2>3, <2>9, <2>10, <2>11 DEF run
<1>7. QED
  BY <1>5, <1>6

\* buf keeps the payloads of D at their places, counted from c on.
PlacedFrom(buf, D, e, c) == \A t \in D : buf[t] = c + Ahead(t, e)

\* The drain of a buffer that keeps a payload at its place.
LEMMA DrainPlaces ==
    ASSUME NEW e \in SeqNo, NEW D \in SUBSET SeqNo, NEW buf, NEW c \in Int,
           PlacedFrom(buf, D, e, c)
    PROVE  LET run == Run(e, D)
               k   == Cardinality(run)
               q   == InOrder(e, buf, run)
           IN  /\ run \in SUBSET D /\ k \in 0 .. SeqMod
               /\ Stretch(q, c, c + k) /\ Len(q) = k
               /\ PlacesOf(q) = {buf[t] : t \in run}
               /\ \A t \in D : t \in run <=> buf[t] < c + k
               /\ k > 0 => \E t \in D : buf[t] = c + k - 1
<1> DEFINE run == Run(e, D)
           k == Cardinality(run)
<1>1. /\ run \in SUBSET D /\ k \in 0 .. SeqMod /\ k \in Int
      /\ \A t \in SeqNo : t \in run <=> Ahead(t, e) < k
  <2>1. /\ run \in SUBSET D /\ k \in 0 .. SeqMod
        /\ \A t \in SeqNo : t \in run <=> Ahead(t, e) < k
    BY RunIsFront
  <2>2. QED
    BY <2>1
<1> HIDE DEF run, k
<1>2. Placed(buf, run, e, c, k)
  BY <1>1 DEF Placed, PlacedFrom
<1>3. /\ Stretch(InOrder(e, buf, run), c, c + k)
      /\ Len(InOrder(e, buf, run)) = Cardinality(run)
      /\ PlacesOf(InOrder(e, buf, run)) = {buf[t] : t \in run}
  <2>1. run \in SUBSET SeqNo /\ k \in Int
    BY <1>1
  <2>2. QED
    BY <1>2, <2>1, InOrderPlaces
<1>4. \A t \in D : t \in run <=> buf[t] < c + k
  <2>1. \A t \in D : t \in SeqNo /\ Ahead(t, e) \in Int
    BY SeqArithmetic DEF SeqNo
  <2>2. QED
    BY <1>1, <2>1 DEF PlacedFrom
<1>5. ASSUME k > 0
      PROVE  \E t \in D : buf[t] = c + k - 1
  <2>1. k - 1 \in 0 .. SeqMod - 1 /\ k - 1 \in 0 .. SeqMod /\ k - 1 < k
    BY <1>1, <1>5, SizesAssumption
  <2>2. Plus(e, k - 1) \in SeqNo /\ Ahead(Plus(e, k - 1), e) = k - 1
    BY <2>1, SeqArithmetic
  <2>3. Plus(e, k - 1) \in D
    BY <1>1, <2>1, <2>2
  <2>4. buf[Plus(e, k - 1)] = c + (k - 1)
    BY <2>2, <2>3 DEF PlacedFrom
  <2>5. QED
    BY <1>1, <2>3, <2>4
<1>6. QED
  BY <1>1, <1>3, <1>4, <1>5 DEF run, k

\* The walk over such a buffer.
LEMMA WalkPlaces ==
    ASSUME NEW e \in SeqNo, NEW D \in SUBSET SeqNo, NEW buf, NEW c \in Int, NEW n \in Nat,
           PlacedFrom(buf, D, e, c)
    PROVE  LET passed == Passed(e, D, n)
               q      == InOrder(e, buf, passed)
           IN  /\ passed \in SUBSET D
               /\ Stretch(q, c, c + n) /\ Len(q) = Cardinality(passed)
               /\ PlacesOf(q) = {buf[t] : t \in passed}
               /\ \A t \in D : t \in passed <=> buf[t] < c + n
<1> DEFINE passed == Passed(e, D, n)
<1>1. passed \in SUBSET D /\ \A t \in D : t \in passed <=> Ahead(t, e) < n
  BY DEF Passed
<1> HIDE DEF passed
<1>2. Placed(buf, passed, e, c, n)
  BY <1>1 DEF Placed, PlacedFrom
<1>3. /\ Stretch(InOrder(e, buf, passed), c, c + n)
      /\ Len(InOrder(e, buf, passed)) = Cardinality(passed)
      /\ PlacesOf(InOrder(e, buf, passed)) = {buf[t] : t \in passed}
  <2>1. passed \in SUBSET SeqNo /\ n \in Int
    BY <1>1
  <2>2. QED
    BY <1>2, <2>1, InOrderPlaces
<1>4. \A t \in D : t \in passed <=> buf[t] < c + n
  <2>1. \A t \in D : t \in SeqNo /\ Ahead(t, e) \in Int
    BY SeqArithmetic DEF SeqNo
  <2>2. QED
    BY <1>1, <2>1 DEF PlacedFrom
<1>5. QED
  BY <1>1, <1>3, <1>4 DEF passed

\* Numbers that run on from q: at places u and v after it, their distance is
\* that of the places, or beyond the half when it is behind.
LEMMA PlaceArithmetic ==
    ASSUME NEW q \in SeqNo, NEW u \in 0 .. GapFloor, NEW v \in 0 .. GapFloor
    PROVE  /\ u >= v => Ahead(Plus(q, u), Plus(q, v)) = u - v
           /\ u < v => Ahead(Plus(q, u), Plus(q, v)) >= Half
<1>1. /\ SeqMod \in Nat /\ GapFloor \in Nat /\ GapFloor < Half /\ Half + Half = SeqMod
      /\ q \in Nat /\ q < SeqMod /\ u \in Nat /\ v \in Nat /\ u <= GapFloor /\ v <= GapFloor
  BY SizesAssumption DEF SeqNo
<1>2. Half \in Int
  BY <1>1 DEF Half
<1> HIDE DEF Half
<1>3. QED
  BY <1>1, <1>2 DEF Plus, Ahead

-----------------------------------------------------------------------------
(* The inductive invariant of the stream.                                  *)

\* What the theorems ask of the path: it spares the RESTART datagrams, and it
\* copies only where the client has no reorder buffer.
PlainPath == RestartIntact /\ CopyWindows \subseteq {0}

\* Datagram b began the numbering that is in use, and what is in flight is of it.
Baseline(b) ==
    /\ \A i \in b .. Len(sent) : /\ sent[i].seq = Plus(sent[b].seq, i - b)
                                 /\ i # b => ~sent[i].restart
    /\ \A i \in InFlight : b <= i

\* The receiver still has the baseline before it: the RESTART is under way ...
Announced(b) ==
    /\ sent[b].restart /\ net[b] = 1 /\ first < b
    /\ first # 0 => BaseDatagram <= b

\* ... or it has taken this one, or none yet.
Settled(b) ==
    /\ first = 0 => ~sent[b].restart
    /\ first # 0 => b <= first
    /\ sent[b].restart => net[b] = 0

PathTypes ==
    /\ sent \in Seq([seq : SeqNo, restart : BOOLEAN]) /\ Len(sent) <= MaxSent
    /\ net \in [Payload -> Nat]
    /\ \A i \in Payload : i > Len(sent) => net[i] = 0
    /\ arrived \subseteq Datagram
    /\ window \notin CopyWindows =>
          \A i \in Datagram : net[i] <= 1 /\ (i \in arrived => net[i] = 0)
    /\ ended => InFlight = {} /\ Len(sent) = MaxSent /\ Held = {}

Numbering ==
    sent # <<>> => \E b \in Datagram : Baseline(b) /\ (Announced(b) \/ Settled(b))

PathIInv == PathTypes /\ Numbering

\* The buffer keeps datagrams that came, each under its number, from the base on.
HeldInPlace ==
    \A s \in Held : /\ pending[s] \in arrived /\ pending[s] >= BaseDatagram
                    /\ sent[pending[s]].seq = s

BaseIInv ==
    /\ expected = None <=> first = 0
    /\ first = 0 => /\ delivered = <<>> /\ arrived = {}
                    /\ stats.missing = 0 /\ missingAtFirst = 0
    /\ first # 0 => /\ first \in Datagram
                    /\ BaseDatagram \in first + 1 .. Len(sent) + 1
                    /\ Stretch(delivered, 1, BaseDatagram)
    /\ HeldInPlace
    /\ missingAtFirst \in Nat /\ MissingIsExact
    /\ stats.received = Len(delivered)

StreamIInv == IInv /\ PathIInv /\ BaseIInv

LEMMA StreamSizes ==
    /\ MaxSent \in Nat /\ MaxSent <= GapFloor /\ GapFloor \in Nat
    /\ Payload = 1 .. MaxSent
    /\ SeqMod \in Nat /\ GapFloor < SeqMod - 1 /\ 1 < SeqMod
<1>1. GapFloor < SeqMod - 1
  BY SizesAssumption DEF Half
<1>2. QED
  BY <1>1, SizesAssumption, StreamAssumption

LEMMA StreamInitHolds == StreamInit => StreamIInv
<1> SUFFICES ASSUME StreamInit PROVE StreamIInv
  OBVIOUS
<1>1. IInv
  BY InitHolds DEF StreamInit
<1>2. /\ sent = <<>> /\ net = [i \in Payload |-> 0] /\ arrived = {} /\ delivered = <<>>
      /\ first = 0 /\ missingAtFirst = 0 /\ ended = FALSE /\ Init
  BY DEF StreamInit
<1>3. Len(sent) = 0 /\ Datagram = {}
  BY <1>2 DEF Datagram
<1>4. PathIInv
  BY <1>2, <1>3, StreamSizes DEF PathIInv, PathTypes, Numbering
<1>5. Held = {} /\ expected = None /\ stats.missing = 0 /\ stats.received = 0
  BY <1>2 DEF Init, Held, Empty, Counters
<1>6. Skipped = {} /\ Cardinality({}) = 0
  BY <1>2, FS_EmptySet DEF Skipped
<1>7. MissingIsExact
  BY <1>2, <1>5, <1>6 DEF MissingIsExact
<1>8. stats.received = Len(delivered)
  BY <1>2, <1>5
<1>9. BaseIInv
  BY <1>2, <1>5, <1>7, <1>8 DEF BaseIInv, HeldInPlace
<1>10. QED
  BY <1>1, <1>4, <1>9 DEF StreamIInv

LEMMA StreamTypes ==
    ASSUME IInv, PathIInv
    PROVE  /\ Len(sent) \in Nat /\ Len(sent) <= MaxSent
           /\ Datagram = 1 .. Len(sent) /\ Datagram \subseteq Payload
           /\ InFlight \subseteq Datagram
           /\ \A i \in Datagram : sent[i].seq \in SeqNo /\ sent[i].restart \in BOOLEAN
           /\ \A i \in Payload : net[i] \in Nat
           /\ Held \subseteq SeqNo /\ pending \in [Held -> Payload]
           /\ stats \in [Counters -> Nat] /\ window \in Nat
<1>1. sent \in Seq([seq : SeqNo, restart : BOOLEAN]) /\ Len(sent) <= MaxSent
      /\ net \in [Payload -> Nat]
  BY DEF PathIInv, PathTypes
<1>2. Len(sent) \in Nat
  BY <1>1
<1>3. Datagram = 1 .. Len(sent) /\ Datagram \subseteq Payload
  BY <1>1, <1>2, StreamSizes DEF Datagram
<1>4. \A i \in Datagram : sent[i] \in [seq : SeqNo, restart : BOOLEAN]
  <2> DEFINE S == [seq : SeqNo, restart : BOOLEAN]
  <2>1. sent \in Seq(S)
    BY <1>1
  <2> HIDE DEF S
  <2>2. \A i \in 1 .. Len(sent) : sent[i] \in S
    BY <2>1
  <2>3. QED
    BY <1>3, <2>2 DEF S
<1>5. \A i \in Datagram : sent[i].seq \in SeqNo /\ sent[i].restart \in BOOLEAN
  BY <1>4
<1>6. InFlight \subseteq Datagram
  BY DEF InFlight
<1>7. Held \subseteq SeqNo /\ pending \in [Held -> Payload] /\ stats \in [Counters -> Nat]
  BY DEF IInv, TypeOK
<1>8. QED
  BY <1>1, <1>2, <1>3, <1>5, <1>6, <1>7, WindowRange

\* The expected number is that of the base.
LEMMA ExpectedAtBase ==
    ASSUME StreamIInv, first # 0
    PROVE  /\ expected \in SeqNo /\ expected # None
           /\ first \in Datagram /\ first \in Nat /\ sent[first].seq \in SeqNo
           /\ BaseDatagram \in Nat /\ first < BaseDatagram /\ BaseDatagram <= Len(sent) + 1
           /\ expected = Plus(sent[first].seq, BaseDatagram - first)
<1>1. IInv /\ PathIInv /\ BaseIInv
  BY DEF StreamIInv
<1>2. /\ expected # None /\ first \in Datagram
      /\ BaseDatagram \in first + 1 .. Len(sent) + 1
  BY <1>1 DEF BaseIInv
<1>3. expected \in SeqNo
  BY <1>1, <1>2 DEF IInv, TypeOK
<1>4. sent[first].seq \in SeqNo /\ first \in Nat /\ Len(sent) \in Nat
  BY <1>1, <1>2, StreamTypes
<1>5. Ahead(expected, sent[first].seq) \in SeqNo
  BY <1>3, <1>4, SeqArithmetic
<1>6. BaseDatagram - first = Ahead(expected, sent[first].seq)
  BY <1>4, <1>5 DEF BaseDatagram, SeqNo
<1>7. expected = Plus(sent[first].seq, Ahead(expected, sent[first].seq))
  BY <1>3, <1>4, SeqArithmetic
<1>8. BaseDatagram \in Nat /\ first < BaseDatagram /\ BaseDatagram <= Len(sent) + 1
  BY <1>2, <1>4
<1>9. QED
  BY <1>2, <1>3, <1>4, <1>6, <1>7, <1>8

\* Where the base is after it has moved on to c.
LEMMA BaseMoved ==
    ASSUME StreamIInv, first # 0, first' = first, sent' = sent,
           NEW c \in BaseDatagram .. Len(sent) + 1, expected' = Plus(expected, c - BaseDatagram)
    PROVE  BaseDatagram' = c
<1> DEFINE q == sent[first].seq
           m == BaseDatagram - first
           n == c - BaseDatagram
<1>1. /\ q \in SeqNo /\ first \in Nat
      /\ BaseDatagram \in Nat /\ first < BaseDatagram /\ BaseDatagram <= Len(sent) + 1
      /\ expected = Plus(q, m) /\ first \in Datagram
  BY ExpectedAtBase
<1>2. Len(sent) \in Nat /\ Len(sent) <= MaxSent /\ first >= 1
  BY <1>1, StreamTypes DEF StreamIInv
<1>3. m \in Nat /\ n \in Nat /\ m + n \in 0 .. SeqMod - 1 /\ m + n = c - first /\ m + n <= SeqMod
  BY <1>1, <1>2, StreamSizes
<1> HIDE DEF q, m, n
<1>4. expected' = Plus(Plus(q, m), n)
  BY <1>1 DEF n
<1>5. expected' = Plus(q, m + n)
  BY <1>1, <1>3, <1>4, PlusIsSum
<1>6. Ahead(expected', q) = m + n
  BY <1>1, <1>3, <1>5, SeqArithmetic
<1>7. BaseDatagram' = first + Ahead(expected', q)
  BY DEF BaseDatagram, q
<1>8. c \in Int
  BY <1>1, <1>2
<1>9. QED
  BY <1>1, <1>3, <1>6, <1>7, <1>8

\* Once the baseline is settled, a number tells how far its datagram is from
\* the base.
LEMMA Distances ==
    ASSUME StreamIInv, first # 0, NEW b \in Datagram, Baseline(b), Settled(b)
    PROVE  /\ \A i \in b .. Len(sent) :
                /\ i >= BaseDatagram => Ahead(sent[i].seq, expected) = i - BaseDatagram
                /\ i < BaseDatagram => Ahead(sent[i].seq, expected) >= Half
           /\ \A s \in Held : pending[s] = BaseDatagram + Ahead(s, expected)
           /\ b <= first
<1> DEFINE q == sent[b].seq
           B == BaseDatagram
<1>1. /\ first \in Nat /\ B \in Nat /\ first < B /\ B <= Len(sent) + 1
      /\ expected = Plus(sent[first].seq, B - first) /\ expected \in SeqNo
      /\ first \in Datagram
  BY ExpectedAtBase
<1>2. /\ Len(sent) \in Nat /\ Len(sent) <= MaxSent /\ Datagram = 1 .. Len(sent)
      /\ q \in SeqNo
  BY StreamTypes DEF StreamIInv
<1>3. b \in Nat /\ 1 <= b /\ b <= first /\ first <= Len(sent)
  BY <1>1, <1>2 DEF Settled
<1>4. \A i \in b .. Len(sent) : sent[i].seq = Plus(q, i - b)
  BY DEF Baseline
<1> HIDE DEF q, B
<1>5. expected = Plus(q, B - b)
  <2>1. sent[first].seq = Plus(q, first - b)
    BY <1>1, <1>3, <1>4
  <2>2. /\ first - b \in Nat /\ B - first \in Nat
        /\ (first - b) + (B - first) = B - b /\ (first - b) + (B - first) <= SeqMod
    BY <1>1, <1>2, <1>3, StreamSizes
  <2>3. Plus(Plus(q, first - b), B - first) = Plus(q, (first - b) + (B - first))
    BY <1>2, <2>2, PlusIsSum
  <2>4. QED
    BY <1>1, <2>1, <2>2, <2>3
<1>6. \A i \in b .. Len(sent) : /\ i >= B => Ahead(sent[i].seq, expected) = i - B
                                /\ i < B => Ahead(sent[i].seq, expected) >= Half
  <2>1. TAKE i \in b .. Len(sent)
  <2>2. sent[i].seq = Plus(q, i - b)
    BY <1>4
  <2>3. /\ i - b \in 0 .. GapFloor /\ B - b \in 0 .. GapFloor
        /\ (i - b) - (B - b) = i - B /\ (i >= B <=> i - b >= B - b)
        /\ (i < B <=> i - b < B - b)
    BY <1>1, <1>2, <1>3, StreamSizes
  <2>4. /\ i - b >= B - b => Ahead(Plus(q, i - b), Plus(q, B - b)) = (i - b) - (B - b)
        /\ i - b < B - b => Ahead(Plus(q, i - b), Plus(q, B - b)) >= Half
    BY <1>2, <2>3, PlaceArithmetic
  <2>5. QED
    BY <1>5, <2>2, <2>3, <2>4
<1>7. \A s \in Held : pending[s] = B + Ahead(s, expected)
  <2>1. TAKE s \in Held
  <2>2. pending[s] \in Datagram /\ pending[s] >= B /\ sent[pending[s]].seq = s
    BY DEF StreamIInv, BaseIInv, HeldInPlace, PathIInv, PathTypes, B
  <2>3. pending[s] \in b .. Len(sent)
    BY <1>1, <1>2, <1>3, <2>2
  <2>4. Ahead(s, expected) = pending[s] - B
    BY <1>6, <2>2, <2>3
  <2>5. pending[s] \in Int
    BY <1>2, <2>2
  <2>6. QED
    BY <1>1, <2>4, <2>5
<1>8. QED
  BY <1>3, <1>6, <1>7 DEF B

-----------------------------------------------------------------------------
(* A call that keeps the baseline moves the base.                          *)

\* The base moves on to place c, with the datagrams New put into the buffer:
\* what is in the buffer before c is returned, and what is behind c stays.
Moves(New, c) ==
    /\ c \in BaseDatagram .. Len(sent) + 1
    /\ first' = first /\ missingAtFirst' = missingAtFirst /\ sent' = sent
    /\ expected' = Plus(expected, c - BaseDatagram)
    /\ delivered' = delivered \o out'
    /\ Stretch(out', BaseDatagram, c)
    /\ PlacesOf(out') = {p \in HeldDatagrams \cup New : p < c}
    /\ stats'.missing = stats.missing + (c - BaseDatagram) - Len(out')
    /\ HeldDatagrams' = {p \in HeldDatagrams \cup New : p >= c}
    /\ \A s \in Held' : sent[pending'[s]].seq = s

LEMMA DeliveredPlaces == Delivered = PlacesOf(delivered)
  BY DEF Delivered, PlacesOf

LEMMA MoveKeeps ==
    ASSUME StreamIInv, first # 0, NEW New, NEW c, Moves(New, c),
           New \subseteq arrived', arrived \subseteq arrived',
           stats'.received - stats.received = Len(out'), stats' \in [Counters -> Nat]
    PROVE  /\ BaseIInv'
           /\ BaseDatagram' = c
           /\ Delivered' = Delivered \cup PlacesOf(out')
           /\ Skipped' = Skipped \cup Missed(BaseDatagram, c, PlacesOf(out'))
<1> DEFINE B == BaseDatagram
           O == PlacesOf(out')
<1>1. /\ first \in Nat /\ B \in Nat /\ first < B /\ B <= Len(sent) + 1
      /\ expected \in SeqNo /\ first \in Datagram
  BY ExpectedAtBase
<1>2. Len(sent) \in Nat /\ Len(sent) <= MaxSent /\ Datagram = 1 .. Len(sent)
  BY StreamTypes DEF StreamIInv
<1>3. /\ c \in B .. Len(sent) + 1 /\ first' = first /\ sent' = sent
      /\ missingAtFirst' = missingAtFirst
      /\ expected' = Plus(expected, c - B)
      /\ delivered' = delivered \o out' /\ Stretch(out', B, c)
      /\ O = {p \in HeldDatagrams \cup New : p < c}
      /\ stats'.missing = stats.missing + (c - B) - Len(out')
      /\ HeldDatagrams' = {p \in HeldDatagrams \cup New : p >= c}
      /\ \A s \in Held' : sent[pending'[s]].seq = s
  BY DEF Moves
<1>4. /\ c \in Nat /\ B <= c /\ c <= Len(sent) + 1 /\ first < c
  BY <1>1, <1>2, <1>3
<1>5. BaseDatagram' = c
  BY <1>3, BaseMoved
<1>6. BaseIInv /\ Stretch(delivered, 1, B) /\ missingAtFirst \in Nat
      /\ stats.missing - missingAtFirst = Cardinality(Missed(first, B, PlacesOf(delivered)))
      /\ stats.received = Len(delivered) /\ HeldInPlace
  BY DeliveredPlaces DEF Missed, StreamIInv, BaseIInv, MissingIsExact, Skipped
<1> HIDE DEF B, O
<1>7. expected' \in SeqNo /\ expected' # None
  <2>1. c - B \in 0 .. SeqMod
    BY <1>1, <1>2, <1>4, StreamSizes
  <2>2. Plus(expected, c - B) \in SeqNo
    BY <1>1, <2>1, SeqArithmetic
  <2>3. QED
    BY <1>3, <2>2, NoneIsNoSeqNo
<1>8. Stretch(delivered', 1, c) /\ PlacesOf(delivered') = PlacesOf(delivered) \cup O
  <2>1. 1 \in Int /\ B \in Int /\ c \in Int /\ 1 <= B /\ B <= c
    BY <1>1, <1>4
  <2>2. Stretch(delivered \o out', 1, c)
        /\ PlacesOf(delivered \o out') = PlacesOf(delivered) \cup PlacesOf(out')
    BY <1>3, <1>6, <2>1, StretchJoin
  <2>3. QED
    BY <1>3, <2>2 DEF O
<1>9. /\ O \subseteq B .. c - 1 /\ IsFiniteSet(O) /\ Cardinality(O) = Len(out')
      /\ PlacesOf(delivered) \subseteq 1 .. B - 1
  <2>1. B \in Int /\ c \in Int /\ 1 \in Int
    BY <1>1, <1>4
  <2>2. PlacesOf(delivered) \subseteq 1 .. B - 1
    BY <1>6, <2>1, StretchCount
  <2>3. O \subseteq B .. c - 1 /\ IsFiniteSet(O) /\ Cardinality(O) = Len(out')
    BY <1>3, <2>1, StretchCount DEF O
  <2>4. QED
    BY <2>2, <2>3
<1>10. /\ Missed(first, c, PlacesOf(delivered) \cup O)
            = Missed(first, B, PlacesOf(delivered)) \cup Missed(B, c, O)
       /\ Cardinality(Missed(first, c, PlacesOf(delivered) \cup O))
            = Cardinality(Missed(first, B, PlacesOf(delivered))) + (c - B) - Cardinality(O)
  <2>1. 1 \in Int /\ first \in Int /\ B \in Int /\ c \in Int /\ first <= B /\ B <= c
    BY <1>1, <1>4
  <2>2. Stretch(delivered, 1, B) /\ Stretch(out', B, c)
    BY <1>3, <1>6
  <2> DEFINE Old == PlacesOf(delivered)
  <2>3. MissedGoesOn(first, B, c, delivered, out')
    BY <2>1, <2>2, SkippedGrows
  <2>4. /\ Missed(first, c, Old \cup PlacesOf(out'))
             = Missed(first, B, Old) \cup Missed(B, c, PlacesOf(out'))
        /\ Cardinality(Missed(first, c, Old \cup PlacesOf(out')))
             = Cardinality(Missed(first, B, Old)) + (c - B) - Len(out')
    BY <2>3 DEF MissedGoesOn
  <2> HIDE DEF Old
  <2>5. QED
    BY <1>9, <2>4 DEF O, Old
<1>11. /\ Delivered' = Delivered \cup O
       /\ Skipped = Missed(first, B, PlacesOf(delivered))
       /\ Skipped' = Missed(first, c, PlacesOf(delivered) \cup O)
  <2>1. Delivered' = PlacesOf(delivered')
    BY DEF Delivered, PlacesOf
  <2>2. Skipped' = (first .. c - 1) \ Delivered'
    BY <1>1, <1>3, <1>5 DEF Skipped
  <2>3. QED
    BY <1>8, <2>1, <2>2, DeliveredPlaces DEF Skipped, B, Missed
<1>12. MissingIsExact'
  <2>1. stats.missing \in Nat /\ stats'.missing \in Nat /\ Len(out') \in Nat
    <3>1. stats \in [Counters -> Nat]
      BY StreamTypes DEF StreamIInv
    <3>2. out' \in Seq(Int)
      BY <1>3 DEF Stretch
    <3>3. QED
      BY <3>1, <3>2 DEF Counters
  <2>2. stats'.missing - missingAtFirst = (stats.missing - missingAtFirst) + (c - B) - Len(out')
    BY <1>1, <1>3, <1>4, <1>6, <2>1
  <2>3. stats'.missing - missingAtFirst = Cardinality(Skipped')
    BY <1>6, <1>9, <1>10, <1>11, <2>2
  <2>4. QED
    BY <1>3, <2>3 DEF MissingIsExact
<1>13. HeldInPlace'
  <2>1. HeldDatagrams \subseteq arrived
    BY <1>6 DEF HeldInPlace, HeldDatagrams
  <2>2. \A s \in Held' : pending'[s] \in HeldDatagrams'
    BY DEF HeldDatagrams
  <2>3. \A s \in Held' : pending'[s] \in arrived' /\ pending'[s] >= c
    BY <1>3, <2>1, <2>2
  <2>4. QED
    BY <1>3, <1>5, <2>3 DEF HeldInPlace
<1>14. stats'.received = Len(delivered')
  <2>1. stats.received \in Nat /\ stats'.received \in Nat
    <3>1. stats \in [Counters -> Nat]
      BY StreamTypes DEF StreamIInv
    <3>2. QED
      BY <3>1 DEF Counters
  <2>2. delivered \in Seq(Int) /\ out' \in Seq(Int)
    BY <1>3, <1>6 DEF Stretch
  <2>3. Len(delivered \o out') = Len(delivered) + Len(out') /\ Len(out') \in Nat
    BY <2>2
  <2>4. QED
    BY <1>3, <1>6, <2>1, <2>3
<1>15. first' \in Datagram' /\ BaseDatagram' \in first' + 1 .. Len(sent') + 1
  BY <1>1, <1>2, <1>3, <1>4, <1>5 DEF Datagram
<1>16. BaseIInv'
  BY <1>3, <1>5, <1>6, <1>7, <1>8, <1>12, <1>13, <1>14, <1>15 DEF BaseIInv
<1>17. QED
  BY <1>5, <1>10, <1>11, <1>16 DEF B, O

\* What a call that keeps the baseline does to the rest of the state.
Carries ==
    /\ first' = first /\ missingAtFirst' = missingAtFirst /\ sent' = sent
    /\ delivered' = delivered \o out'

\* buf is the buffer with the datagrams New put in, each under its number.
Buffer(D, buf, New) ==
    /\ {buf[t] : t \in D} = HeldDatagrams \cup New
    /\ PlacedFrom(buf, D, expected, BaseDatagram)
    /\ \A t \in D : sent[buf[t]].seq = t

LEMMA WalkMoves ==
    ASSUME StreamIInv, first # 0, Carries,
           NEW D \in SUBSET SeqNo, NEW buf \in [D -> Payload], NEW New, Buffer(D, buf, New),
           NEW n \in Nat, BaseDatagram + n <= Len(sent) + 1,
           NEW st \in [Counters -> Nat], st.missing = stats.missing, WalkBase(buf, n, st)
    PROVE  Moves(New, BaseDatagram + n)
<1> DEFINE B == BaseDatagram
           passed == Passed(expected, D, n)
           q == InOrder(expected, buf, passed)
           k == Cardinality(passed)
<1>1. B \in Nat /\ B \in Int /\ expected \in SeqNo
  BY ExpectedAtBase
<1>2. Len(sent) \in Nat /\ stats \in [Counters -> Nat]
  BY StreamTypes DEF StreamIInv
<1>3. /\ {buf[t] : t \in D} = HeldDatagrams \cup New
      /\ PlacedFrom(buf, D, expected, B)
      /\ \A t \in D : sent[buf[t]].seq = t
  BY DEF Buffer
<1>4. DOMAIN buf = D
  OBVIOUS
<1>5. /\ expected' = Plus(expected, n) /\ pending' = Without(buf, passed) /\ out' = q
      /\ stats' = [st EXCEPT !.received = @ + k, !.missing = @ + (n - k)]
  BY <1>4 DEF WalkBase
<1> HIDE DEF B
<1>6. /\ passed \in SUBSET D
      /\ Stretch(q, B, B + n) /\ Len(q) = k
      /\ PlacesOf(q) = {buf[t] : t \in passed}
      /\ \A t \in D : t \in passed <=> buf[t] < B + n
  BY <1>1, <1>3, WalkPlaces
<1> HIDE DEF passed, q
<1>7. /\ Held' = D \ passed
      /\ \A t \in D \ passed : pending'[t] = buf[t]
  BY <1>4, <1>5 DEF Without, Restrict, Held
<1>8. \A t \in D : buf[t] \in Int
  BY StreamSizes
<1>9. PlacesOf(out') = {p \in HeldDatagrams \cup New : p < B + n}
  BY <1>3, <1>5, <1>6
<1>10. HeldDatagrams' = {p \in HeldDatagrams \cup New : p >= B + n}
  <2>1. HeldDatagrams' = {buf[t] : t \in D \ passed}
    BY <1>7 DEF HeldDatagrams
  <2>2. \A t \in D : t \notin passed <=> buf[t] >= B + n
    BY <1>1, <1>6, <1>8
  <2>3. QED
    BY <1>3, <2>1, <2>2
<1>11. \A s \in Held' : sent[pending'[s]].seq = s
  BY <1>3, <1>7
<1>12. stats'.missing = stats.missing + n - Len(out')
  <2>1. k \in Nat
    <3>1. passed \in SUBSET SeqNo
      BY <1>6
    <3>2. QED
      BY <3>1, SeqSetsFinite DEF k
  <2>2. stats'.missing = st.missing + (n - k)
    BY <1>5 DEF Counters
  <2>3. st.missing \in Nat
    BY DEF Counters
  <2>4. QED
    BY <1>5, <1>6, <2>1, <2>2, <2>3
<1>13. (B + n) - B = n /\ B + n \in B .. Len(sent) + 1
  BY <1>1, <1>2 DEF B
<1>14. QED
  BY <1>5, <1>6, <1>9, <1>10, <1>11, <1>12, <1>13 DEF Moves, Carries, B

LEMMA AheadOfNext ==
    ASSUME NEW e \in SeqNo, NEW t \in SeqNo, t # e
    PROVE  Plus(e, 1) \in SeqNo /\ Ahead(t, Plus(e, 1)) = Ahead(t, e) - 1
  BY SizesAssumption DEF SeqNo, Plus, Ahead

\* The datagram at the base, with its drain.
LEMMA AcceptMoves ==
    ASSUME StreamIInv, first # 0, Carries,
           Buffer(Held, pending, {}), expected \notin Held, BaseDatagram \in Datagram,
           Accept(BaseDatagram, expected, pending, stats)
    PROVE  \E c \in Int : /\ Moves({BaseDatagram}, c)
                          /\ c > BaseDatagram /\ Len(out') = c - BaseDatagram
<1> DEFINE B == BaseDatagram
           base == Plus(expected, 1)
           run == Run(base, Held)
           q == InOrder(base, pending, run)
           k == Cardinality(run)
           c == B + 1 + k
<1>1. B \in Nat /\ B \in Int /\ expected \in SeqNo
  BY ExpectedAtBase
<1>2. /\ Len(sent) \in Nat /\ stats \in [Counters -> Nat] /\ Held \in SUBSET SeqNo
      /\ pending \in [Held -> Payload] /\ Datagram = 1 .. Len(sent)
  BY StreamTypes DEF StreamIInv
<1>3. /\ {pending[t] : t \in Held} = HeldDatagrams
      /\ \A t \in Held : pending[t] = B + Ahead(t, expected)
      /\ \A t \in Held : sent[pending[t]].seq = t
  BY DEF Buffer, HeldDatagrams, PlacedFrom
<1>4. /\ expected' = Plus(base, k) /\ pending' = Without(pending, run) /\ out' = <<B>> \o q
      /\ stats' = [stats EXCEPT !.received = @ + 1 + k]
  BY DEF Accept, Held
<1> HIDE DEF B
<1>5. base \in SeqNo /\ PlacedFrom(pending, Held, base, B + 1)
  <2>1. Plus(expected, 1) \in SeqNo
    BY <1>1, SeqArithmetic, SizesAssumption
  <2>2. \A t \in Held : /\ Ahead(t, expected) \in Int
                        /\ Ahead(t, base) = Ahead(t, expected) - 1
    BY <1>1, <1>2, AheadOfNext, SeqArithmetic DEF SeqNo
  <2>3. QED
    BY <1>1, <1>3, <2>1, <2>2 DEF PlacedFrom
<1> HIDE DEF base
<1>6. /\ run \in SUBSET Held /\ k \in 0 .. SeqMod
      /\ Stretch(q, B + 1, (B + 1) + k) /\ Len(q) = k
      /\ PlacesOf(q) = {pending[t] : t \in run}
      /\ \A t \in Held : t \in run <=> pending[t] < (B + 1) + k
      /\ k > 0 => \E t \in Held : pending[t] = (B + 1) + k - 1
  <2>1. B + 1 \in Int
    BY <1>1
  <2>2. QED
    BY <1>2, <1>5, <2>1, DrainPlaces
<1>7. /\ Held' = Held \ run
      /\ \A t \in Held \ run : pending'[t] = pending[t]
  <2>1. DOMAIN pending = Held
    BY DEF Held
  <2>2. QED
    BY <1>4, <2>1 DEF Without, Restrict, Held
<1> HIDE DEF run, q, k
<1>8. k \in Nat /\ c \in Nat /\ c > B /\ c - B = 1 + k /\ (B + 1) + k = c
  BY <1>1, <1>6
<1>9. c <= Len(sent) + 1
  <2>1. CASE k = 0
    BY <1>1, <1>2, <2>1 DEF B
  <2>2. CASE k > 0
    <3>1. PICK t \in Held : pending[t] = (B + 1) + k - 1
      BY <1>6, <2>2
    <3>2. pending[t] \in Datagram
      BY DEF StreamIInv, PathIInv, PathTypes, BaseIInv, HeldInPlace
    <3>3. QED
      BY <1>1, <1>2, <1>8, <3>1, <3>2
  <2>3. QED
    BY <1>8, <2>1, <2>2
<1>10. Stretch(out', B, c) /\ PlacesOf(out') = {B} \cup PlacesOf(q) /\ Len(out') = 1 + k
  <2>1. Stretch(<<B>>, B, B + 1) /\ PlacesOf(<<B>>) = {B}
    BY <1>1, SingleStretch
  <2>2. Stretch(q, B + 1, c)
    BY <1>6, <1>8
  <2>3. B + 1 \in Int /\ c \in Int /\ B <= B + 1 /\ B + 1 <= c
    BY <1>1, <1>8
  <2> HIDE DEF c
  <2>4. Stretch(<<B>> \o q, B, c) /\ PlacesOf(<<B>> \o q) = PlacesOf(<<B>>) \cup PlacesOf(q)
    BY <1>1, <2>1, <2>2, <2>3, StretchJoin
  <2>5. q \in Seq(Int) /\ <<B>> \in Seq(Int) /\ Len(<<B>>) = 1
    BY <1>1, <2>2 DEF Stretch
  <2>6. Len(<<B>> \o q) = 1 + k
    BY <1>6, <2>5
  <2>7. QED
    BY <1>4, <2>1, <2>4, <2>6
<1>11. \A t \in Held : pending[t] \in Int /\ pending[t] # B
  <2>1. \A t \in Held : pending[t] = (B + 1) + Ahead(t, base)
    BY <1>5 DEF PlacedFrom
  <2>2. \A t \in Held : Ahead(t, base) \in Nat
    BY <1>2, <1>5, SeqArithmetic DEF SeqNo
  <2>3. QED
    BY <1>1, <2>1, <2>2
<1>12. PlacesOf(out') = {p \in HeldDatagrams \cup {B} : p < c}
  BY <1>3, <1>6, <1>8, <1>10
<1>13. HeldDatagrams' = {p \in HeldDatagrams \cup {B} : p >= c}
  <2>1. HeldDatagrams' = {pending[t] : t \in Held \ run}
    BY <1>7 DEF HeldDatagrams
  <2>2. \A t \in Held : t \notin run <=> pending[t] >= c
    BY <1>6, <1>8, <1>11
  <2>3. ~(B >= c)
    BY <1>1, <1>8
  <2>4. QED
    BY <1>3, <2>1, <2>2, <2>3
<1>14. expected' = Plus(expected, c - B)
  <2>1. 1 + k <= SeqMod
    <3>1. k <= Len(sent)
      BY <1>1, <1>2, <1>8, <1>9
    <3>2. Len(sent) <= MaxSent
      BY StreamTypes DEF StreamIInv
    <3>3. QED
      BY <1>2, <1>8, <3>1, <3>2, StreamSizes
  <2>2. Plus(Plus(expected, 1), k) = Plus(expected, 1 + k)
    BY <1>1, <1>8, <2>1, PlusIsSum
  <2>3. QED
    BY <1>4, <1>8, <2>2 DEF base
<1>15. stats'.missing = stats.missing + (c - B) - Len(out')
  <2>1. stats'.missing = stats.missing /\ stats.missing \in Nat
    BY <1>2, <1>4 DEF Counters
  <2>2. QED
    BY <1>8, <1>10, <2>1
<1>16. \A s \in Held' : sent[pending'[s]].seq = s
  BY <1>3, <1>7
<1>17. c \in B .. Len(sent) + 1 /\ Len(out') = c - B
  BY <1>1, <1>2, <1>8, <1>9, <1>10
<1> HIDE DEF c
<1>18. Moves({B}, c)
  BY <1>10, <1>12, <1>13, <1>14, <1>15, <1>16, <1>17 DEF Moves, Carries, B
<1>19. QED
  BY <1>8, <1>17, <1>18 DEF B

\* The buffer itself is such a buffer.
LEMMA BufferHolds ==
    ASSUME StreamIInv, first # 0, NEW b \in Datagram, Baseline(b), Settled(b)
    PROVE  Buffer(Held, pending, {})
<1>1. {pending[t] : t \in Held} = HeldDatagrams \cup {}
  BY DEF HeldDatagrams
<1>2. PlacedFrom(pending, Held, expected, BaseDatagram)
  BY Distances DEF PlacedFrom
<1>3. \A t \in Held : sent[pending[t]].seq = t
  BY DEF StreamIInv, BaseIInv, HeldInPlace
<1>4. QED
  BY <1>1, <1>2, <1>3 DEF Buffer

\* A call that returns nothing and leaves the base and the buffer alone.
LEMMA StandStill ==
    ASSUME StreamIInv, first # 0, Carries, out' = <<>>, expected' = expected,
           pending' = pending, stats'.missing = stats.missing
    PROVE  Moves({}, BaseDatagram)
<1> DEFINE B == BaseDatagram
<1>1. /\ B \in Nat /\ B <= Len(sent) + 1 /\ expected \in SeqNo
      /\ Len(sent) \in Nat /\ stats.missing \in Nat
  <2>1. Len(sent) \in Nat /\ stats \in [Counters -> Nat]
    BY StreamTypes DEF StreamIInv
  <2>2. QED
    BY <2>1, ExpectedAtBase DEF Counters
<1> HIDE DEF B
<1>2. B \in B .. Len(sent) + 1 /\ B - B = 0 /\ stats.missing + 0 - 0 = stats.missing
  BY <1>1
<1>3. Plus(expected, 0) = expected
  BY <1>1, SizesAssumption DEF Plus, SeqNo
<1>4. Stretch(<<>>, B, B) /\ PlacesOf(<<>>) = {} /\ Len(<<>>) = 0
  <2>1. B \in Int
    BY <1>1
  <2>2. QED
    BY <2>1, EmptyStretch
<1>5. HeldDatagrams' = HeldDatagrams /\ Held' = Held
  BY DEF HeldDatagrams, Held
<1>6. /\ \A t \in Held : pending[t] \in Nat /\ pending[t] >= B
      /\ \A t \in Held : sent[pending[t]].seq = t
  <2>1. \A t \in Held : pending[t] >= B /\ sent[pending[t]].seq = t
    BY DEF StreamIInv, BaseIInv, HeldInPlace, B
  <2>2. \A t \in Held : pending[t] \in Nat
    BY StreamTypes, StreamSizes DEF StreamIInv
  <2>3. QED
    BY <2>1, <2>2
<1>7. /\ {} = {p \in HeldDatagrams \cup {} : p < B}
      /\ HeldDatagrams = {p \in HeldDatagrams \cup {} : p >= B}
  BY <1>1, <1>6 DEF HeldDatagrams
<1>8. stats'.missing = stats.missing + (B - B) - Len(out')
  BY <1>1, <1>4
<1>9. expected' = Plus(expected, B - B)
  BY <1>2, <1>3
<1>10. Stretch(out', B, B) /\ PlacesOf(out') = {p \in HeldDatagrams \cup {} : p < B}
  BY <1>4, <1>7
<1>11. \A s \in Held' : sent[pending'[s]].seq = s
  BY <1>5, <1>6
<1>12. HeldDatagrams' = {p \in HeldDatagrams \cup {} : p >= B}
  BY <1>5, <1>7
<1>13. QED
  BY <1>2, <1>8, <1>9, <1>10, <1>11, <1>12 DEF Moves, Carries, B

\* track() with a gap or none: no buffer to look at.
LEMMA TrackMoves ==
    ASSUME StreamIInv, first # 0, Carries, Held = {}, NEW i \in Datagram, i >= BaseDatagram,
           NEW gap, gap = i - BaseDatagram,
           expected' = Plus(expected, gap + 1), out' = <<i>>, pending' = pending,
           stats'.missing = stats.missing + gap
    PROVE  Moves({i}, i + 1)
<1> DEFINE B == BaseDatagram
           c == i + 1
<1>1. /\ B \in Nat /\ expected \in SeqNo
      /\ Len(sent) \in Nat /\ stats.missing \in Nat /\ i \in Nat /\ i <= Len(sent)
  <2>1. Len(sent) \in Nat /\ stats \in [Counters -> Nat] /\ Datagram = 1 .. Len(sent)
    BY StreamTypes DEF StreamIInv
  <2>2. QED
    BY <2>1, ExpectedAtBase DEF Counters
<1>2. B <= i /\ gap = i - B
  BY DEF B
<1> HIDE DEF B
<1>3. c \in B .. Len(sent) + 1 /\ c - B = gap + 1 /\ i < c /\ ~(i >= c)
  BY <1>1, <1>2
<1>4. Stretch(out', B, c) /\ PlacesOf(out') = {i} /\ Len(out') = 1
  <2>1. B \in Int /\ i \in Int /\ c \in Int /\ B <= i /\ i < c
    BY <1>1, <1>2, <1>3
  <2> HIDE DEF c
  <2>2. QED
    BY <2>1, SingleStretch
<1>5. stats'.missing = stats.missing + (c - B) - Len(out')
  BY SMTT(30), <1>1, <1>2, <1>3, <1>4
<1>6. Held' = {} /\ HeldDatagrams = {} /\ HeldDatagrams' = {}
  BY DEF HeldDatagrams, Held
<1>7. /\ PlacesOf(out') = {p \in HeldDatagrams \cup {i} : p < c}
      /\ HeldDatagrams' = {p \in HeldDatagrams \cup {i} : p >= c}
  BY <1>3, <1>4, <1>6
<1>8. expected' = Plus(expected, c - B)
  BY <1>3
<1> HIDE DEF c
<1>9. Moves({i}, c)
  BY <1>3, <1>4, <1>5, <1>6, <1>7, <1>8 DEF Moves, Carries, B
<1>10. QED
  BY <1>9 DEF c

\* The places the base goes past for good: a window before some datagram held.
GivenUp(New, c) ==
    \A x \in BaseDatagram .. c - 1 :
        x \in PlacesOf(out') \/ \E h \in HeldDatagrams \cup New : x + window <= h

\* Datagram i is taken in, or was known before, or is behind the base.
TakesIn(i, New, c) ==
    /\ Moves(New, c) /\ GivenUp(New, c)
    /\ \/ New = {i} /\ i < c + window
       \/ New = {} /\ c = BaseDatagram /\ (i < BaseDatagram \/ Known(sent[i].seq))

\* Datagram i of the settled baseline arrives: how far ahead its number is.
LEMMA ArrivesInBaseline ==
    ASSUME StreamIInv, first # 0, NEW b \in Datagram, Baseline(b), Settled(b),
           NEW i \in InFlight, Arrive(i)
    PROVE  /\ ~sent[i].restart /\ ~Rebases(sent[i].restart) /\ Carries /\ arrived' = arrived \cup {i}
           /\ i \in Datagram /\ i \in Payload /\ sent[i].seq \in SeqNo
           /\ Feed(i, sent[i].seq, sent[i].restart)
           /\ i < BaseDatagram => Ahead(sent[i].seq, expected) >= Half
           /\ i >= BaseDatagram => /\ Ahead(sent[i].seq, expected) = i - BaseDatagram
                                   /\ i - BaseDatagram < GapFloor
<1>1. /\ expected \in SeqNo /\ expected # None /\ BaseDatagram \in Nat
      /\ first \in Nat /\ first < BaseDatagram
  BY ExpectedAtBase
<1>2. /\ Len(sent) \in Nat /\ Len(sent) <= MaxSent /\ Datagram = 1 .. Len(sent)
      /\ i \in Datagram /\ i \in Payload /\ sent[i].seq \in SeqNo
      /\ sent[i].restart \in BOOLEAN
  BY StreamTypes DEF StreamIInv
<1>3. b <= i /\ (i # b => ~sent[i].restart)
  <2>1. b <= i
    BY DEF Baseline
  <2>2. i \in b .. Len(sent)
    BY <1>2, <2>1
  <2>3. QED
    BY <2>1, <2>2 DEF Baseline
<1>4. ~sent[i].restart
  <2>1. net[i] > 0
    BY DEF InFlight
  <2>2. CASE i = b
    BY <2>1, <2>2 DEF Settled
  <2>3. QED
    BY <1>3, <2>2
<1>5. ~Rebases(sent[i].restart)
  BY <1>1, <1>4 DEF Rebases
<1>6. Carries /\ arrived' = arrived \cup {i} /\ Feed(i, sent[i].seq, sent[i].restart)
  BY <1>5 DEF Arrive, Carries
<1>7. /\ i >= BaseDatagram => Ahead(sent[i].seq, expected) = i - BaseDatagram
      /\ i < BaseDatagram => Ahead(sent[i].seq, expected) >= Half
  <2>1. i \in b .. Len(sent)
    BY <1>2, <1>3
  <2>2. QED
    BY <2>1, Distances
<1>8. i - BaseDatagram < GapFloor
  BY <1>1, <1>2, StreamSizes
<1>9. QED
  BY <1>2, <1>4, <1>5, <1>6, <1>7, <1>8

\* Behind the base, or known: the datagram is dropped.
LEMMA DropTakesIn ==
    ASSUME StreamIInv, first # 0, Carries, NEW i \in Datagram,
           out' = <<>>, expected' = expected, pending' = pending, stats'.missing = stats.missing,
           i < BaseDatagram \/ Known(sent[i].seq)
    PROVE  TakesIn(i, {}, BaseDatagram)
<1>1. Moves({}, BaseDatagram)
  BY StandStill
<1>2. GivenUp({}, BaseDatagram)
  <2>1. BaseDatagram \in Nat
    BY ExpectedAtBase
  <2>2. BaseDatagram .. BaseDatagram - 1 = {}
    BY <2>1
  <2>3. QED
    BY <2>2 DEF GivenUp
<1>3. QED
  BY <1>1, <1>2 DEF TakesIn

LEMMA BehindTakesIn ==
    ASSUME StreamIInv, first # 0, Carries, NEW i \in Datagram, i < BaseDatagram,
           Behind(sent[i].seq)
    PROVE  TakesIn(i, {}, BaseDatagram)
<1>1. stats \in [Counters -> Nat]
  BY StreamTypes DEF StreamIInv
<1>2. out' = <<>> /\ expected' = expected /\ pending' = pending
  BY DEF Behind
<1>3. stats'.missing = stats.missing
  BY <1>1 DEF Behind, Counters
<1>4. QED
  BY <1>2, <1>3, DropTakesIn

LEMMA EarlyCopyTakesIn ==
    ASSUME StreamIInv, first # 0, Carries, NEW i \in Datagram, FeedEarlyCopy(sent[i].seq)
    PROVE  TakesIn(i, {}, BaseDatagram)
<1>1. stats \in [Counters -> Nat]
  BY StreamTypes DEF StreamIInv
<1>2. out' = <<>> /\ expected' = expected /\ pending' = pending /\ Known(sent[i].seq)
  BY DEF FeedEarlyCopy
<1>3. stats'.missing = stats.missing
  BY <1>1 DEF FeedEarlyCopy, NoteGap, Counters
<1>4. QED
  BY <1>2, <1>3, DropTakesIn

\* The datagram at the base is not in the buffer yet: the path copies only
\* where there is no buffer.
LEMMA BaseNotHeld ==
    ASSUME StreamIInv, PlainPath, first # 0, NEW b \in Datagram, Baseline(b), Settled(b),
           NEW i \in InFlight, i = BaseDatagram
    PROVE  expected \notin Held
<1>1. CASE window = 0
  BY <1>1, NoWindowNoBuffer DEF StreamIInv
<1>2. CASE window # 0
  <2>1. SUFFICES ASSUME expected \in Held PROVE FALSE
    OBVIOUS
  <2>2. expected \in SeqNo /\ BaseDatagram \in Nat
    BY ExpectedAtBase
  <2>3. Ahead(expected, expected) = 0
    BY <2>2, SizesAssumption DEF Ahead, SeqNo
  <2>4. pending[expected] = BaseDatagram + Ahead(expected, expected)
    BY <2>1, Distances
  <2>5. pending[expected] = i
    BY <2>2, <2>3, <2>4
  <2>6. i \in arrived
    BY <2>1, <2>5 DEF StreamIInv, BaseIInv, HeldInPlace
  <2>7. window \notin CopyWindows
    BY <1>2 DEF PlainPath
  <2>8. i \in Datagram /\ net[i] > 0
    BY DEF InFlight
  <2>9. net[i] = 0
    BY <2>6, <2>7, <2>8 DEF StreamIInv, PathIInv, PathTypes
  <2>10. QED
    BY <2>8, <2>9
<1>3. QED
  BY <1>1, <1>2

LEMMA InOrderTakesIn ==
    ASSUME StreamIInv, PlainPath, first # 0, NEW b \in Datagram, Baseline(b), Settled(b),
           Carries, NEW i \in InFlight, i = BaseDatagram, FeedInOrder(i, sent[i].seq)
    PROVE  \E c \in Int : TakesIn(i, {i}, c)
<1>1. Buffer(Held, pending, {}) /\ expected \notin Held
  BY BufferHolds, BaseNotHeld
<1>2. Accept(BaseDatagram, expected, pending, stats) /\ BaseDatagram \in Datagram
  BY DEF FeedInOrder, InFlight
<1>3. PICK c \in Int : /\ Moves({BaseDatagram}, c)
                       /\ c > BaseDatagram /\ Len(out') = c - BaseDatagram
  BY <1>1, <1>2, AcceptMoves
<1>4. BaseDatagram \in Nat /\ window \in Nat
  BY ExpectedAtBase, WindowRange DEF StreamIInv
<1>5. \A x \in BaseDatagram .. c - 1 : x \in PlacesOf(out')
  <2> DEFINE B == BaseDatagram
             O == PlacesOf(out')
  <2>1. Stretch(out', B, c) /\ B \in Int /\ B <= c
    BY <1>3, <1>4 DEF Moves
  <2> HIDE DEF B
  <2>2. O \subseteq B .. c - 1 /\ Cardinality(O) = Len(out')
    BY <2>1, StretchCount
  <2>3. IsFiniteSet(B .. c - 1) /\ Cardinality(B .. c - 1) = c - B
    BY <2>1, CountInterval
  <2>4. Cardinality(O) = Cardinality(B .. c - 1)
    BY <1>3, <2>2, <2>3 DEF B
  <2> HIDE DEF O
  <2>5. O = B .. c - 1
    BY <2>2, <2>3, <2>4, FS_Subset
  <2>6. QED
    BY <2>5 DEF O, B
<1>6. GivenUp({i}, c)
  BY <1>5 DEF GivenUp
<1>7. i < c + window
  BY <1>3, <1>4
<1>8. QED
  BY <1>3, <1>6, <1>7 DEF TakesIn

LEMMA TrackTakesIn ==
    ASSUME StreamIInv, first # 0, Carries, window = 0, NEW i \in Datagram, i >= BaseDatagram,
           sent[i].seq \in SeqNo, Ahead(sent[i].seq, expected) = i - BaseDatagram,
           NEW st, TrackAccept(i, sent[i].seq, st), st \in [Counters -> Nat],
           st.missing = stats.missing + (i - BaseDatagram)
    PROVE  TakesIn(i, {i}, i + 1)
<1> DEFINE gap == i - BaseDatagram
<1>1. Held = {}
  BY NoWindowNoBuffer DEF StreamIInv
<1>2. /\ BaseDatagram \in Nat /\ expected \in SeqNo /\ i \in Nat /\ i <= MaxSent
      /\ 1 <= BaseDatagram
  <2>1. Datagram = 1 .. Len(sent) /\ Len(sent) \in Nat /\ Len(sent) <= MaxSent
    BY StreamTypes DEF StreamIInv
  <2>2. QED
    BY <2>1, ExpectedAtBase, StreamSizes
<1>3. gap \in Nat /\ gap + 1 <= SeqMod
  BY <1>2, StreamSizes
<1>4. expected' = Plus(sent[i].seq, 1) /\ out' = <<i>> /\ pending' = pending
      /\ stats' = [st EXCEPT !.received = @ + 1]
  BY DEF TrackAccept
<1>5. Plus(sent[i].seq, 1) = Plus(expected, gap + 1)
  <2>1. sent[i].seq = Plus(expected, gap)
    BY <1>2, SeqArithmetic
  <2>2. Plus(Plus(expected, gap), 1) = Plus(expected, gap + 1)
    BY <1>2, <1>3, PlusIsSum
  <2>3. QED
    BY <2>1, <2>2
<1>6. stats'.missing = stats.missing + gap
  BY <1>4 DEF Counters
<1>7. Moves({i}, i + 1)
  BY <1>1, <1>4, <1>5, <1>6, TrackMoves
<1>8. GivenUp({i}, i + 1)
  <2>1. \A x \in BaseDatagram .. (i + 1) - 1 : x + window <= i
    BY <1>2
  <2>2. QED
    BY <2>1 DEF GivenUp
<1>9. i < (i + 1) + window
  BY <1>2
<1>10. QED
  BY <1>7, <1>8, <1>9 DEF TakesIn

\* The furthest datagram of a buffer, and the steps its window forces.
LEMMA ForcedPlaces ==
    ASSUME StreamIInv, first # 0,
           NEW D \in SUBSET SeqNo, D # {}, NEW buf \in [D -> Payload], NEW New \in SUBSET Datagram,
           Buffer(D, buf, New)
    PROVE  /\ HiAhead(expected, D) \in Nat
           /\ BaseDatagram + HiAhead(expected, D) \in HeldDatagrams \cup New
           /\ BaseDatagram + HiAhead(expected, D) <= Len(sent)
           /\ \A t \in D : buf[t] <= BaseDatagram + HiAhead(expected, D)
           /\ ForcedSteps(expected, D) =
                IF HiAhead(expected, D) >= window THEN HiAhead(expected, D) - window + 1 ELSE 0
<1> DEFINE hi == HiAhead(expected, D)
<1>1. /\ BaseDatagram \in Nat /\ expected \in SeqNo /\ window \in Nat
      /\ Len(sent) \in Nat /\ Datagram = 1 .. Len(sent)
  BY ExpectedAtBase, StreamTypes DEF StreamIInv
<1>2. /\ \E t \in D : Ahead(t, expected) = hi
      /\ \A t \in D : Ahead(t, expected) <= hi
      /\ hi \in SeqNo
  BY <1>1, HiAheadIsMax
<1>3. hi \in Nat
  BY <1>2, SizesAssumption DEF SeqNo
<1>4. ForcedSteps(expected, D) = IF hi >= window THEN hi - window + 1 ELSE 0
  BY <1>1, ForcedStepsExact
<1> HIDE DEF hi
<1>5. PICK t \in D : Ahead(t, expected) = hi
  BY <1>2
<1>6. BaseDatagram + hi = buf[t] /\ buf[t] \in HeldDatagrams \cup New
  BY <1>5 DEF Buffer, PlacedFrom
<1>7. HeldDatagrams \cup New \subseteq Datagram
  BY DEF StreamIInv, PathIInv, PathTypes, BaseIInv, HeldInPlace, HeldDatagrams
<1>8. BaseDatagram + hi <= Len(sent)
  BY <1>1, <1>3, <1>6, <1>7
<1>9. \A u \in D : buf[u] <= BaseDatagram + hi
  <2>1. \A u \in D : buf[u] = BaseDatagram + Ahead(u, expected)
    BY DEF Buffer, PlacedFrom
  <2>2. \A u \in D : Ahead(u, expected) \in Nat
    BY <1>1, SeqArithmetic DEF SeqNo
  <2>3. QED
    BY <1>1, <1>2, <1>3, <2>1, <2>2
<1>10. QED
  BY <1>3, <1>4, <1>6, <1>8, <1>9 DEF hi

LEMMA HoldTakesIn ==
    ASSUME StreamIInv, first # 0, NEW b \in Datagram, Baseline(b), Settled(b),
           Carries, NEW i \in Datagram, i >= BaseDatagram,
           Ahead(sent[i].seq, expected) = i - BaseDatagram, FeedHold(i, sent[i].seq)
    PROVE  \E c \in Int : TakesIn(i, {i}, c)
<1> DEFINE s == sent[i].seq
           D == Held \cup {s}
           buf == [t \in D |-> IF t = s THEN i ELSE pending[t]]
           hi == HiAhead(expected, D)
           n == ForcedSteps(expected, D)
           st == NoteGap(Ahead(s, expected), stats)
<1>1. /\ s \in SeqNo /\ Held \subseteq SeqNo /\ pending \in [Held -> Payload]
      /\ i \in Payload /\ stats \in [Counters -> Nat] /\ i \in Nat
      /\ BaseDatagram \in Nat /\ expected \in SeqNo /\ window \in Nat
  BY ExpectedAtBase, StreamTypes, StreamSizes DEF StreamIInv
<1>2. s \notin Held /\ DOMAIN buf = D
  BY DEF FeedHold, Known, Held
<1>3. WalkBase(buf, n, st)
  BY <1>2 DEF FeedHold, Held
<1>4. D \in SUBSET SeqNo /\ D # {} /\ buf \in [D -> Payload]
  BY <1>1
<1>5. Buffer(D, buf, {i})
  <2>1. {buf[t] : t \in D} = HeldDatagrams \cup {i}
    BY <1>2 DEF HeldDatagrams
  <2>2. ASSUME NEW t \in D
        PROVE  buf[t] = BaseDatagram + Ahead(t, expected) /\ sent[buf[t]].seq = t
    <3>1. CASE t = s
      <4>1. buf[t] = i
        BY <3>1
      <4>2. QED
        BY <1>1, <3>1, <4>1
    <3>2. CASE t # s
      <4>1. t \in Held /\ buf[t] = pending[t]
        BY <3>2
      <4>2. pending[t] = BaseDatagram + Ahead(t, expected)
        BY <4>1, Distances
      <4>3. sent[pending[t]].seq = t
        BY <4>1 DEF StreamIInv, BaseIInv, HeldInPlace
      <4>4. QED
        BY <4>1, <4>2, <4>3
    <3>3. QED
      BY <3>1, <3>2
  <2> HIDE DEF buf
  <2>3. QED
    BY <2>1, <2>2 DEF Buffer, PlacedFrom
<1>6. s \in D /\ buf[s] = i
  OBVIOUS
<1>7. st \in [Counters -> Nat] /\ st.missing = stats.missing
  <2>1. i - BaseDatagram \in Nat
    BY <1>1
  <2>2. QED
    BY <1>1, <2>1 DEF NoteGap, Counters
<1>8. /\ hi \in Nat
      /\ BaseDatagram + hi \in HeldDatagrams \cup {i}
      /\ BaseDatagram + hi <= Len(sent)
      /\ i <= BaseDatagram + hi
      /\ n = IF hi >= window THEN hi - window + 1 ELSE 0
  <2> HIDE DEF D, buf
  <2>1. {i} \in SUBSET Datagram
    OBVIOUS
  <2>2. QED
    BY <1>4, <1>5, <1>6, <2>1, ForcedPlaces
<1> HIDE DEF D, buf, hi, n, st
<1>9. n \in Nat /\ BaseDatagram + n <= Len(sent) + 1
  <2>1. Len(sent) \in Nat
    BY StreamTypes DEF StreamIInv
  <2>2. QED
    BY <1>1, <1>8, <2>1
<1>10. Moves({i}, BaseDatagram + n)
  BY <1>3, <1>4, <1>5, <1>7, <1>9, WalkMoves
<1>11. GivenUp({i}, BaseDatagram + n)
  <2>1. \A x \in BaseDatagram .. (BaseDatagram + n) - 1 : x + window <= BaseDatagram + hi
    BY <1>1, <1>8, <1>9
  <2>2. QED
    BY <1>8, <2>1 DEF GivenUp
<1>12. i < (BaseDatagram + n) + window
  BY <1>1, <1>8, <1>9
<1>13. BaseDatagram + n \in Int
  BY <1>1, <1>9
<1>14. QED
  BY <1>10, <1>11, <1>12, <1>13 DEF TakesIn

\* Whatever arrives in a settled baseline is taken in or dropped.
LEMMA ArriveTakesIn ==
    ASSUME StreamIInv, PlainPath, first # 0, NEW b \in Datagram, Baseline(b), Settled(b),
           NEW i \in InFlight, Arrive(i)
    PROVE  \E New \in SUBSET {i}, c \in Int : TakesIn(i, New, c)
<1> DEFINE s == sent[i].seq
           g == Ahead(s, expected)
<1>1. /\ ~Rebases(sent[i].restart) /\ Carries
      /\ i \in Datagram /\ s \in SeqNo
      /\ Feed(i, s, sent[i].restart)
      /\ i < BaseDatagram => g >= Half
      /\ i >= BaseDatagram => g = i - BaseDatagram /\ i - BaseDatagram < GapFloor
  BY ArrivesInBaseline
<1>2. /\ BaseDatagram \in Nat /\ expected \in SeqNo /\ i \in Nat
      /\ stats \in [Counters -> Nat]
  BY <1>1, ExpectedAtBase, StreamTypes, StreamSizes DEF StreamIInv
<1>3. s = expected => g = 0
  BY <1>2, SizesAssumption DEF Ahead, SeqNo
<1>4. GapFloor \in Int /\ Half \in Int /\ GapFloor < Half /\ 0 < Half /\ SeqMod \in Nat
  BY SizesAssumption DEF Half
<1>5. g \in Nat
  <2>1. g \in SeqNo
    BY <1>1, <1>2, SeqArithmetic
  <2>2. QED
    BY <2>1 DEF SeqNo
<1> HIDE DEF g
<1>6. \/ window = 0 /\ Track(i, s, sent[i].restart)
      \/ window > 0 /\ FeedBuffered(i, s, sent[i].restart)
  BY <1>1 DEF Feed
<1>7. CASE i < BaseDatagram
  <2>1. g >= Half /\ s # expected
    BY <1>1, <1>3, <1>4, <1>7
  <2>2. Behind(s)
    <3>1. CASE window = 0 /\ Track(i, s, sent[i].restart)
      BY <1>1, <1>4, <1>5, <2>1, <3>1 DEF Track, g
    <3>2. CASE window > 0 /\ FeedBuffered(i, s, sent[i].restart)
      BY <1>1, <1>4, <1>5, <2>1, <3>2
         DEF FeedBuffered, FeedRebase, FeedInOrder, FeedSwitch, FeedEarlyCopy, FeedHold, Early, g
    <3>3. QED
      BY <1>6, <3>1, <3>2
  <2>3. TakesIn(i, {}, BaseDatagram)
    BY <1>1, <1>7, <2>2, BehindTakesIn
  <2>4. BaseDatagram \in Int
    BY <1>2
  <2>5. QED
    BY <2>3, <2>4
<1>8. CASE i >= BaseDatagram
  <2>1. g = i - BaseDatagram /\ g < GapFloor /\ g < Half
    BY <1>1, <1>4, <1>5, <1>8
  <2>2. i + 1 \in Int
    BY <1>2
  <2>3. ASSUME window = 0, NEW st, TrackAccept(i, s, st), st \in [Counters -> Nat],
               st.missing = stats.missing + g
        PROVE  \E c \in Int : TakesIn(i, {i}, c)
    BY <1>1, <1>8, <2>1, <2>2, <2>3, TrackTakesIn DEF g
  <2>4. CASE window = 0 /\ Track(i, s, sent[i].restart)
    <3>1. \/ s = expected /\ TrackAccept(i, s, stats)
          \/ 0 < g /\ TrackAccept(i, s, Skip(g, stats))
      BY <1>1, <1>4, <1>5, <2>1, <2>4 DEF Track, Behind, g
    <3>2. CASE s = expected /\ TrackAccept(i, s, stats)
      <4>1. stats.missing = stats.missing + g
        BY <1>2, <1>3, <3>2 DEF Counters
      <4>2. QED
        BY <1>2, <2>3, <2>4, <3>2, <4>1
    <3>3. CASE 0 < g /\ TrackAccept(i, s, Skip(g, stats))
      <4>1. Skip(g, stats) \in [Counters -> Nat] /\ Skip(g, stats).missing = stats.missing + g
        <5>1. /\ NoteGap(g, stats) \in [Counters -> Nat]
              /\ NoteGap(g, stats).missing = stats.missing
          BY <1>2, <1>5 DEF NoteGap, Counters
        <5>2. QED
          BY <1>2, <1>5, <5>1 DEF Skip, Counters
      <4>2. QED
        BY <2>3, <2>4, <3>3, <4>1
    <3>4. QED
      BY <3>1, <3>2, <3>3
  <2>5. CASE window > 0 /\ FeedBuffered(i, s, sent[i].restart)
    <3>1. FeedInOrder(i, s) \/ FeedEarlyCopy(s) \/ FeedHold(i, s)
      BY <1>1, <1>4, <1>5, <2>1, <2>5 DEF FeedBuffered, FeedRebase, FeedSwitch, Behind, g
    <3>2. CASE FeedInOrder(i, s)
      <4>1. i = BaseDatagram
        BY <1>2, <1>3, <2>1, <3>2 DEF FeedInOrder
      <4>2. QED
        BY <1>1, <3>2, <4>1, InOrderTakesIn
    <3>3. CASE FeedEarlyCopy(s)
      <4>1. TakesIn(i, {}, BaseDatagram) /\ BaseDatagram \in Int
        BY <1>1, <1>2, <3>3, EarlyCopyTakesIn
      <4>2. QED
        BY <4>1
    <3>4. CASE FeedHold(i, s)
      <4>1. \E c \in Int : TakesIn(i, {i}, c)
        BY <1>1, <1>8, <2>1, <3>4, HoldTakesIn DEF g
      <4>2. QED
        BY <4>1
    <3>5. QED
      BY <3>1, <3>2, <3>3, <3>4
  <2>6. \E c \in Int : TakesIn(i, {i}, c) \/ TakesIn(i, {}, c)
    BY <1>6, <2>4, <2>5
  <2>7. QED
    BY <2>6
<1>9. QED
  BY <1>2, <1>7, <1>8

\* The flush at the end moves the base past all that is held.
LEMMA FlushMoves ==
    ASSUME StreamIInv, first # 0, NEW b \in Datagram, Baseline(b), Settled(b), Carries, Flush
    PROVE  \E c \in Int : /\ Moves({}, c)
                          /\ c <= BaseDatagram \/ \E h \in HeldDatagrams : c = h + 1
                          /\ Held' = {}
<1>1. /\ Held \in SUBSET SeqNo /\ pending \in [Held -> Payload] /\ stats \in [Counters -> Nat]
      /\ BaseDatagram \in Nat /\ expected \in SeqNo /\ Len(sent) \in Nat
  BY ExpectedAtBase, StreamTypes DEF StreamIInv
<1>2. CASE Held = {}
  <2>1. out' = <<>> /\ UNCHANGED <<expected, stats, pending>>
    BY <1>2 DEF Flush, Held
  <2>2. Moves({}, BaseDatagram)
    BY <2>1, StandStill
  <2>3. Held' = {} /\ BaseDatagram <= BaseDatagram /\ BaseDatagram \in Int
    BY <1>1, <1>2, <2>1 DEF Held
  <2>4. QED
    BY <2>2, <2>3
<1>3. CASE Held # {}
  <2> DEFINE hi == HiAhead(expected, Held)
             n == hi + 1
  <2>1. Buffer(Held, pending, {})
    BY BufferHolds
  <2>2. /\ hi \in Nat /\ BaseDatagram + hi \in HeldDatagrams \cup {}
        /\ BaseDatagram + hi <= Len(sent)
    <3>1. {} \in SUBSET Datagram
      OBVIOUS
    <3>2. QED
      BY <1>1, <1>3, <2>1, <3>1, ForcedPlaces
  <2>3. WalkBase(pending, n, stats)
    BY <1>3 DEF Flush, Held
  <2>4. Held \ Passed(expected, Held, n) = {}
    BY <1>3, FlushPassesAll DEF StreamIInv
  <2> HIDE DEF hi
  <2>5. n \in Nat /\ BaseDatagram + n <= Len(sent) + 1
        /\ BaseDatagram + n = (BaseDatagram + hi) + 1 /\ BaseDatagram + n \in Int
    BY <1>1, <2>2
  <2> HIDE DEF n
  <2>6. Moves({}, BaseDatagram + n)
    BY <1>1, <2>1, <2>3, <2>5, WalkMoves
  <2>7. Held' = {}
    <3>1. DOMAIN pending = Held
      BY DEF Held
    <3>2. pending' = Without(pending, Passed(expected, Held, n))
      BY <2>3, <3>1 DEF WalkBase
    <3>3. DOMAIN pending' = Held \ Passed(expected, Held, n)
      BY <3>1, <3>2 DEF Without, Restrict
    <3>4. QED
      BY <2>4, <3>3 DEF Held
  <2>8. QED
    BY <2>2, <2>5, <2>6, <2>7
<1>4. QED
  BY <1>2, <1>3

-----------------------------------------------------------------------------
(* A call that sets a new baseline.                                        *)

\* With no buffer to drain a delivery returns its datagram alone.
LEMMA AcceptAlone ==
    ASSUME NEW p, NEW s \in SeqNo, NEW buf, DOMAIN buf = {}, NEW st, Accept(p, s, buf, st)
    PROVE  /\ expected' = Plus(s, 1) /\ out' = <<p>> /\ Held' = {}
           /\ stats' = [st EXCEPT !.received = @ + 1 + 0]
<1> DEFINE base == Plus(s, 1)
           run == Run(base, DOMAIN buf)
           k == Cardinality(run)
<1>1. base \in SeqNo
  BY SeqArithmetic, SizesAssumption
<1>2. run = {}
  BY DEF Run
<1>3. k = 0
  BY <1>2, FS_EmptySet
<1>4. Plus(base, 0) = base
  BY <1>1, SizesAssumption DEF Plus, SeqNo
<1>5. InOrder(base, buf, run) = <<>>
  <2>1. 1 .. Cardinality(run) = {}
    BY <1>3
  <2>2. QED
    BY <2>1 DEF InOrder
<1>6. /\ expected' = Plus(base, k) /\ out' = <<p>> \o InOrder(base, buf, run)
      /\ pending' = Without(buf, run)
      /\ stats' = [st EXCEPT !.received = @ + 1 + k]
  BY DEF Accept
<1> HIDE DEF base, run, k
<1>7. <<p>> \o <<>> = <<p>>
  OBVIOUS
<1>8. Held' = {}
  BY <1>6 DEF Held, Without, Restrict
<1>9. QED
  BY <1>3, <1>4, <1>5, <1>6, <1>7, <1>8 DEF base

\* The numbering in use and the receiver's baseline are one after datagram i.
Rebased(i) ==
    /\ expected' = Plus(sent[i].seq, 1) /\ out' = <<i>> /\ Held' = {}
    /\ stats'.missing = stats.missing /\ stats'.received = stats.received + 1
    /\ first' = i /\ missingAtFirst' = stats.missing /\ sent' = sent
    /\ delivered' = delivered \o out' /\ arrived' = arrived \cup {i}

LEMMA RebaseEffect ==
    ASSUME StreamIInv, NEW i \in InFlight, Arrive(i), Rebases(sent[i].restart)
    PROVE  Rebased(i)
<1> DEFINE s == sent[i].seq
           restart == sent[i].restart
           st == CountRestart(restart, stats)
<1>1. /\ i \in Datagram /\ s \in SeqNo /\ restart \in BOOLEAN /\ stats \in [Counters -> Nat]
  BY StreamTypes DEF StreamIInv
<1>2. expected = None => Held = {}
  BY DEF StreamIInv, IInv, TypeOK
<1>3. st \in [Counters -> Nat] /\ st.missing = stats.missing /\ st.received = stats.received
  BY <1>1 DEF CountRestart, Counters
<1> HIDE DEF st
<1>4. /\ expected' = Plus(s, 1) /\ out' = <<i>> /\ Held' = {}
      /\ stats' = [st EXCEPT !.received = @ + 1]
  <2>1. CASE window = 0 /\ Track(i, s, restart)
    <3>1. TrackAccept(i, s, st)
      BY <2>1 DEF Track, st
    <3>2. Held = {}
      BY <2>1, NoWindowNoBuffer DEF StreamIInv
    <3>3. QED
      BY <3>1, <3>2 DEF TrackAccept, Held
  <2>2. CASE window > 0 /\ FeedBuffered(i, s, restart)
    <3>1. FeedRebase(i, s, restart)
      BY <2>2 DEF FeedBuffered
    <3> DEFINE buf == IF restart /\ expected # None THEN Empty ELSE pending
    <3>2. Accept(i, s, buf, st)
      BY <3>1 DEF FeedRebase, st
    <3>3. DOMAIN buf = {}
      <4>1. CASE restart /\ expected # None
        BY <4>1 DEF Empty
      <4>2. CASE ~(restart /\ expected # None)
        BY <1>2, <4>2 DEF Rebases, Held
      <4>3. QED
        BY <4>1, <4>2
    <3> HIDE DEF buf
    <3>4. /\ expected' = Plus(s, 1) /\ out' = <<i>> /\ Held' = {}
          /\ stats' = [st EXCEPT !.received = @ + 1 + 0]
      BY <1>1, <3>2, <3>3, AcceptAlone
    <3>5. st.received + 1 + 0 = st.received + 1
      BY <1>3 DEF Counters
    <3>6. QED
      BY <1>3, <3>4, <3>5 DEF Counters
  <2>3. QED
    BY <2>1, <2>2 DEF Arrive, Feed
<1>5. stats'.missing = stats.missing /\ stats'.received = stats.received + 1
  BY <1>3, <1>4 DEF Counters
<1>6. QED
  BY <1>4, <1>5 DEF Arrive, Rebased

LEMMA RebaseKeepsBase ==
    ASSUME StreamIInv, NEW i \in Datagram, Rebased(i), first # 0 => BaseDatagram <= i
    PROVE  BaseIInv' /\ BaseDatagram' = i + 1 /\ Skipped' = {}
<1> DEFINE s == sent[i].seq
<1>1. /\ i \in Nat /\ 1 <= i /\ i <= Len(sent) /\ Len(sent) \in Nat /\ s \in SeqNo
      /\ stats \in [Counters -> Nat]
  BY StreamTypes DEF StreamIInv
<1>2. /\ expected' = Plus(s, 1) /\ out' = <<i>> /\ Held' = {}
      /\ stats'.missing = stats.missing /\ stats'.received = stats.received + 1
      /\ first' = i /\ missingAtFirst' = stats.missing /\ sent' = sent
      /\ delivered' = delivered \o out' /\ arrived' = arrived \cup {i}
  BY DEF Rebased
<1>3. Plus(s, 1) \in SeqNo /\ Ahead(Plus(s, 1), s) = 1
  <2>1. 1 \in 0 .. SeqMod - 1 /\ 1 \in 0 .. SeqMod
    BY SizesAssumption
  <2>2. QED
    BY <1>1, <2>1, SeqArithmetic
<1>4. expected' # None /\ first' # 0
  BY <1>1, <1>2, <1>3, NoneIsNoSeqNo
<1>5. BaseDatagram' = i + 1
  BY <1>2, <1>3 DEF BaseDatagram
<1>6. Stretch(delivered, 1, i)
  <2>1. CASE first = 0
    <3>1. delivered = <<>>
      BY <2>1 DEF StreamIInv, BaseIInv
    <3>2. i \in Int /\ 1 \in Int
      BY <1>1
    <3>3. QED
      BY <3>1, <3>2, EmptyStretch
  <2>2. CASE first # 0
    <3>1. Stretch(delivered, 1, BaseDatagram)
      BY <2>2 DEF StreamIInv, BaseIInv
    <3>2. BaseDatagram \in Int /\ i \in Int /\ 1 \in Int
      BY <1>1, <2>2, ExpectedAtBase
    <3>3. QED
      BY <2>2, <3>1, <3>2, WiderStretch
  <2>3. QED
    BY <2>1, <2>2
<1>7. Stretch(delivered', 1, i + 1) /\ PlacesOf(delivered') = PlacesOf(delivered) \cup {i}
  <2>1. 1 \in Int /\ i \in Int /\ i + 1 \in Int /\ 1 <= i /\ i <= i /\ i < i + 1 /\ i <= i + 1
    BY <1>1
  <2>2. Stretch(<<i>>, i, i + 1) /\ PlacesOf(<<i>>) = {i}
    BY <2>1, SingleStretch
  <2>3. /\ Stretch(delivered \o <<i>>, 1, i + 1)
        /\ PlacesOf(delivered \o <<i>>) = PlacesOf(delivered) \cup PlacesOf(<<i>>)
    BY <1>6, <2>1, <2>2, StretchJoin
  <2>4. QED
    BY <1>2, <2>2, <2>3
<1>8. Skipped' = {}
  <2>1. Delivered' = PlacesOf(delivered')
    BY DEF Delivered, PlacesOf
  <2>2. Skipped' = (i .. (i + 1) - 1) \ Delivered'
    BY <1>2, <1>4, <1>5 DEF Skipped
  <2>3. i .. (i + 1) - 1 = {i}
    BY <1>1
  <2>4. QED
    BY <1>7, <2>1, <2>2, <2>3
<1>13. MissingIsExact'
  <2>1. stats'.missing - missingAtFirst' = 0
    BY <1>1, <1>2 DEF Counters
  <2>2. QED
    BY <1>8, <2>1, FS_EmptySet DEF MissingIsExact
<1>9. stats'.received = Len(delivered')
  <2>1. stats.received = Len(delivered) /\ stats.received \in Nat
    BY <1>1 DEF StreamIInv, BaseIInv, Counters
  <2>2. delivered \in Seq(Int)
    BY <1>6 DEF Stretch
  <2>3. <<i>> \in Seq(Int) /\ Len(<<i>>) = 1
    BY <1>1
  <2>4. Len(delivered \o <<i>>) = Len(delivered) + 1
    BY <2>2, <2>3
  <2>5. QED
    BY <1>2, <2>1, <2>4
<1>10. first' \in Datagram' /\ BaseDatagram' \in first' + 1 .. Len(sent') + 1
  BY <1>1, <1>2, <1>5 DEF Datagram
<1>11. missingAtFirst' \in Nat
  BY <1>1, <1>2 DEF Counters
<1>12. HeldInPlace'
  BY <1>2 DEF HeldInPlace
<1>14. QED
  BY <1>2, <1>4, <1>5, <1>7, <1>8, <1>9, <1>10, <1>11, <1>12, <1>13 DEF BaseIInv

-----------------------------------------------------------------------------
(* The steps of the path.                                                  *)

\* A step that leaves the receiver alone and at most adds to what was sent.
LEMMA BaseFrame ==
    ASSUME StreamIInv, UNCHANGED <<vars, arrived, delivered, first, missingAtFirst>>,
           Len(sent') \in Nat, Len(sent) <= Len(sent'),
           \A j \in Datagram : sent'[j] = sent[j]
    PROVE  /\ IInv' /\ BaseIInv' /\ Held' = Held
           /\ first # 0 => BaseDatagram' = BaseDatagram
<1>1. UNCHANGED vars
  OBVIOUS
<1>2. /\ window' = window /\ expected' = expected /\ stats' = stats /\ pending' = pending
      /\ Held' = Held
  BY <1>1 DEF vars, Held
<1>3. IInv'
  BY <1>1 DEF StreamIInv, vars, IInv, TypeOK, SeenInStep, Conservation, BufferBounded,
              SwitchIffHugeGap, Held
<1>4. /\ arrived' = arrived /\ delivered' = delivered /\ first' = first
      /\ missingAtFirst' = missingAtFirst
  OBVIOUS
<1>5. Datagram = 1 .. Len(sent) /\ Len(sent) \in Nat
  BY StreamTypes DEF StreamIInv
<1>6. ASSUME first # 0
      PROVE  BaseDatagram' = BaseDatagram
  <2>1. sent'[first] = sent[first]
    BY <1>6 DEF StreamIInv, BaseIInv
  <2>2. QED
    BY <1>2, <1>4, <2>1 DEF BaseDatagram
<1>7. Skipped' = Skipped /\ Delivered' = Delivered
  <2>1. Delivered' = Delivered
    BY <1>4 DEF Delivered
  <2>2. QED
    BY <1>4, <1>6, <2>1 DEF Skipped
<1>8. HeldInPlace'
  <2>1. ASSUME NEW t \in Held
        PROVE  /\ pending[t] \in arrived /\ pending[t] >= BaseDatagram'
               /\ sent'[pending[t]].seq = t
    <3>1. expected # None
      BY DEF StreamIInv, IInv, TypeOK
    <3>2. first # 0
      BY <3>1 DEF StreamIInv, BaseIInv
    <3>3. pending[t] \in arrived /\ pending[t] >= BaseDatagram /\ sent[pending[t]].seq = t
      BY DEF StreamIInv, BaseIInv, HeldInPlace
    <3>4. pending[t] \in Datagram
      BY <3>3 DEF StreamIInv, PathIInv, PathTypes
    <3>5. QED
      BY <1>6, <3>2, <3>3, <3>4
  <2>2. QED
    BY <1>2, <1>4, <2>1 DEF HeldInPlace
<1>9. MissingIsExact'
  BY <1>2, <1>4, <1>7 DEF StreamIInv, BaseIInv, MissingIsExact
<1>10. first # 0 => /\ first \in Datagram'
                    /\ BaseDatagram' \in first + 1 .. Len(sent') + 1
                    /\ Stretch(delivered, 1, BaseDatagram')
  <2>1. HAVE first # 0
  <2>2. /\ first \in 1 .. Len(sent) /\ BaseDatagram \in first + 1 .. Len(sent) + 1
        /\ Stretch(delivered, 1, BaseDatagram)
    BY <1>5, <2>1 DEF StreamIInv, BaseIInv
  <2>3. first \in 1 .. Len(sent') /\ BaseDatagram \in first + 1 .. Len(sent') + 1
    BY <1>5, <2>2
  <2>4. QED
    BY <1>6, <2>1, <2>2, <2>3 DEF Datagram
<1>11. BaseIInv'
  <2>1. BaseIInv
    BY DEF StreamIInv
  <2>2. QED
    BY <1>2, <1>4, <1>8, <1>9, <1>10, <2>1 DEF BaseIInv
<1>12. QED
  BY <1>2, <1>3, <1>6, <1>11

\* One more datagram is on its way.
LEMMA EmitEffect ==
    ASSUME StreamIInv, NEW s \in SeqNo, NEW restart \in BOOLEAN, Emit(s, restart)
    PROVE  LET new == Len(sent) + 1
           IN  /\ UNCHANGED <<vars, arrived, delivered, first, missingAtFirst, ended>>
               /\ new \in Payload /\ Len(sent') = new /\ Datagram' = Datagram \cup {new}
               /\ sent' \in Seq([seq : SeqNo, restart : BOOLEAN])
               /\ \A j \in Datagram : sent'[j] = sent[j] /\ net'[j] = net[j]
               /\ sent'[new].seq = s /\ sent'[new].restart = restart
               /\ net' \in [Payload -> Nat] /\ net'[new] = 1
               /\ \A j \in Payload : j # new => net'[j] = net[j]
               /\ InFlight' = InFlight \cup {new}
               /\ ~ended
<1> DEFINE new == Len(sent) + 1
           S == [seq : SeqNo, restart : BOOLEAN]
           d == [seq |-> s, restart |-> restart]
<1>1. /\ Len(sent) \in Nat /\ Datagram = 1 .. Len(sent) /\ Datagram \subseteq Payload
      /\ Payload = 1 .. MaxSent /\ MaxSent \in Nat
  BY StreamTypes, StreamSizes DEF StreamIInv
<1>2. sent \in Seq(S) /\ net \in [Payload -> Nat]
  BY DEF StreamIInv, PathIInv, PathTypes
<1>3. /\ Len(sent) < MaxSent /\ sent' = Append(sent, d)
      /\ net' = [net EXCEPT ![new] = 1]
      /\ UNCHANGED <<vars, arrived, delivered, first, missingAtFirst, ended>>
  BY DEF Emit
<1>4. d \in S /\ d.seq = s /\ d.restart = restart
  OBVIOUS
<1> HIDE DEF S, d
<1>5. sent' \in Seq(S) /\ Len(sent') = new /\ sent'[new] = d
      /\ \A j \in 1 .. Len(sent) : sent'[j] = sent[j]
  BY <1>2, <1>3, <1>4
<1>6. new \in Payload /\ new \notin Datagram
  BY <1>1, <1>3
<1>7. Datagram' = Datagram \cup {new}
  <2>1. 1 .. new = (1 .. Len(sent)) \cup {new}
    BY <1>1
  <2>2. Datagram' = 1 .. new
    BY <1>5 DEF Datagram
  <2>3. QED
    BY <1>1, <2>1, <2>2
<1> HIDE DEF new
<1>8. /\ net' \in [Payload -> Nat] /\ net'[new] = 1
      /\ \A j \in Payload : j # new => net'[j] = net[j]
  BY <1>2, <1>3, <1>6
<1>9. \A j \in Datagram : net'[j] = net[j]
  BY <1>1, <1>6, <1>8
<1>10. InFlight' = InFlight \cup {new}
  BY <1>7, <1>8, <1>9 DEF InFlight
<1>11. ~ended
  BY <1>3 DEF StreamIInv, PathIInv, PathTypes
<1>12. QED
  BY <1>1, <1>3, <1>4, <1>5, <1>6, <1>7, <1>8, <1>9, <1>10, <1>11 DEF new, S

LEMMA EmitKeepsTypes ==
    ASSUME StreamIInv, NEW s \in SeqNo, NEW restart \in BOOLEAN, Emit(s, restart)
    PROVE  PathTypes'
<1> DEFINE new == Len(sent) + 1
<1>1. /\ UNCHANGED <<vars, arrived, delivered, first, missingAtFirst, ended>>
      /\ new \in Payload /\ Len(sent') = new /\ Datagram' = Datagram \cup {new}
      /\ sent' \in Seq([seq : SeqNo, restart : BOOLEAN])
      /\ \A j \in Datagram : net'[j] = net[j]
      /\ net' \in [Payload -> Nat] /\ net'[new] = 1
      /\ \A j \in Payload : j # new => net'[j] = net[j]
      /\ ~ended
  BY EmitEffect
<1>2. Len(sent) \in Nat /\ Payload = 1 .. MaxSent /\ MaxSent \in Nat /\ Datagram = 1 .. Len(sent)
  BY StreamTypes, StreamSizes DEF StreamIInv
<1>3. /\ \A i \in Payload : i > Len(sent) => net[i] = 0
      /\ arrived \subseteq Datagram
      /\ window \notin CopyWindows =>
            \A i \in Datagram : net[i] <= 1 /\ (i \in arrived => net[i] = 0)
  BY DEF StreamIInv, PathIInv, PathTypes
<1>4. \A i \in Payload : i > new => net'[i] = 0
  BY <1>1, <1>2, <1>3
<1>5. new \notin Datagram /\ new <= MaxSent
  BY <1>1, <1>2
<1>6. window' = window /\ arrived' = arrived /\ ended' = ended
  BY <1>1 DEF vars
<1> HIDE DEF new
<1>7. window \notin CopyWindows =>
         \A i \in Datagram \cup {new} : net'[i] <= 1 /\ (i \in arrived => net'[i] = 0)
  BY <1>1, <1>3, <1>5
<1>8. QED
  BY <1>1, <1>3, <1>4, <1>5, <1>6, <1>7 DEF PathTypes

LEMMA EmptyIsNoDatagram ==
    ASSUME StreamIInv
    PROVE  /\ sent = <<>> <=> Datagram = {}
           /\ sent # <<>> => Len(sent) \in Datagram
<1> DEFINE S == [seq : SeqNo, restart : BOOLEAN]
<1>1. sent \in Seq(S)
  BY DEF StreamIInv, PathIInv, PathTypes
<1> HIDE DEF S
<1>2. (sent = <<>> <=> Len(sent) = 0) /\ Len(sent) \in Nat
  BY <1>1
<1>3. QED
  BY <1>2 DEF Datagram

LEMMA ModBelow ==
    ASSUME NEW m \in Nat, NEW y \in Nat, y < m
    PROVE  y % m = y
  OBVIOUS

\* What is sent next is numbered in the sequence space.
LEMMA SendEmits ==
    ASSUME StreamIInv, Send
    PROVE  \E s \in SeqNo :
              /\ Emit(s, FALSE)
              /\ IF sent = <<>> THEN s = StartSeq ELSE s = Plus(sent[Len(sent)].seq, 1)
<1>1. /\ \A i \in Datagram : sent[i].seq \in SeqNo
      /\ SeqMod \in Nat /\ SeqMod > 0
  BY StreamTypes, StreamSizes DEF StreamIInv
<1>2. \A x \in SeqNo : (x + 1) % SeqMod = Plus(x, 1) /\ Plus(x, 1) \in SeqNo
  <2>1. \A x \in SeqNo : x \in Nat /\ x < SeqMod
    BY <1>1 DEF SeqNo
  <2>2. TAKE x \in SeqNo
  <2>3. CASE x + 1 < SeqMod
    <3>1. (x + 1) % SeqMod = x + 1
      <4>1. x + 1 \in Nat /\ SeqMod \in Nat
        BY <1>1, <2>1
      <4>2. QED
        BY <2>3, <4>1, ModBelow
    <3>2. QED
      BY <1>1, <2>1, <2>3, <3>1 DEF Plus, SeqNo
  <2>4. CASE x + 1 = SeqMod
    <3>1. (x + 1) % SeqMod = 0
      BY <1>1, <2>4
    <3>2. QED
      BY <1>1, <2>1, <2>4, <3>1 DEF Plus, SeqNo
  <2>5. QED
    BY <1>1, <2>1, <2>3, <2>4
<1>3. CASE sent = <<>>
  BY <1>3, StreamAssumption DEF Send
<1>4. CASE sent # <<>>
  <2>1. sent[Len(sent)].seq \in SeqNo
    BY <1>1, <1>4, EmptyIsNoDatagram
  <2>2. Emit((sent[Len(sent)].seq + 1) % SeqMod, FALSE)
    BY <1>4 DEF Send
  <2>3. QED
    BY <1>2, <1>4, <2>1, <2>2
<1>5. QED
  BY <1>3, <1>4

LEMMA SendKeepsNumbering ==
    ASSUME StreamIInv, Send
    PROVE  PathTypes' /\ Numbering' /\ IInv' /\ BaseIInv'
<1> DEFINE new == Len(sent) + 1
<1>1. /\ Len(sent) \in Nat /\ Datagram = 1 .. Len(sent)
      /\ \A i \in Datagram : sent[i].seq \in SeqNo
  BY StreamTypes DEF StreamIInv
<1>2. PICK s \in SeqNo :
          /\ Emit(s, FALSE)
          /\ IF sent = <<>> THEN s = StartSeq ELSE s = Plus(sent[Len(sent)].seq, 1)
  BY SendEmits
<1>3. s \in SeqNo
  BY <1>2
<1>4. Emit(s, FALSE)
  BY <1>2
<1>5. /\ UNCHANGED <<vars, arrived, delivered, first, missingAtFirst, ended>>
      /\ new \in Payload /\ Len(sent') = new /\ Datagram' = Datagram \cup {new}
      /\ \A j \in Datagram : sent'[j] = sent[j] /\ net'[j] = net[j]
      /\ sent'[new].seq = s /\ sent'[new].restart = FALSE
      /\ InFlight' = InFlight \cup {new}
  BY <1>3, <1>4, EmitEffect
<1>6. PathTypes'
  BY <1>3, <1>4, EmitKeepsTypes
<1>7. /\ IInv' /\ BaseIInv'
      /\ first # 0 => BaseDatagram' = BaseDatagram
  <2>1. Len(sent') \in Nat /\ Len(sent) <= Len(sent') /\ \A j \in Datagram : sent'[j] = sent[j]
    BY <1>1, <1>5
  <2>2. UNCHANGED <<vars, arrived, delivered, first, missingAtFirst>>
    BY <1>5
  <2>3. QED
    BY <2>1, <2>2, BaseFrame
<1>8. CASE sent = <<>>
  <2>1. Datagram = {} /\ InFlight = {}
    BY <1>8, EmptyIsNoDatagram DEF InFlight
  <2>2. Len(sent) = 0
    BY <1>8
  <2>3. first = 0
    BY <2>1 DEF StreamIInv, BaseIInv
  <2>4. new = 1
    BY <2>2
  <2>5. Baseline(1)'
    <3>1. 1 .. Len(sent') = {1} /\ 1 - 1 = 0
      BY <1>5, <2>4
    <3>2. Plus(s, 0) = s
      BY <1>3, SizesAssumption DEF Plus, SeqNo
    <3>3. InFlight' = {1}
      BY <1>5, <2>1, <2>4
    <3>4. sent'[1].seq = Plus(sent'[1].seq, 1 - 1)
      BY <1>5, <2>4, <3>1, <3>2
    <3>5. QED
      BY <3>1, <3>3, <3>4 DEF Baseline
  <2>6. Settled(1)' /\ 1 \in Datagram'
    BY <1>5, <2>3, <2>4 DEF Settled
  <2>7. Numbering'
    BY <2>5, <2>6 DEF Numbering
  <2>8. QED
    BY <1>6, <1>7, <2>7
<1>9. CASE sent # <<>>
  <2>1. PICK b \in Datagram : Baseline(b) /\ (Announced(b) \/ Settled(b))
    BY <1>9 DEF StreamIInv, PathIInv, Numbering
  <2>2. b \in Nat /\ b <= Len(sent) /\ Len(sent) \in Datagram /\ Len(sent) \in b .. Len(sent)
    BY <1>1, <1>9, EmptyIsNoDatagram
  <2>3. /\ \A i \in b .. Len(sent) : /\ sent[i].seq = Plus(sent[b].seq, i - b)
                                     /\ i # b => ~sent[i].restart
        /\ \A i \in InFlight : b <= i
    BY <2>1 DEF Baseline
  <2>4. s = Plus(sent[b].seq, new - b)
    <3>1. s = Plus(sent[Len(sent)].seq, 1)
      BY <1>2, <1>9
    <3>2. sent[Len(sent)].seq = Plus(sent[b].seq, Len(sent) - b)
      BY <2>2, <2>3
    <3>3. /\ Len(sent) - b \in Nat /\ (Len(sent) - b) + 1 <= SeqMod
          /\ (Len(sent) - b) + 1 = new - b
      <4>1. Len(sent) <= MaxSent
        BY StreamTypes DEF StreamIInv
      <4>2. QED
        BY <1>1, <2>2, <4>1, StreamSizes
    <3>4. Plus(Plus(sent[b].seq, Len(sent) - b), 1) = Plus(sent[b].seq, (Len(sent) - b) + 1)
      BY <1>1, <3>3, PlusIsSum
    <3>5. QED
      BY <3>1, <3>2, <3>3, <3>4
  <2>5. new \in Nat /\ b <= new /\ b # new
        /\ b .. new = (b .. Len(sent)) \cup {new} /\ b .. Len(sent) \subseteq Datagram
    BY <1>1, <2>2
  <2> HIDE DEF new
  <2>6. sent'[b] = sent[b] /\ net'[b] = net[b]
    BY <1>5
  <2>7. Baseline(b)'
    <3>1. \A i \in b .. Len(sent') : /\ sent'[i].seq = Plus(sent'[b].seq, i - b)
                                     /\ i # b => ~sent'[i].restart
      <4>1. TAKE i \in b .. Len(sent')
      <4>2. CASE i = new
        BY <1>5, <2>4, <2>6, <4>2
      <4>3. CASE i # new
        <5>1. i \in b .. Len(sent) /\ i \in Datagram
          BY <1>5, <2>5, <4>3
        <5>2. sent'[i] = sent[i]
          BY <1>5, <5>1
        <5>3. QED
          BY <2>3, <2>6, <5>1, <5>2
      <4>4. QED
        BY <4>2, <4>3
    <3>2. \A i \in InFlight' : b <= i
      BY <1>5, <2>3, <2>5
    <3>3. QED
      BY <3>1, <3>2 DEF Baseline
  <2>8. first' = first
    BY <1>5
  <2>9. Announced(b)' \/ Settled(b)'
    <3>1. CASE Announced(b)
      BY <1>7, <2>6, <2>8, <3>1 DEF Announced
    <3>2. CASE Settled(b)
      BY <2>6, <2>8, <3>2 DEF Settled
    <3>3. QED
      BY <2>1, <3>1, <3>2
  <2>10. Numbering'
    BY <1>5, <2>7, <2>9 DEF Numbering
  <2>11. QED
    BY <1>6, <1>7, <2>10
<1>10. QED
  BY <1>8, <1>9

LEMMA RespawnKeepsNumbering ==
    ASSUME StreamIInv, Respawn
    PROVE  PathTypes' /\ Numbering' /\ IInv' /\ BaseIInv'
<1>1. PICK s \in RestartSeqs : Emit(s, TRUE)
  BY DEF Respawn
<1>2. s \in SeqNo /\ InFlight = {}
  BY <1>1, StreamAssumption DEF Respawn
<1>3. Len(sent) \in Nat /\ Datagram = 1 .. Len(sent)
  BY StreamTypes DEF StreamIInv
<1>4. PICK new \in Nat : new = Len(sent) + 1
  BY <1>3
<1>5. /\ UNCHANGED <<vars, arrived, delivered, first, missingAtFirst, ended>>
      /\ Len(sent') = new /\ Datagram' = Datagram \cup {new}
      /\ \A j \in Datagram : sent'[j] = sent[j]
      /\ sent'[new].seq = s /\ sent'[new].restart = TRUE
      /\ net'[new] = 1 /\ InFlight' = InFlight \cup {new}
  BY <1>1, <1>2, <1>4, EmitEffect
<1>6. PathTypes'
  BY <1>1, <1>2, EmitKeepsTypes
<1>7. /\ IInv' /\ BaseIInv'
      /\ first # 0 => BaseDatagram' = BaseDatagram
  <2>1. Len(sent') \in Nat /\ Len(sent) <= Len(sent')
    BY <1>3, <1>4, <1>5
  <2>2. UNCHANGED <<vars, arrived, delivered, first, missingAtFirst>>
    BY <1>5
  <2>3. QED
    BY <1>5, <2>1, <2>2, BaseFrame
<1>8. Baseline(new)'
  <2>1. new .. Len(sent') = {new} /\ new - new = 0 /\ new <= new
    BY <1>5
  <2>2. Plus(s, 0) = s
    BY <1>2, SizesAssumption DEF Plus, SeqNo
  <2>3. InFlight' = {new}
    BY <1>2, <1>5
  <2>4. sent'[new].seq = Plus(sent'[new].seq, new - new)
    BY <1>5, <2>1, <2>2
  <2>5. QED
    BY <2>1, <2>3, <2>4 DEF Baseline
<1>9. Announced(new)'
  <2>1. first' = first /\ first < new
    <3>1. CASE first = 0
      BY <1>3, <1>4, <1>5, <3>1
    <3>2. CASE first # 0
      <4>1. first \in 1 .. Len(sent)
        BY <1>3, <3>2 DEF StreamIInv, BaseIInv
      <4>2. QED
        BY <1>3, <1>4, <1>5, <4>1
    <3>3. QED
      BY <3>1, <3>2
  <2>2. first # 0 => BaseDatagram' <= new
    <3>1. HAVE first # 0
    <3>2. BaseDatagram \in Nat /\ BaseDatagram <= Len(sent) + 1
      BY <3>1, ExpectedAtBase
    <3>3. QED
      BY <1>4, <1>7, <3>1, <3>2
  <2>3. QED
    BY <1>5, <2>1, <2>2 DEF Announced
<1>10. Numbering'
  BY <1>5, <1>8, <1>9 DEF Numbering
<1>11. QED
  BY <1>6, <1>7, <1>10

\* The numbering survives what happens to a datagram that did not begin it.
LEMMA NumberingFrame ==
    ASSUME StreamIInv, sent' = sent, first' = first, InFlight' \subseteq InFlight,
           first # 0 => BaseDatagram' = BaseDatagram,
           NEW i, \A j \in Datagram : j # i => net'[j] = net[j],
           NEW b \in Datagram, Baseline(b), Announced(b) \/ Settled(b),
           sent[b].restart => b # i
    PROVE  Numbering'
<1>1. Datagram' = Datagram
  BY DEF Datagram
<1>2. Baseline(b)'
  BY DEF Baseline
<1>3. sent[b].restart => net'[b] = net[b]
  OBVIOUS
<1>4. Announced(b)' \/ Settled(b)'
  <2>1. CASE Announced(b)
    BY <1>3, <2>1 DEF Announced
  <2>2. CASE Settled(b)
    BY <1>3, <2>2 DEF Settled
  <2>3. QED
    BY <2>1, <2>2
<1>5. QED
  BY <1>1, <1>2, <1>4 DEF Numbering

LEMMA LoseOrCopyKeeps ==
    ASSUME StreamIInv, PlainPath, NEW i \in InFlight, Lose(i) \/ Copy(i)
    PROVE  PathTypes' /\ Numbering' /\ IInv' /\ BaseIInv'
<1>1. /\ UNCHANGED <<vars, sent, arrived, delivered, first, missingAtFirst, ended>>
      /\ ~sent[i].restart
      /\ \/ net' = [net EXCEPT ![i] = @ - 1]
         \/ net' = [net EXCEPT ![i] = @ + 1] /\ window \in CopyWindows
  BY DEF Lose, Copy, PlainPath
<1>2. /\ i \in Datagram /\ i \in Payload /\ net[i] \in Nat /\ net[i] > 0
      /\ Len(sent) \in Nat /\ Datagram = 1 .. Len(sent) /\ Datagram \subseteq Payload
      /\ \A j \in Datagram : net[j] \in Nat
  BY StreamTypes DEF StreamIInv, InFlight
<1>3. net \in [Payload -> Nat]
  BY DEF StreamIInv, PathIInv, PathTypes
<1>4. /\ net' \in [Payload -> Nat]
      /\ \A j \in Payload : j # i => net'[j] = net[j]
      /\ window \notin CopyWindows => net'[i] = net[i] - 1
  BY <1>1, <1>2, <1>3
<1>5. /\ IInv' /\ BaseIInv' /\ Held' = Held
      /\ first # 0 => BaseDatagram' = BaseDatagram
  <2>1. /\ Len(sent') \in Nat /\ Len(sent) <= Len(sent')
        /\ \A j \in Datagram : sent'[j] = sent[j]
    BY <1>1, <1>2
  <2>2. UNCHANGED <<vars, arrived, delivered, first, missingAtFirst>>
    BY <1>1
  <2>3. QED
    BY <2>1, <2>2, BaseFrame
<1>6. Datagram' = Datagram /\ window' = window
  BY <1>1 DEF Datagram, vars
<1>7. InFlight' \subseteq InFlight
  <2>1. \A j \in Datagram : net'[j] > 0 => net[j] > 0
    BY <1>2, <1>4
  <2>2. QED
    BY <1>6, <2>1 DEF InFlight
<1>8. ~ended
  BY DEF StreamIInv, PathIInv, PathTypes
<1>9. PathTypes'
  <2>1. /\ sent \in Seq([seq : SeqNo, restart : BOOLEAN]) /\ Len(sent) <= MaxSent
        /\ \A j \in Payload : j > Len(sent) => net[j] = 0
        /\ arrived \subseteq Datagram
        /\ window \notin CopyWindows =>
              \A j \in Datagram : net[j] <= 1 /\ (j \in arrived => net[j] = 0)
    BY DEF StreamIInv, PathIInv, PathTypes
  <2>2. \A j \in Payload : j > Len(sent) => net'[j] = 0
    BY <1>2, <1>4, <2>1
  <2>3. window \notin CopyWindows =>
              \A j \in Datagram : net'[j] <= 1 /\ (j \in arrived => net'[j] = 0)
    BY <1>2, <1>4, <2>1
  <2>4. QED
    BY <1>1, <1>4, <1>6, <1>8, <2>1, <2>2, <2>3 DEF PathTypes
<1>10. Numbering'
  <2>1. sent # <<>>
    BY <1>2, EmptyIsNoDatagram
  <2>2. PICK b \in Datagram : Baseline(b) /\ (Announced(b) \/ Settled(b))
    BY <2>1 DEF StreamIInv, PathIInv, Numbering
  <2>3. \A j \in Datagram : j # i => net'[j] = net[j]
    BY <1>2, <1>4
  <2>4. QED
    BY <1>1, <1>5, <1>7, <2>2, <2>3, NumberingFrame
<1>11. QED
  BY <1>5, <1>9, <1>10

\* A datagram that arrives begins a baseline, or is of the settled one.
LEMMA ArriveOutcome ==
    ASSUME StreamIInv, PlainPath, NEW i \in InFlight, Arrive(i)
    PROVE  \E b \in Datagram :
              /\ Baseline(b)
              /\ \/ /\ Rebased(i) /\ Settled(b)' /\ (first # 0 => BaseDatagram <= i)
                    /\ first # 0 => sent[i].restart
                 \/ /\ first # 0 /\ Settled(b) /\ (sent[b].restart => b # i)
                    /\ first' = first
                    /\ \E New \in SUBSET {i}, c \in Int : TakesIn(i, New, c)
<1>1. /\ i \in Datagram /\ net[i] \in Nat /\ net[i] > 0 /\ i \in Payload
      /\ Len(sent) \in Nat /\ Datagram = 1 .. Len(sent)
      /\ sent[i].restart \in BOOLEAN
      /\ \A j \in Datagram : sent[j].restart \in BOOLEAN
  BY StreamTypes DEF StreamIInv, InFlight
<1>2. sent # <<>>
  BY <1>1, EmptyIsNoDatagram
<1>3. PICK b \in Datagram : Baseline(b) /\ (Announced(b) \/ Settled(b))
  BY <1>2 DEF StreamIInv, PathIInv, Numbering
<1>4. b <= i /\ b \in Nat /\ i \in Nat
  BY <1>1, <1>3 DEF Baseline
<1>5. i # b => ~sent[i].restart
  <2>1. i \in b .. Len(sent)
    BY <1>1, <1>4
  <2>2. QED
    BY <1>3, <2>1 DEF Baseline
<1>6. net'[i] = net[i] - 1 /\ sent' = sent
  BY <1>1 DEF Arrive, StreamIInv, PathIInv, PathTypes
<1>7. CASE Announced(b)
  <2>1. b \in InFlight /\ sent[b].restart /\ net[b] = 1 /\ first < b
    BY <1>7 DEF Announced, InFlight
  <2>2. i = b
    <3>1. \A j \in InFlight : j < i => ~sent[j].restart
      BY DEF Arrive, PlainPath
    <3>2. ~(b < i)
      BY <2>1, <3>1
    <3>3. QED
      BY <1>4, <3>2
  <2>3. Rebases(sent[i].restart)
    BY <2>1, <2>2 DEF Rebases
  <2>4. Rebased(i)
    BY <2>3, RebaseEffect
  <2>5. Settled(b)'
    <3>1. first' = b /\ first' # 0
      BY <1>1, <2>2, <2>4 DEF Rebased
    <3>2. net'[b] = 0
      BY <1>6, <2>1, <2>2
    <3>3. b <= first'
      BY <1>4, <3>1
    <3>4. QED
      BY <3>1, <3>2, <3>3 DEF Settled
  <2>6. first # 0 => BaseDatagram <= i
    BY <1>7, <2>2 DEF Announced
  <2>7. QED
    BY <1>3, <2>1, <2>2, <2>4, <2>5, <2>6
<1>8. CASE Settled(b) /\ first = 0
  <2>1. expected = None /\ ~sent[b].restart
    BY <1>8 DEF StreamIInv, BaseIInv, Settled
  <2>2. Rebased(i)
    BY <2>1, RebaseEffect DEF Rebases
  <2>3. Settled(b)'
    <3>1. first' = i /\ i # 0
      BY <1>1, <2>2 DEF Rebased
    <3>2. QED
      BY <1>4, <1>6, <2>1, <3>1 DEF Settled
  <2>4. QED
    BY <1>3, <1>8, <2>2, <2>3
<1>9. CASE Settled(b) /\ first # 0
  <2>1. \E New \in SUBSET {i}, c \in Int : TakesIn(i, New, c)
    BY <1>3, <1>9, ArriveTakesIn
  <2>2. Carries
    BY <1>3, <1>9, ArrivesInBaseline
  <2>3. sent[b].restart => b # i
    BY <1>1, <1>9 DEF Settled
  <2>4. QED
    BY <1>3, <1>9, <2>1, <2>2, <2>3 DEF Carries
<1>10. QED
  BY <1>3, <1>7, <1>8, <1>9

LEMMA ArriveKeeps ==
    ASSUME StreamIInv, PlainPath, NEW i \in InFlight, Arrive(i)
    PROVE  PathTypes' /\ Numbering' /\ IInv' /\ BaseIInv'
<1>1. /\ i \in Datagram /\ i \in Payload /\ net[i] \in Nat /\ net[i] > 0
      /\ Len(sent) \in Nat /\ Datagram = 1 .. Len(sent) /\ Datagram \subseteq Payload
      /\ \A j \in Datagram : net[j] \in Nat
      /\ sent[i].seq \in SeqNo /\ sent[i].restart \in BOOLEAN
  BY StreamTypes DEF StreamIInv, InFlight
<1>2. net \in [Payload -> Nat] /\ ~ended
  BY DEF StreamIInv, PathIInv, PathTypes
<1>3. /\ Feed(i, sent[i].seq, sent[i].restart)
      /\ net' = [net EXCEPT ![i] = @ - 1]
      /\ arrived' = arrived \cup {i}
      /\ sent' = sent /\ ended' = ended
  BY DEF Arrive
<1>4. IInv' /\ StepCounts
  BY <1>1, <1>3, FeedKeeps DEF StreamIInv
<1>5. window' = window /\ Datagram' = Datagram
  BY <1>3 DEF Feed, Datagram
<1>6. /\ net' \in [Payload -> Nat] /\ net'[i] = net[i] - 1
      /\ \A j \in Payload : j # i => net'[j] = net[j]
  BY <1>1, <1>2, <1>3
<1>7. PathTypes'
  <2>1. /\ sent \in Seq([seq : SeqNo, restart : BOOLEAN]) /\ Len(sent) <= MaxSent
        /\ \A j \in Payload : j > Len(sent) => net[j] = 0
        /\ arrived \subseteq Datagram
        /\ window \notin CopyWindows =>
              \A j \in Datagram : net[j] <= 1 /\ (j \in arrived => net[j] = 0)
    BY DEF StreamIInv, PathIInv, PathTypes
  <2>2. \A j \in Payload : j > Len(sent) => net'[j] = 0
    BY <1>1, <1>6, <2>1
  <2>3. window \notin CopyWindows =>
              \A j \in Datagram : net'[j] <= 1 /\ (j \in arrived \cup {i} => net'[j] = 0)
    BY <1>1, <1>6, <2>1
  <2>4. QED
    BY <1>1, <1>2, <1>3, <1>5, <1>6, <2>1, <2>2, <2>3 DEF PathTypes
<1>8. InFlight' \subseteq InFlight
  <2>1. \A j \in Datagram : net'[j] > 0 => net[j] > 0
    BY <1>1, <1>6
  <2>2. QED
    BY <1>5, <2>1 DEF InFlight
<1>9. PICK b \in Datagram :
              /\ Baseline(b)
              /\ \/ /\ Rebased(i) /\ Settled(b)' /\ (first # 0 => BaseDatagram <= i)
                 \/ /\ first # 0 /\ Settled(b) /\ (sent[b].restart => b # i)
                    /\ first' = first
                    /\ \E New \in SUBSET {i}, c \in Int : TakesIn(i, New, c)
  BY ArriveOutcome
<1>10. Baseline(b)'
  BY <1>3, <1>8, <1>9 DEF Baseline
<1>11. CASE Rebased(i) /\ Settled(b)' /\ (first # 0 => BaseDatagram <= i)
  <2>1. BaseIInv'
    BY <1>1, <1>11, RebaseKeepsBase
  <2>2. Numbering'
    BY <1>5, <1>10, <1>11 DEF Numbering
  <2>3. QED
    BY <1>4, <1>7, <2>1, <2>2
<1>12. CASE /\ first # 0 /\ Settled(b) /\ (sent[b].restart => b # i)
            /\ first' = first
            /\ \E New \in SUBSET {i}, c \in Int : TakesIn(i, New, c)
  <2>1. PICK New \in SUBSET {i}, c \in Int : TakesIn(i, New, c)
    BY <1>12
  <2>2. Moves(New, c)
    BY <2>1 DEF TakesIn
  <2>3. stats' \in [Counters -> Nat] /\ stats'.received - stats.received = Len(out')
    BY <1>4 DEF StepCounts, IInv, TypeOK
  <2>4. New \subseteq arrived' /\ arrived \subseteq arrived'
    BY <1>3, <2>1
  <2>5. BaseIInv'
    BY <1>12, <2>2, <2>3, <2>4, MoveKeeps
  <2>6. Settled(b)'
    <3>1. sent[b].restart => net'[b] = net[b]
      BY <1>1, <1>6, <1>12
    <3>2. QED
      BY <1>3, <1>12, <3>1 DEF Settled
  <2>7. Numbering'
    BY <1>5, <1>10, <2>6 DEF Numbering
  <2>8. QED
    BY <1>4, <1>7, <2>5, <2>7
<1>13. QED
  BY <1>9, <1>11, <1>12

\* At the end the base moves past all that is held, or there never was a base.
LEMMA EndOutcome ==
    ASSUME StreamIInv, EndOfStream
    PROVE  /\ Held' = {} /\ first' = first /\ sent' = sent /\ ended' = TRUE
           /\ Flush /\ UNCHANGED <<path, arrived, missingAtFirst>>
           /\ delivered' = delivered \o out'
           /\ \/ /\ first # 0
                 /\ \E c \in Int : /\ Moves({}, c)
                                   /\ c <= BaseDatagram \/ \E h \in HeldDatagrams : c = h + 1
              \/ first = 0 /\ Held = {} /\ out' = <<>> /\ expected' = expected /\ stats' = stats
<1>1. /\ Flush /\ delivered' = delivered \o out' /\ ended' = TRUE
      /\ UNCHANGED <<path, arrived, first, missingAtFirst>> /\ InFlight = {}
      /\ sent' = sent
  BY DEF EndOfStream, path
<1>2. CASE first = 0
  <2>1. Held = {}
    BY <1>2 DEF StreamIInv, BaseIInv, IInv, TypeOK
  <2>2. out' = <<>> /\ UNCHANGED <<expected, stats, pending>>
    BY <1>1, <2>1 DEF Flush, Held
  <2>3. Held' = {}
    BY <2>1, <2>2 DEF Held
  <2>4. QED
    BY <1>1, <1>2, <2>1, <2>2, <2>3
<1>3. CASE first # 0
  <2>1. sent # <<>>
    BY <1>3, EmptyIsNoDatagram DEF StreamIInv, BaseIInv
  <2>2. PICK b \in Datagram : Baseline(b) /\ (Announced(b) \/ Settled(b))
    BY <2>1 DEF StreamIInv, PathIInv, Numbering
  <2>3. Settled(b)
    <3>1. ~Announced(b)
      BY <1>1 DEF Announced, InFlight
    <3>2. QED
      BY <2>2, <3>1
  <2>4. Carries
    BY <1>1 DEF Carries
  <2>5. \E c \in Int : /\ Moves({}, c)
                       /\ c <= BaseDatagram \/ \E h \in HeldDatagrams : c = h + 1
                       /\ Held' = {}
    BY <1>1, <1>3, <2>2, <2>3, <2>4, FlushMoves
  <2>6. QED
    BY <1>1, <1>3, <2>5
<1>4. QED
  BY <1>2, <1>3

LEMMA EndKeeps ==
    ASSUME StreamIInv, EndOfStream
    PROVE  PathTypes' /\ Numbering' /\ IInv' /\ BaseIInv'
<1>1. /\ Held' = {} /\ first' = first /\ sent' = sent /\ ended' = TRUE
      /\ Flush /\ UNCHANGED <<path, arrived, missingAtFirst>>
      /\ delivered' = delivered \o out'
      /\ \/ /\ first # 0
            /\ \E c \in Int : /\ Moves({}, c)
                              /\ c <= BaseDatagram \/ \E h \in HeldDatagrams : c = h + 1
         \/ first = 0 /\ Held = {} /\ out' = <<>> /\ expected' = expected /\ stats' = stats
  BY EndOutcome
<1>2. IInv' /\ StepCounts
  BY <1>1, FlushKeeps DEF StreamIInv
<1>3. /\ net' = net /\ arrived' = arrived /\ window' = window /\ Datagram' = Datagram
      /\ missingAtFirst' = missingAtFirst
  BY <1>1 DEF path, Flush, Datagram
<1>4. InFlight' = InFlight /\ InFlight = {} /\ Len(sent) = MaxSent
  BY <1>3 DEF InFlight, EndOfStream
<1>5. PathTypes'
  BY <1>1, <1>3, <1>4 DEF StreamIInv, PathIInv, PathTypes
<1>6. ASSUME /\ first # 0
             /\ \E c \in Int : /\ Moves({}, c)
                               /\ c <= BaseDatagram \/ \E h \in HeldDatagrams : c = h + 1
      PROVE  BaseIInv'
  <2>1. PICK c \in Int : Moves({}, c)
    BY <1>6
  <2>2. stats' \in [Counters -> Nat] /\ stats'.received - stats.received = Len(out')
    BY <1>2 DEF StepCounts, IInv, TypeOK
  <2>3. BaseIInv'
    BY <1>3, <1>6, <2>1, <2>2, MoveKeeps
  <2>4. QED
    BY <2>3
<1>7. ASSUME first = 0 /\ Held = {} /\ out' = <<>> /\ expected' = expected /\ stats' = stats
      PROVE  BaseIInv'
  <2>1. delivered' = <<>> /\ delivered = <<>>
    BY <1>1, <1>7 DEF StreamIInv, BaseIInv
  <2>2. Skipped' = {} /\ Skipped = {}
    BY <1>1, <1>7 DEF Skipped
  <2>3. BaseIInv
    BY DEF StreamIInv
  <2>4. MissingIsExact'
    BY <1>3, <1>7, <2>2, <2>3 DEF BaseIInv, MissingIsExact
  <2>5. HeldInPlace'
    BY <1>1 DEF HeldInPlace
  <2>6. QED
    BY <1>1, <1>3, <1>7, <2>1, <2>3, <2>4, <2>5 DEF BaseIInv
<1>8. BaseIInv'
  BY <1>1, <1>6, <1>7
<1>9. Numbering'
  <2>1. ASSUME sent # <<>>
        PROVE  \E b \in Datagram : Baseline(b)' /\ Settled(b)'
    <3>1. PICK b \in Datagram : Baseline(b) /\ (Announced(b) \/ Settled(b))
      BY <2>1 DEF StreamIInv, PathIInv, Numbering
    <3>2. ~Announced(b)
      BY <1>4 DEF Announced, InFlight
    <3>3. Baseline(b)' /\ Settled(b)'
      BY <1>1, <1>3, <1>4, <3>1, <3>2 DEF Baseline, Settled
    <3>4. QED
      BY <3>3
  <2>2. QED
    BY <1>1, <1>3, <2>1 DEF Numbering
<1>10. QED
  BY <1>2, <1>5, <1>8, <1>9

-----------------------------------------------------------------------------
(* The theorems about the stream.                                          *)

LEMMA StreamStepHolds ==
    ASSUME PlainPath, StreamIInv, [StreamNext]_streamVars
    PROVE  StreamIInv'
<1>1. CASE Send
  BY <1>1, SendKeepsNumbering DEF StreamIInv, PathIInv
<1>2. CASE Respawn
  BY <1>2, RespawnKeepsNumbering DEF StreamIInv, PathIInv
<1>3. ASSUME NEW i \in InFlight, Lose(i) \/ Copy(i)
      PROVE  StreamIInv'
  BY <1>3, LoseOrCopyKeeps DEF StreamIInv, PathIInv
<1>4. ASSUME NEW i \in InFlight, Arrive(i)
      PROVE  StreamIInv'
  BY <1>4, ArriveKeeps DEF StreamIInv, PathIInv
<1>5. CASE EndOfStream
  BY <1>5, EndKeeps DEF StreamIInv, PathIInv
<1>6. CASE UNCHANGED streamVars
  <2>1. /\ UNCHANGED <<vars, arrived, delivered, first, missingAtFirst>>
        /\ sent' = sent /\ net' = net /\ ended' = ended /\ window' = window
    BY <1>6 DEF streamVars, path, vars
  <2>2. Len(sent) \in Nat
    BY StreamTypes DEF StreamIInv
  <2>3. /\ IInv' /\ BaseIInv' /\ Held' = Held
        /\ first # 0 => BaseDatagram' = BaseDatagram
    BY <2>1, <2>2, BaseFrame
  <2>4. Datagram' = Datagram /\ InFlight' = InFlight
    BY <2>1 DEF Datagram, InFlight
  <2>5. PathTypes'
    BY <2>1, <2>3, <2>4 DEF StreamIInv, PathIInv, PathTypes
  <2>6. \A b \in Datagram : /\ Baseline(b) => Baseline(b)'
                            /\ Announced(b) => Announced(b)'
                            /\ Settled(b) => Settled(b)'
    BY <2>1, <2>3, <2>4 DEF Baseline, Announced, Settled
  <2>7. Numbering'
    BY <2>1, <2>4, <2>6 DEF StreamIInv, PathIInv, Numbering
  <2>8. QED
    BY <2>3, <2>5, <2>7 DEF StreamIInv, PathIInv
<1>7. QED
  BY <1>1, <1>2, <1>3, <1>4, <1>5, <1>6 DEF StreamNext, Done

LEMMA StreamInvariance == PlainPath => (StreamSpec => []StreamIInv)
<1> SUFFICES ASSUME PlainPath
             PROVE  StreamSpec => []StreamIInv
  OBVIOUS
<1>1. StreamIInv /\ [StreamNext]_streamVars => StreamIInv'
  BY StreamStepHolds
<1>2. QED
  BY <1>1, StreamInitHolds, PTL DEF StreamSpec

\* The client hands its reader a subsequence of what the daemon sent, in order
\* and without a repetition, across wraps, re-spawns, losses and overtaking.
LEMMA StreamStepDelivers ==
    ASSUME PlainPath, StreamIInv, [StreamNext]_streamVars
    PROVE  [Stream!Next]_<<Len(sent), delivered>>
<1>1. StreamIInv'
  BY StreamStepHolds
<1>2. Len(sent) \in Nat /\ Len(sent') \in Nat
  <2>1. Len(sent) \in Nat
    BY StreamTypes DEF StreamIInv
  <2>2. sent' \in Seq([seq : SeqNo, restart : BOOLEAN])
    BY <1>1 DEF StreamIInv, PathIInv, PathTypes
  <2>3. QED
    BY <2>1, <2>2
<1>3. ASSUME NEW s \in SeqNo, NEW restart \in BOOLEAN, Emit(s, restart)
      PROVE  Stream!Next
  BY <1>3, EmitEffect DEF Stream!Next, Stream!Send
<1>4. CASE Send
  <2>1. Len(sent') = Len(sent) + 1 /\ delivered' = delivered
    <3>1. PICK s : Emit(s, FALSE)
      BY <1>4 DEF Send
    <3>2. sent' = Append(sent, [seq |-> s, restart |-> FALSE]) /\ delivered' = delivered
      BY <3>1 DEF Emit
    <3> DEFINE d == [seq |-> s, restart |-> FALSE]
    <3> HIDE DEF d
    <3>3. sent \in Seq([seq : SeqNo, restart : BOOLEAN])
      BY DEF StreamIInv, PathIInv, PathTypes
    <3>4. QED
      BY <3>2, <3>3 DEF d
  <2>2. QED
    BY <2>1 DEF Stream!Next, Stream!Send
<1>5. CASE Respawn
  <2>1. PICK s \in RestartSeqs : Emit(s, TRUE)
    BY <1>5 DEF Respawn
  <2>2. s \in SeqNo
    BY StreamAssumption
  <2>3. QED
    BY <1>3, <2>1, <2>2
<1>6. ASSUME sent' = sent, delivered' = delivered \o out', first' # 0, out' # <<>>,
             out' \in Seq(Payload)
      PROVE  Stream!Next
  <2>1. /\ Stretch(delivered', 1, BaseDatagram') /\ BaseDatagram' \in first' + 1 .. Len(sent') + 1
        /\ first' \in 1 .. Len(sent')
    BY <1>1, <1>6 DEF StreamIInv, BaseIInv, Datagram
  <2>2. delivered \in Seq(Int)
    <3>1. CASE first = 0
      BY <3>1 DEF StreamIInv, BaseIInv
    <3>2. CASE first # 0
      BY <3>2 DEF StreamIInv, BaseIInv, Stretch
    <3>3. QED
      BY <3>1, <3>2
  <2>3. out' \in Seq(Int)
    BY <1>6, StreamSizes
  <2> DEFINE m == Len(delivered)
             n == Len(delivered')
  <2>4. m \in Nat /\ n \in Nat /\ n > m /\ SubSeq(delivered', 1, m) = delivered
    BY <1>6, <2>2, <2>3
  <2>5. /\ \A i \in 1 .. n : 1 <= delivered'[i] /\ delivered'[i] < BaseDatagram' /\ delivered'[i] \in Int
        /\ \A i, j \in 1 .. n : i < j => delivered'[i] < delivered'[j]
    BY <2>1 DEF Stretch
  <2>6. BaseDatagram' \in Nat /\ BaseDatagram' <= Len(sent) + 1
    <3>1. \A x, y \in Nat : \A z : x \in 1 .. y /\ z \in x + 1 .. y + 1 => z \in Nat /\ z <= y + 1
      OBVIOUS
    <3>2. first' \in Nat /\ Len(sent') = Len(sent)
      BY <1>2, <1>6, <2>1
    <3>3. QED
      BY <1>2, <2>1, <3>1, <3>2
  <2> HIDE DEF m, n
  <2>7. \A i \in m + 1 .. n : /\ delivered'[i] \in 1 .. Len(sent)
                              /\ i > 1 => delivered'[i - 1] < delivered'[i]
    <3>1. TAKE i \in m + 1 .. n
    <3>2. i \in 1 .. n
      BY <2>4
    <3>3. delivered'[i] \in 1 .. Len(sent)
      BY <1>2, <2>5, <2>6, <3>2
    <3>4. i > 1 => i - 1 \in 1 .. n /\ i - 1 < i
      BY <2>4, <3>2
    <3>5. QED
      BY <2>5, <3>2, <3>3, <3>4
  <2>8. Len(sent') = Len(sent)
    BY <1>6
  <2>9. Stream!Deliver
    BY <2>4, <2>7, <2>8 DEF Stream!Deliver, m, n
  <2>10. QED
    BY <2>9 DEF Stream!Next
<1>7. ASSUME sent' = sent, delivered' = delivered \o out', out' = <<>>
      PROVE  UNCHANGED <<Len(sent), delivered>>
  <2>1. delivered \in Seq(Int)
    <3>1. CASE first = 0
      BY <3>1 DEF StreamIInv, BaseIInv
    <3>2. CASE first # 0
      BY <3>2 DEF StreamIInv, BaseIInv, Stretch
    <3>3. QED
      BY <3>1, <3>2
  <2>2. QED
    BY <1>7, <2>1
<1>8. ASSUME NEW i \in InFlight, Arrive(i)
      PROVE  [Stream!Next]_<<Len(sent), delivered>>
  <2>1. sent' = sent /\ delivered' = delivered \o out'
    BY <1>8 DEF Arrive
  <2>2. out' \in Seq(Payload)
    BY <1>1 DEF StreamIInv, IInv, TypeOK
  <2>3. first' # 0
    <3>1. i \in Nat /\ i # 0
      BY StreamTypes, StreamSizes DEF StreamIInv
    <3>2. CASE Rebases(sent[i].restart)
      BY <1>8, <3>1, <3>2 DEF Arrive
    <3>3. CASE ~Rebases(sent[i].restart)
      <4>1. expected # None /\ first' = first
        BY <1>8, <3>3 DEF Arrive, Rebases
      <4>2. QED
        BY <4>1 DEF StreamIInv, BaseIInv
    <3>4. QED
      BY <3>2, <3>3
  <2>4. QED
    BY <1>6, <1>7, <2>1, <2>2, <2>3
<1>9. CASE EndOfStream
  <2>1. sent' = sent /\ delivered' = delivered \o out' /\ (first' = 0 => out' = <<>>)
    BY <1>9, EndOutcome
  <2>2. out' \in Seq(Payload)
    BY <1>1 DEF StreamIInv, IInv, TypeOK
  <2>3. QED
    BY <1>6, <1>7, <2>1, <2>2
<1>10. ASSUME NEW i \in InFlight, Lose(i) \/ Copy(i)
       PROVE  UNCHANGED <<Len(sent), delivered>>
  BY <1>10 DEF Lose, Copy
<1>11. CASE UNCHANGED streamVars
  BY <1>11 DEF streamVars, path
<1>12. QED
  BY <1>4, <1>5, <1>8, <1>9, <1>10, <1>11 DEF StreamNext, Done

\* The tracker keeps the promise of LossyStream: each datagram at most once, in
\* the order sent, whatever the path loses and overtakes and wherever the daemon
\* restarts its numbers.
THEOREM DeliversInOrder == PlainPath => (StreamSpec => DeliversLossyStream)
<1> SUFFICES ASSUME PlainPath
             PROVE  StreamSpec => Stream!Spec
  BY DEF DeliversLossyStream
<1>1. StreamInit => Stream!Init
  BY DEF StreamInit, Stream!Init
<1>2. StreamIInv /\ [StreamNext]_streamVars => [Stream!Next]_<<Len(sent), delivered>>
  BY StreamStepDelivers
<1>3. StreamSpec => []StreamIInv
  BY StreamInvariance
<1>4. QED
  BY <1>1, <1>2, <1>3, PTL DEF StreamSpec, Stream!Spec

-----------------------------------------------------------------------------
(* What is known of the datagrams that arrived, where no number is used     *)
(* twice.                                                                  *)

NumbersDistinct == \A i, j \in Datagram : sent[i].seq = sent[j].seq => i = j

\* Nothing in flight was overtaken by more than the path overtakes, and a
\* RESTART datagram not at all.
FlightIInv ==
    /\ \A j \in InFlight, h \in arrived : h > j => h - j <= MaxOvertake
    /\ \A j \in InFlight : sent[j].restart => net[j] = 1 /\ \A h \in arrived : h < j

\* A datagram that arrived is behind the base or held, and in the window; the
\* numbers remembered are numbers that arrived.
KnownIInv ==
    /\ \A j \in arrived : /\ j < BaseDatagram + window
                          /\ j >= BaseDatagram => j \in HeldDatagrams
    /\ \A t \in seenSet : \E j \in arrived : sent[j].seq = t
    /\ OnlyLostAreSkipped

DistinctIInv == StreamIInv /\ FlightIInv /\ KnownIInv

LEMMA DistinctInitHolds == StreamInit => DistinctIInv
<1> SUFFICES ASSUME StreamInit PROVE DistinctIInv
  OBVIOUS
<1>1. arrived = {} /\ seenSet = {} /\ sent = <<>> /\ first = 0
  BY DEF StreamInit, Init
<1>2. InFlight = {}
  BY <1>1 DEF InFlight, Datagram
<1>3. OnlyLostAreSkipped
  BY <1>1 DEF OnlyLostAreSkipped, Skipped
<1>4. QED
  BY <1>1, <1>2, <1>3, StreamInitHolds DEF DistinctIInv, FlightIInv, KnownIInv

\* What a fed datagram leaves in the memory of numbers seen.
LEMMA FeedSees ==
    ASSUME NEW p, NEW s, NEW restart, Feed(p, s, restart)
    PROVE  /\ MarkSeen(s) \/ (UNCHANGED <<seen, seenSet>> /\ Known(s))
           /\ seenSet' \subseteq seenSet \cup {s}
<1>1. MarkSeen(s) \/ (UNCHANGED <<seen, seenSet>> /\ Known(s))
  <2>1. CASE Track(p, s, restart)
    BY <2>1 DEF Track, TrackAccept, Behind
  <2>2. CASE FeedBuffered(p, s, restart)
    BY <2>2 DEF FeedBuffered, FeedRebase, FeedInOrder, FeedSwitch, FeedEarlyCopy, FeedHold,
                Accept, Behind
  <2>3. QED
    BY <2>1, <2>2 DEF Feed
<1>2. MarkSeen(s) => seenSet' \subseteq seenSet \cup {s}
  BY DEF MarkSeen
<1>3. QED
  BY <1>1, <1>2

\* A known number is that of a datagram that arrived.
LEMMA KnownArrived ==
    ASSUME StreamIInv, KnownIInv, NumbersDistinct, NEW i \in Datagram, Known(sent[i].seq)
    PROVE  i \in arrived
<1>1. arrived \subseteq Datagram
  BY DEF StreamIInv, PathIInv, PathTypes
<1>2. CASE sent[i].seq \in Held
  <2>1. pending[sent[i].seq] \in arrived /\ sent[pending[sent[i].seq]].seq = sent[i].seq
    BY <1>2 DEF StreamIInv, BaseIInv, HeldInPlace
  <2>2. QED
    BY <1>1, <2>1 DEF NumbersDistinct
<1>3. CASE sent[i].seq \in seenSet
  <2>1. PICK j \in arrived : sent[j].seq = sent[i].seq
    BY <1>3 DEF KnownIInv
  <2>2. QED
    BY <1>1, <2>1 DEF NumbersDistinct
<1>4. QED
  BY <1>2, <1>3 DEF Known, Held

\* The parts of an arrival.
LEMMA ArriveParts ==
    ASSUME StreamIInv, NEW i \in InFlight, Arrive(i)
    PROVE  /\ i \in Datagram /\ i \in Nat /\ Datagram' = Datagram /\ sent' = sent
           /\ arrived' = arrived \cup {i} /\ window' = window
           /\ net'[i] = net[i] - 1 /\ net[i] \in Nat /\ net[i] > 0
           /\ \A j \in Datagram : j # i => net'[j] = net[j]
           /\ InFlight' \subseteq InFlight
           /\ \A j \in InFlight' : j \in Nat
           /\ Feed(i, sent[i].seq, sent[i].restart)
<1>1. /\ i \in Datagram /\ i \in Payload /\ i \in Nat /\ net[i] \in Nat /\ net[i] > 0
      /\ Datagram \subseteq Payload
      /\ \A j \in Datagram : net[j] \in Nat /\ j \in Nat
  BY StreamTypes, StreamSizes DEF StreamIInv, InFlight
<1>2. net \in [Payload -> Nat]
  BY DEF StreamIInv, PathIInv, PathTypes
<1>3. /\ Feed(i, sent[i].seq, sent[i].restart)
      /\ net' = [net EXCEPT ![i] = @ - 1]
      /\ arrived' = arrived \cup {i}
      /\ sent' = sent
  BY DEF Arrive
<1>4. window' = window /\ Datagram' = Datagram
  BY <1>3 DEF Feed, Datagram
<1>5. net'[i] = net[i] - 1 /\ \A j \in Datagram : j # i => net'[j] = net[j]
  BY <1>1, <1>2, <1>3
<1>6. InFlight' \subseteq InFlight
  <2>1. \A j \in Datagram : net'[j] > 0 => net[j] > 0
    BY <1>1, <1>5
  <2>2. QED
    BY <1>4, <2>1 DEF InFlight
<1>7. QED
  BY <1>1, <1>3, <1>4, <1>5, <1>6 DEF InFlight

LEMMA ArriveKeepsFlight ==
    ASSUME StreamIInv, PlainPath, FlightIInv, NEW i \in InFlight, Arrive(i)
    PROVE  FlightIInv'
<1>1. /\ i \in Datagram /\ i \in Nat /\ Datagram' = Datagram /\ sent' = sent
      /\ arrived' = arrived \cup {i}
      /\ net'[i] = net[i] - 1 /\ net[i] \in Nat
      /\ \A j \in Datagram : j # i => net'[j] = net[j]
      /\ InFlight' \subseteq InFlight
      /\ \A j \in InFlight' : j \in Nat
  BY ArriveParts
<1>2. \A j \in InFlight : j < i => i - j <= MaxOvertake /\ ~sent[j].restart
  BY DEF Arrive, PlainPath
<1>3. \A j \in InFlight', h \in arrived' : h > j => h - j <= MaxOvertake
  <2>1. TAKE j \in InFlight', h \in arrived'
  <2>2. CASE h = i
    BY <1>1, <1>2, <2>2
  <2>3. CASE h # i
    BY <1>1, <2>3 DEF FlightIInv
  <2>4. QED
    BY <2>2, <2>3
<1>4. \A j \in InFlight' : sent[j].restart => net'[j] = 1 /\ \A h \in arrived' : h < j
  <2>1. TAKE j \in InFlight'
  <2>2. HAVE sent[j].restart
  <2>3. j \in InFlight /\ net[j] = 1 /\ \A h \in arrived : h < j
    BY <1>1, <2>2 DEF FlightIInv
  <2>4. net'[j] > 0 /\ j \in Datagram
    BY <1>1 DEF InFlight
  <2>5. j # i
    BY <1>1, <2>3, <2>4
  <2>6. ~(j < i)
    BY <1>2, <2>2, <2>3
  <2>7. i < j
    BY <1>1, <2>5, <2>6
  <2>8. QED
    BY <1>1, <2>3, <2>4, <2>5, <2>7
<1>5. QED
  BY <1>1, <1>3, <1>4 DEF FlightIInv

\* What was given up by a move of the base was not in flight and never came.
LEMMA GivenUpIsLost ==
    ASSUME StreamIInv, FlightIInv, KnownIInv, first # 0, MaxOvertake < window,
           NEW New, NEW c, Moves(New, c), GivenUp(New, c),
           NEW x \in Missed(BaseDatagram, c, PlacesOf(out')), x \in InFlight \cup arrived,
           \A h \in New : (h = x \/ x \in arrived \/ h - x <= MaxOvertake),
           New \subseteq Datagram
    PROVE  FALSE
<1> DEFINE B == BaseDatagram
<1>1. /\ B \in Nat /\ window \in Nat /\ MaxOvertake \in Nat
      /\ HeldDatagrams \subseteq arrived
  <2>1. HeldDatagrams \subseteq arrived
    BY DEF StreamIInv, BaseIInv, HeldInPlace, HeldDatagrams
  <2>2. MaxOvertake \in Nat
    BY StreamAssumption
  <2>3. QED
    BY <2>1, <2>2, ExpectedAtBase, WindowRange DEF StreamIInv
<1>2. c \in Int
  <2>1. Len(sent) \in Nat
    BY StreamTypes DEF StreamIInv
  <2>2. c \in B .. Len(sent) + 1
    BY DEF Moves
  <2>3. QED
    BY <1>1, <2>1, <2>2
<1>3. x \in B .. c - 1 /\ x \notin PlacesOf(out')
  BY DEF Missed
<1>4. x \in Int /\ B <= x /\ x < c
  BY <1>1, <1>2, <1>3
<1>5. PlacesOf(out') = {p \in HeldDatagrams \cup New : p < c}
  BY DEF Moves
<1>6. x \notin HeldDatagrams \cup New
  BY <1>3, <1>4, <1>5
<1>7. x \notin arrived
  BY <1>4, <1>6 DEF KnownIInv
<1>8. PICK h \in HeldDatagrams \cup New : x + window <= h
  BY <1>3 DEF GivenUp
<1>9. h \in Int
  <2>1. arrived \subseteq Datagram /\ Datagram \subseteq Payload
    BY StreamTypes DEF StreamIInv, PathIInv, PathTypes
  <2>2. QED
    BY <1>1, <1>8, <2>1, StreamSizes
<1>10. h - x <= MaxOvertake
  <2>1. CASE h \in New
    BY <1>6, <1>7, <2>1
  <2>2. CASE h \in HeldDatagrams
    <3>1. h \in arrived /\ x \in InFlight
      BY <1>1, <1>7, <2>2
    <3>2. h > x
      BY <1>1, <1>4, <1>8, <1>9, <3>1, <1>7
    <3>3. QED
      BY <3>1, <3>2 DEF FlightIInv
  <2>3. QED
    BY <1>8, <2>1, <2>2
<1>11. QED
  BY <1>1, <1>4, <1>8, <1>9, <1>10

\* A move of the base keeps what is known of the datagrams.
LEMMA MoveKeepsKnown ==
    ASSUME StreamIInv, FlightIInv, KnownIInv, first # 0, window' = window,
           NEW New \in SUBSET Datagram, NEW c \in Int, Moves(New, c), GivenUp(New, c),
           BaseDatagram' = c,
           Skipped' = Skipped \cup Missed(BaseDatagram, c, PlacesOf(out')),
           InFlight' \cup arrived' \subseteq InFlight \cup arrived,
           \A j \in arrived' : j \in Nat /\ (j \in arrived \/ j \in New),
           \A h \in New : h < c + window,
           \A h \in New, x \in InFlight :
               (h = x \/ x \in arrived \/ h - x <= MaxOvertake),
           \A t \in seenSet' : \E j \in arrived' : sent[j].seq = t
    PROVE  KnownIInv'
<1>1. /\ BaseDatagram \in Nat /\ window \in Nat /\ BaseDatagram <= c /\ sent' = sent
      /\ HeldDatagrams' = {p \in HeldDatagrams \cup New : p >= c}
  <2>1. Len(sent) \in Nat
    BY StreamTypes DEF StreamIInv
  <2>2. c \in BaseDatagram .. Len(sent) + 1
    BY DEF Moves
  <2>3. BaseDatagram \in Nat
    BY ExpectedAtBase
  <2>4. QED
    BY <2>1, <2>2, <2>3, WindowRange DEF StreamIInv, Moves
<1>2. \A j \in arrived' : j < c + window /\ (j >= c => j \in HeldDatagrams')
  <2>1. TAKE j \in arrived'
  <2>2. CASE j \in arrived
    <3>1. j < BaseDatagram + window /\ (j >= BaseDatagram => j \in HeldDatagrams)
      BY <2>2 DEF KnownIInv
    <3>2. j \in Nat
      OBVIOUS
    <3>3. QED
      BY <1>1, <3>1, <3>2
  <2>3. CASE j \in New
    BY <1>1, <2>3
  <2>4. QED
    BY <2>2, <2>3
<1>3. OnlyLostAreSkipped'
  <2>1. SUFFICES ASSUME MaxOvertake < window, NEW x \in Skipped', x \in InFlight' \cup arrived'
                 PROVE  FALSE
    BY DEF OnlyLostAreSkipped
  <2>2. x \in InFlight \cup arrived
    BY <2>1
  <2>3. CASE x \in Skipped
    BY <2>1, <2>2, <2>3 DEF KnownIInv, OnlyLostAreSkipped
  <2>4. CASE x \in Missed(BaseDatagram, c, PlacesOf(out'))
    <3>1. \A h \in New : (h = x \/ x \in arrived \/ h - x <= MaxOvertake)
      BY <2>2
    <3>2. New \subseteq Datagram
      OBVIOUS
    <3>3. QED
      BY <2>1, <2>2, <2>4, <3>1, <3>2, GivenUpIsLost
  <2>5. QED
    BY <2>1, <2>3, <2>4
<1>4. QED
  BY <1>1, <1>2, <1>3 DEF KnownIInv

LEMMA ArriveKeepsKnown ==
    ASSUME DistinctIInv, PlainPath, NumbersDistinct, NEW i \in InFlight, Arrive(i)
    PROVE  KnownIInv'
<1>0. StreamIInv /\ FlightIInv /\ KnownIInv
  BY DEF DistinctIInv
<1>1. /\ i \in Datagram /\ i \in Nat /\ Datagram' = Datagram /\ sent' = sent
      /\ arrived' = arrived \cup {i} /\ window' = window
      /\ InFlight' \subseteq InFlight
      /\ Feed(i, sent[i].seq, sent[i].restart)
  BY <1>0, ArriveParts
<1>2. \A t \in seenSet' : \E j \in arrived' : sent[j].seq = t
  <2>1. seenSet' \subseteq seenSet \cup {sent[i].seq}
    BY <1>1, FeedSees
  <2>2. QED
    BY <1>0, <1>1, <2>1 DEF KnownIInv
<1>3. window \in Nat /\ MaxOvertake \in Nat /\ \A j \in arrived : j \in Nat
  <2>1. arrived \subseteq Datagram /\ Datagram \subseteq Payload
    BY <1>0, StreamTypes DEF StreamIInv, PathIInv, PathTypes
  <2>2. QED
    BY <1>0, <2>1, StreamSizes, StreamAssumption, WindowRange DEF StreamIInv
<1>4. PICK b \in Datagram :
         /\ Baseline(b)
         /\ \/ /\ Rebased(i) /\ Settled(b)' /\ (first # 0 => BaseDatagram <= i)
               /\ first # 0 => sent[i].restart
            \/ /\ first # 0 /\ Settled(b) /\ (sent[b].restart => b # i)
               /\ first' = first
               /\ \E New \in SUBSET {i}, c \in Int : TakesIn(i, New, c)
  BY <1>0, ArriveOutcome
<1>5. CASE /\ Rebased(i) /\ (first # 0 => BaseDatagram <= i)
           /\ first # 0 => sent[i].restart
  <2>1. BaseDatagram' = i + 1 /\ Skipped' = {}
    BY <1>0, <1>1, <1>5, RebaseKeepsBase
  <2>2. \A j \in arrived' : j < i + 1
    <3>1. \A j \in arrived : j < i
      <4>1. CASE first = 0
        BY <1>0, <4>1 DEF StreamIInv, BaseIInv
      <4>2. CASE first # 0
        BY <1>0, <1>5, <4>2 DEF FlightIInv
      <4>3. QED
        BY <4>1, <4>2
    <3>2. QED
      BY <1>1, <1>3, <3>1
  <2>3. \A j \in arrived' : j < (i + 1) + window /\ ~(j >= i + 1)
    BY <1>1, <1>3, <2>2
  <2>4. OnlyLostAreSkipped'
    BY <2>1 DEF OnlyLostAreSkipped
  <2>5. QED
    BY <1>1, <1>2, <2>1, <2>3, <2>4 DEF KnownIInv
<1>6. CASE first # 0 /\ \E New \in SUBSET {i}, c \in Int : TakesIn(i, New, c)
  <2>1. PICK New \in SUBSET {i}, c \in Int : TakesIn(i, New, c)
    BY <1>6
  <2>2. /\ Moves(New, c) /\ GivenUp(New, c)
        /\ \/ New = {i} /\ i < c + window
           \/ New = {} /\ c = BaseDatagram /\ (i < BaseDatagram \/ Known(sent[i].seq))
    BY <2>1 DEF TakesIn
  <2>3. BaseDatagram' = c /\ Skipped' = Skipped \cup Missed(BaseDatagram, c, PlacesOf(out'))
    <3>1. IInv' /\ StepCounts
      BY <1>0, <1>1, StreamTypes, FeedKeeps DEF StreamIInv
    <3>2. stats' \in [Counters -> Nat] /\ stats'.received - stats.received = Len(out')
      BY <3>1 DEF StepCounts, IInv, TypeOK
    <3>3. New \subseteq arrived' /\ arrived \subseteq arrived'
      BY <1>1, <2>1
    <3>4. QED
      BY <1>0, <1>6, <2>2, <3>2, <3>3, MoveKeeps
  <2>4. CASE New = {i} /\ i < c + window
    <3>1. \A h \in New : h < c + window
      BY <2>4
    <3>2. \A h \in New, x \in InFlight : (h = x \/ x \in arrived \/ h - x <= MaxOvertake)
      <4>1. \A x \in InFlight : x < i => i - x <= MaxOvertake
        BY DEF Arrive
      <4>2. \A x \in InFlight : x \in Nat
        BY <1>0, StreamTypes, StreamSizes DEF StreamIInv
      <4>3. QED
        BY <1>1, <1>3, <2>4, <4>1, <4>2
    <3>3. InFlight' \cup arrived' \subseteq InFlight \cup arrived
      BY <1>1
    <3>4. \A j \in arrived' : j \in Nat /\ (j \in arrived \/ j \in New)
      BY <1>1, <1>3, <2>4
    <3>5. New \in SUBSET Datagram
      BY <1>1, <2>4
    <3>6. QED
      BY <1>0, <1>1, <1>2, <1>6, <2>2, <2>3, <3>1, <3>2, <3>3, <3>4, <3>5, MoveKeepsKnown
  <2>5. CASE New = {} /\ c = BaseDatagram /\ Known(sent[i].seq)
    <3>1. i \in arrived
      BY <1>0, <1>1, <2>5, KnownArrived
    <3>2. InFlight' \cup arrived' \subseteq InFlight \cup arrived
      BY <1>1
    <3>3. \A j \in arrived' : j \in Nat /\ (j \in arrived \/ j \in New)
      BY <1>1, <1>3, <3>1
    <3>4. New \in SUBSET Datagram
      BY <2>5
    <3>5. QED
      BY <1>0, <1>1, <1>2, <1>6, <2>2, <2>3, <2>5, <3>2, <3>3, <3>4, MoveKeepsKnown
  <2>6. CASE New = {} /\ c = BaseDatagram /\ i < BaseDatagram
    <3>1. BaseDatagram \in Nat
      BY <1>0, <1>6, ExpectedAtBase
    <3>2. HeldDatagrams' = {p \in HeldDatagrams : p >= c}
      BY <2>2, <2>6 DEF Moves
    <3>3. \A j \in arrived' : j < c + window /\ (j >= c => j \in HeldDatagrams')
      <4>1. TAKE j \in arrived'
      <4>2. CASE j = i
        BY <1>1, <1>3, <2>6, <3>1, <4>2
      <4>3. CASE j # i
        <5>1. j \in arrived
          BY <1>1, <4>3
        <5>2. QED
          BY <1>0, <2>6, <3>2, <5>1 DEF KnownIInv
      <4>4. QED
        BY <4>2, <4>3
    <3>4. Skipped' = Skipped
      <4>1. BaseDatagram .. BaseDatagram - 1 = {}
        BY <3>1
      <4>2. QED
        BY <2>3, <2>6, <4>1 DEF Missed
    <3>5. OnlyLostAreSkipped'
      BY <1>0, <1>1, <3>4 DEF KnownIInv, OnlyLostAreSkipped
    <3>6. QED
      BY <1>1, <1>2, <2>3, <3>3, <3>5 DEF KnownIInv
  <2>7. QED
    BY <2>2, <2>4, <2>5, <2>6
<1>7. QED
  BY <1>4, <1>5, <1>6

\* So does a step that leaves the receiver alone.
LEMMA FrameKeepsKnown ==
    ASSUME StreamIInv, KnownIInv,
           UNCHANGED <<vars, arrived, delivered, first, missingAtFirst>>,
           Len(sent') \in Nat, Len(sent) <= Len(sent'),
           \A j \in Datagram : sent'[j] = sent[j],
           \A x \in InFlight' : x \in InFlight \/ x > Len(sent)
    PROVE  KnownIInv'
<1>1. /\ window' = window /\ seenSet' = seenSet /\ pending' = pending
      /\ arrived' = arrived /\ delivered' = delivered /\ first' = first
  BY DEF vars
<1>2. Held' = Held /\ (first # 0 => BaseDatagram' = BaseDatagram)
  BY BaseFrame
<1>3. HeldDatagrams' = HeldDatagrams /\ Delivered' = Delivered
  BY <1>1, <1>2 DEF HeldDatagrams, Delivered
<1>4. Skipped' = Skipped
  BY <1>1, <1>2, <1>3 DEF Skipped
<1>5. \A t \in seenSet' : \E j \in arrived' : sent'[j].seq = t
  <2>1. arrived \subseteq Datagram
    BY DEF StreamIInv, PathIInv, PathTypes
  <2>2. \A t \in seenSet : \E j \in arrived : sent[j].seq = t
    BY DEF KnownIInv
  <2>3. QED
    BY <1>1, <2>1, <2>2
<1>6. OnlyLostAreSkipped'
  <2>1. SUFFICES ASSUME MaxOvertake < window, NEW x \in Skipped, x \in InFlight' \cup arrived
                 PROVE  FALSE
    BY <1>1, <1>4 DEF OnlyLostAreSkipped
  <2>2. CASE x \in InFlight \cup arrived
    BY <2>1, <2>2 DEF KnownIInv, OnlyLostAreSkipped
  <2>3. CASE x > Len(sent)
    <3>1. first # 0
      BY <2>1 DEF Skipped
    <3>2. /\ BaseDatagram \in Nat /\ first \in Nat /\ BaseDatagram <= Len(sent) + 1
          /\ Len(sent) \in Nat
      BY <3>1, ExpectedAtBase, StreamTypes DEF StreamIInv
    <3>3. x \in first .. BaseDatagram - 1
      BY <2>1, <3>1 DEF Skipped
    <3>4. QED
      BY <2>3, <3>2, <3>3
  <2>4. QED
    BY <2>1, <2>2, <2>3
<1>7. \A j \in arrived : /\ j < BaseDatagram' + window
                         /\ j >= BaseDatagram' => j \in HeldDatagrams
  <2>1. CASE first = 0
    BY <2>1 DEF StreamIInv, BaseIInv
  <2>2. CASE first # 0
    BY <1>2, <2>2 DEF KnownIInv
  <2>3. QED
    BY <2>1, <2>2
<1>8. QED
  BY <1>1, <1>3, <1>5, <1>6, <1>7 DEF KnownIInv

LEMMA EmitKeepsDistinct ==
    ASSUME DistinctIInv, NEW s \in SeqNo, NEW restart \in BOOLEAN, Emit(s, restart),
           restart => InFlight = {}
    PROVE  FlightIInv' /\ KnownIInv'
<1>0. StreamIInv /\ FlightIInv /\ KnownIInv
  BY DEF DistinctIInv
<1>1. /\ Len(sent) \in Nat /\ Datagram = 1 .. Len(sent) /\ MaxOvertake \in Nat
      /\ InFlight \subseteq Datagram
  BY <1>0, StreamTypes, StreamAssumption DEF StreamIInv
<1>2. PICK new \in Nat : new = Len(sent) + 1
  BY <1>1
<1>3. /\ UNCHANGED <<vars, arrived, delivered, first, missingAtFirst, ended>>
      /\ Len(sent') = new /\ Datagram' = Datagram \cup {new}
      /\ \A j \in Datagram : sent'[j] = sent[j] /\ net'[j] = net[j]
      /\ sent'[new].restart = restart
      /\ net'[new] = 1 /\ InFlight' = InFlight \cup {new}
  BY <1>0, <1>2, EmitEffect
<1>4. \A h \in arrived : h \in Nat /\ h < new
  <2>1. arrived \subseteq 1 .. Len(sent)
    BY <1>0, <1>1 DEF StreamIInv, PathIInv, PathTypes
  <2>2. QED
    BY <1>1, <1>2, <2>1
<1>5. FlightIInv'
  <2>1. \A j \in InFlight', h \in arrived : h > j => h - j <= MaxOvertake
    <3>1. TAKE j \in InFlight', h \in arrived
    <3>2. CASE j = new
      BY <1>2, <1>4, <3>2
    <3>3. CASE j # new
      BY <1>0, <1>3, <3>3 DEF FlightIInv
    <3>4. QED
      BY <3>2, <3>3
  <2>2. \A j \in InFlight' : sent'[j].restart => net'[j] = 1 /\ \A h \in arrived : h < j
    <3>1. TAKE j \in InFlight'
    <3>2. CASE j = new
      BY <1>3, <1>4, <3>2
    <3>3. CASE j # new
      <4>1. j \in InFlight /\ j \in Datagram
        BY <1>1, <1>3, <3>3
      <4>2. QED
        BY <1>0, <1>3, <4>1 DEF FlightIInv
    <3>4. QED
      BY <3>2, <3>3
  <2>3. arrived' = arrived
    BY <1>3
  <2>4. QED
    BY <2>1, <2>2, <2>3 DEF FlightIInv
<1>6. KnownIInv'
  <2>1. \A x \in InFlight' : x \in InFlight \/ x > Len(sent)
    BY <1>1, <1>2, <1>3
  <2>2. Len(sent') \in Nat /\ Len(sent) <= Len(sent')
    BY <1>1, <1>2, <1>3
  <2>3. UNCHANGED <<vars, arrived, delivered, first, missingAtFirst>>
    BY <1>3
  <2>4. QED
    BY <1>0, <1>3, <2>1, <2>2, <2>3, FrameKeepsKnown
<1>7. QED
  BY <1>5, <1>6

LEMMA LoseOrCopyKeepsDistinct ==
    ASSUME DistinctIInv, PlainPath, NEW i \in InFlight, Lose(i) \/ Copy(i)
    PROVE  FlightIInv' /\ KnownIInv'
<1>0. StreamIInv /\ FlightIInv /\ KnownIInv
  BY DEF DistinctIInv
<1>1. /\ UNCHANGED <<vars, sent, arrived, delivered, first, missingAtFirst, ended>>
      /\ ~sent[i].restart
      /\ \/ net' = [net EXCEPT ![i] = @ - 1]
         \/ net' = [net EXCEPT ![i] = @ + 1]
  BY DEF Lose, Copy, PlainPath
<1>2. /\ i \in Datagram /\ net[i] \in Nat /\ net[i] > 0
      /\ Len(sent) \in Nat /\ Datagram \subseteq Payload
      /\ \A j \in Datagram : net[j] \in Nat
  BY <1>0, StreamTypes DEF StreamIInv, InFlight
<1>3. \A j \in Payload : j # i => net'[j] = net[j]
  BY <1>0, <1>1 DEF StreamIInv, PathIInv, PathTypes
<1>4. Datagram' = Datagram /\ sent' = sent /\ arrived' = arrived
  BY <1>1 DEF Datagram
<1>5. InFlight' \subseteq InFlight
  <2>1. \A j \in Datagram : net'[j] > 0 => j \in InFlight
    BY <1>2, <1>3 DEF InFlight
  <2>2. QED
    BY <1>4, <2>1 DEF InFlight
<1>6. FlightIInv'
  <2>1. \A j \in InFlight' : sent[j].restart => net'[j] = net[j]
    BY <1>1, <1>2, <1>3, <1>5 DEF InFlight
  <2>2. QED
    BY <1>0, <1>4, <1>5, <2>1 DEF FlightIInv
<1>7. KnownIInv'
  <2>1. \A x \in InFlight' : x \in InFlight \/ x > Len(sent)
    BY <1>5
  <2>2. /\ Len(sent') \in Nat /\ Len(sent) <= Len(sent')
        /\ \A j \in Datagram : sent'[j] = sent[j]
    BY <1>2, <1>4
  <2>3. UNCHANGED <<vars, arrived, delivered, first, missingAtFirst>>
    BY <1>1
  <2>4. QED
    BY <1>0, <2>1, <2>2, <2>3, FrameKeepsKnown
<1>8. QED
  BY <1>6, <1>7

LEMMA EndKeepsDistinct ==
    ASSUME DistinctIInv, EndOfStream
    PROVE  FlightIInv' /\ KnownIInv'
<1>0. StreamIInv /\ FlightIInv /\ KnownIInv
  BY DEF DistinctIInv
<1>1. /\ first' = first /\ sent' = sent /\ Flush /\ UNCHANGED <<path, arrived>>
      /\ delivered' = delivered \o out'
      /\ \/ /\ first # 0
            /\ \E c \in Int : /\ Moves({}, c)
                              /\ c <= BaseDatagram \/ \E h \in HeldDatagrams : c = h + 1
         \/ first = 0 /\ Held = {} /\ out' = <<>> /\ expected' = expected /\ stats' = stats
  BY <1>0, EndOutcome
<1>2. /\ net' = net /\ arrived' = arrived /\ window' = window /\ Datagram' = Datagram
      /\ seenSet' = seenSet
  BY <1>1 DEF path, Flush, Datagram
<1>3. InFlight = {} /\ InFlight' = {}
  BY <1>2 DEF InFlight, EndOfStream
<1>4. FlightIInv'
  BY <1>3 DEF FlightIInv
<1>5. \A t \in seenSet' : \E j \in arrived' : sent'[j].seq = t
  BY <1>0, <1>1, <1>2 DEF KnownIInv
<1>6. CASE first = 0
  <2>1. arrived' = {}
    BY <1>0, <1>2, <1>6 DEF StreamIInv, BaseIInv
  <2>2. Skipped' = {}
    BY <1>1, <1>6 DEF Skipped
  <2>3. QED
    BY <1>4, <1>5, <2>1, <2>2 DEF KnownIInv, OnlyLostAreSkipped
<1>7. CASE first # 0
  <2>1. PICK c \in Int : Moves({}, c)
    BY <1>1, <1>7
  <2>2. BaseDatagram' = c /\ Skipped' = Skipped \cup Missed(BaseDatagram, c, PlacesOf(out'))
    <3>1. IInv' /\ StepCounts
      BY <1>0, <1>1, FlushKeeps DEF StreamIInv
    <3>2. stats' \in [Counters -> Nat] /\ stats'.received - stats.received = Len(out')
      BY <3>1 DEF StepCounts, IInv, TypeOK
    <3>3. QED
      BY <1>0, <1>2, <1>7, <2>1, <3>2, MoveKeeps
  <2>3. /\ BaseDatagram \in Nat /\ BaseDatagram <= c
        /\ HeldDatagrams' = {p \in HeldDatagrams : p >= c}
        /\ PlacesOf(out') = {p \in HeldDatagrams : p < c}
    <3>1. Len(sent) \in Nat /\ BaseDatagram \in Nat
      BY <1>0, <1>7, ExpectedAtBase, StreamTypes DEF StreamIInv
    <3>2. c \in BaseDatagram .. Len(sent) + 1
      BY <2>1 DEF Moves
    <3>3. QED
      BY <2>1, <3>1, <3>2 DEF Moves
  <2>4. window \in Nat /\ \A j \in arrived : j \in Nat
    <3>1. arrived \subseteq Datagram /\ Datagram \subseteq Payload
      BY <1>0, StreamTypes DEF StreamIInv, PathIInv, PathTypes
    <3>2. QED
      BY <1>0, <3>1, StreamSizes, WindowRange DEF StreamIInv
  <2>5. \A j \in arrived : j < c + window /\ (j >= c => j \in HeldDatagrams')
    <3>1. TAKE j \in arrived
    <3>2. j < BaseDatagram + window /\ (j >= BaseDatagram => j \in HeldDatagrams)
      BY <1>0 DEF KnownIInv
    <3>3. QED
      BY <2>3, <2>4, <3>2
  <2>6. OnlyLostAreSkipped'
    <3>1. SUFFICES ASSUME MaxOvertake < window, NEW x \in Skipped', x \in arrived
                   PROVE  FALSE
      BY <1>2, <1>3 DEF OnlyLostAreSkipped
    <3>2. CASE x \in Skipped
      BY <1>0, <3>1, <3>2 DEF KnownIInv, OnlyLostAreSkipped
    <3>3. CASE x \in Missed(BaseDatagram, c, PlacesOf(out'))
      <4>1. x \in BaseDatagram .. c - 1 /\ x \notin PlacesOf(out')
        BY <3>3 DEF Missed
      <4>2. x >= BaseDatagram /\ x < c
        BY <2>3, <4>1
      <4>3. x \in HeldDatagrams
        BY <1>0, <3>1, <4>2 DEF KnownIInv
      <4>4. QED
        BY <2>3, <4>1, <4>2, <4>3
    <3>4. QED
      BY <2>2, <3>1, <3>2, <3>3
  <2>7. QED
    BY <1>2, <1>4, <1>5, <2>2, <2>5, <2>6 DEF KnownIInv
<1>8. QED
  BY <1>6, <1>7

LEMMA DistinctStepHolds ==
    ASSUME PlainPath, DistinctIInv, NumbersDistinct, [StreamNext]_streamVars
    PROVE  DistinctIInv'
<1>0. StreamIInv /\ FlightIInv /\ KnownIInv
  BY DEF DistinctIInv
<1>1. StreamIInv'
  BY <1>0, StreamStepHolds
<1>2. CASE Send
  <2>1. \E s \in SeqNo : Emit(s, FALSE)
    BY <1>0, <1>2, SendEmits
  <2>2. FlightIInv' /\ KnownIInv'
    BY <2>1, EmitKeepsDistinct
  <2>3. QED
    BY <1>1, <2>2 DEF DistinctIInv
<1>3. CASE Respawn
  <2>1. \E s \in SeqNo : Emit(s, TRUE)
    BY <1>3, StreamAssumption DEF Respawn
  <2>2. InFlight = {}
    BY <1>3 DEF Respawn
  <2>3. FlightIInv' /\ KnownIInv'
    BY <2>1, <2>2, EmitKeepsDistinct
  <2>4. QED
    BY <1>1, <2>3 DEF DistinctIInv
<1>4. ASSUME NEW i \in InFlight, Lose(i) \/ Copy(i)
      PROVE  DistinctIInv'
  BY <1>1, <1>4, LoseOrCopyKeepsDistinct DEF DistinctIInv
<1>5. ASSUME NEW i \in InFlight, Arrive(i)
      PROVE  DistinctIInv'
  BY <1>0, <1>1, <1>5, ArriveKeepsKnown, ArriveKeepsFlight DEF DistinctIInv
<1>6. CASE EndOfStream
  BY <1>1, <1>6, EndKeepsDistinct DEF DistinctIInv
<1>7. CASE UNCHANGED streamVars
  <2>1. /\ UNCHANGED <<vars, arrived, delivered, first, missingAtFirst>>
        /\ sent' = sent /\ net' = net
    BY <1>7 DEF streamVars, path
  <2>2. Len(sent) \in Nat
    BY <1>0, StreamTypes DEF StreamIInv
  <2>3. InFlight' = InFlight
    BY <2>1 DEF InFlight, Datagram
  <2>4. KnownIInv'
    BY <1>0, <2>1, <2>2, <2>3, FrameKeepsKnown
  <2>5. FlightIInv'
    BY <1>0, <2>1, <2>3 DEF FlightIInv
  <2>6. QED
    BY <1>1, <2>4, <2>5 DEF DistinctIInv
<1>8. QED
  BY <1>2, <1>3, <1>4, <1>5, <1>6, <1>7 DEF StreamNext, Done

LEMMA DistinctInvariance ==
    PlainPath => (StreamSpec /\ []NumbersDistinct => []DistinctIInv)
<1> SUFFICES ASSUME PlainPath
             PROVE  StreamSpec /\ []NumbersDistinct => []DistinctIInv
  OBVIOUS
<1>1. DistinctIInv /\ NumbersDistinct /\ [StreamNext]_streamVars => DistinctIInv'
  BY DistinctStepHolds
<1>2. QED
  BY <1>1, DistinctInitHolds, PTL DEF StreamSpec

\* "a later-arriving lower seq fills the hole": a datagram overtaken by less
\* than the window is never given up while it may still come, nor once it came.
THEOREM GivenUpOnlyIfLost ==
    PlainPath => (StreamSpec /\ []NumbersDistinct => []OnlyLostAreSkipped)
<1> SUFFICES ASSUME PlainPath
             PROVE  StreamSpec /\ []NumbersDistinct => []OnlyLostAreSkipped
  OBVIOUS
<1>1. DistinctIInv => OnlyLostAreSkipped
  BY DEF DistinctIInv, KnownIInv
<1>2. StreamSpec /\ []NumbersDistinct => []DistinctIInv
  BY DistinctInvariance
<1>3. QED
  BY <1>1, <1>2, PTL

\* The latency of the buffer is bounded by the window, whatever is lost.
THEOREM HeldLessThanAWindow ==
    PlainPath => (StreamSpec /\ []NumbersDistinct => []HeldBriefly)
<1> SUFFICES ASSUME PlainPath
             PROVE  StreamSpec /\ []NumbersDistinct => []HeldBriefly
  OBVIOUS
<1>1. DistinctIInv => HeldBriefly
  <2>1. SUFFICES ASSUME DistinctIInv, NEW i \in HeldDatagrams, NEW j \in arrived
                 PROVE  j - i < window
    BY DEF HeldBriefly
  <2>2. StreamIInv /\ j < BaseDatagram + window
    BY <2>1 DEF DistinctIInv, KnownIInv
  <2>3. i \in arrived /\ i >= BaseDatagram
    BY <2>2 DEF StreamIInv, BaseIInv, HeldInPlace, HeldDatagrams
  <2>4. first # 0
    BY <2>2, <2>3 DEF StreamIInv, BaseIInv
  <2>5. BaseDatagram \in Nat /\ window \in Nat
    BY <2>2, <2>4, ExpectedAtBase, WindowRange DEF StreamIInv
  <2>6. i \in Nat /\ j \in Nat
    <3>1. arrived \subseteq Datagram /\ Datagram \subseteq Payload
      BY <2>2, StreamTypes DEF StreamIInv, PathIInv, PathTypes
    <3>2. QED
      BY <2>3, <3>1, StreamSizes
  <2>7. QED
    BY <2>2, <2>3, <2>5, <2>6
<1>2. StreamSpec /\ []NumbersDistinct => []DistinctIInv
  BY DistinctInvariance
<1>3. QED
  BY <1>1, <1>2, PTL

-----------------------------------------------------------------------------
(* The report.                                                             *)

\* No copy is so late that _seen has forgotten its number.
CopiesRemembered == \A i \in InFlight \cap arrived : sent[i].seq \in seenSet

\* The copies in flight beyond what each datagram still needs to arrive once,
\* numbered datagram by datagram.
Spare(i) == IF i \in arrived THEN net[i] ELSE net[i] - 1
Spares == {t \in Payload \X Nat : 1 <= t[2] /\ t[2] <= Spare(t[1])}

\* What was fed are the datagrams that arrived and the copies of them, and the
\* path made every copy that was fed or is in flight.
CountIInv ==
    /\ fed = Cardinality(arrived) + stats.true_dups
    /\ IsFiniteSet(Spares)
    /\ copies \in Nat
    /\ stats.true_dups + Cardinality(Spares) <= copies

ReportIInv == DistinctIInv /\ CountIInv

LEMMA ReportInitHolds == StreamInit => ReportIInv
<1> SUFFICES ASSUME StreamInit PROVE ReportIInv
  OBVIOUS
<1>1. /\ arrived = {} /\ net = [i \in Payload |-> 0] /\ copies = 0
      /\ fed = 0 /\ stats.true_dups = 0
  BY DEF StreamInit, Init, Counters
<1>2. Spares = {}
  BY <1>1 DEF Spares, Spare
<1>3. CountIInv
  BY <1>1, <1>2, FS_EmptySet DEF CountIInv
<1>4. QED
  BY <1>3, DistinctInitHolds DEF ReportIInv

\* A call counts a true duplicate only where the number is known.
LEMMA TrueDupsOfFeed ==
    ASSUME IInv, NEW p, NEW s, NEW restart, Feed(p, s, restart)
    PROVE  \/ stats'.true_dups = stats.true_dups
           \/ stats'.true_dups = stats.true_dups + 1 /\ Known(s)
<1>1. stats \in [Counters -> Nat]
  BY DEF IInv, TypeOK
<1>2. \A gap : /\ NoteGap(gap, stats) = [stats EXCEPT !.max_gap = NoteGap(gap, stats).max_gap]
               /\ NoteGap(gap, stats).true_dups = stats.true_dups
  BY <1>1 DEF NoteGap, Counters
<1>3. CountRestart(restart, stats).true_dups = stats.true_dups
  BY <1>1 DEF CountRestart, Counters
<1>4. \A gap : Skip(gap, stats).true_dups = stats.true_dups
  BY <1>1 DEF Skip, NoteGap, Counters
<1>5. \A gap : [NoteGap(gap, stats) EXCEPT !.stream_switches = @ + 1].true_dups = stats.true_dups
  BY <1>1 DEF NoteGap, Counters
<1>6. ASSUME Behind(s)
      PROVE  \/ stats'.true_dups = stats.true_dups
             \/ stats'.true_dups = stats.true_dups + 1 /\ Known(s)
  BY <1>1, <1>6 DEF Behind, Known, Counters
<1>7. ASSUME Track(p, s, restart)
      PROVE  \/ stats'.true_dups = stats.true_dups
             \/ stats'.true_dups = stats.true_dups + 1 /\ Known(s)
  <2>1. \A st : TrackAccept(p, s, st) => stats'.true_dups = st.true_dups
    BY DEF TrackAccept
  <2>2. QED
    BY <1>1, <1>3, <1>4, <1>5, <1>6, <1>7, <2>1 DEF Track
<1>8. ASSUME FeedBuffered(p, s, restart)
      PROVE  \/ stats'.true_dups = stats.true_dups
             \/ stats'.true_dups = stats.true_dups + 1 /\ Known(s)
  <2>1. \A buf, st : Accept(p, s, buf, st) => stats'.true_dups = st.true_dups
    BY DEF Accept
  <2>2. \A buf, n, st : WalkBase(buf, n, st) => stats'.true_dups = st.true_dups
    BY DEF WalkBase
  <2>3. ASSUME FeedEarlyCopy(s)
        PROVE  stats'.true_dups = stats.true_dups + 1 /\ Known(s)
    BY <1>1, <2>3 DEF FeedEarlyCopy, NoteGap, Counters
  <2>4. ASSUME FeedRebase(p, s, restart) \/ FeedInOrder(p, s) \/ FeedSwitch(p, s)
        PROVE  stats'.true_dups = stats.true_dups
    <3>1. CASE FeedRebase(p, s, restart)
      BY <1>3, <2>1, <3>1 DEF FeedRebase
    <3>2. CASE FeedInOrder(p, s)
      BY <2>1, <3>2 DEF FeedInOrder
    <3>3. CASE FeedSwitch(p, s)
      BY <1>5, <2>1, <3>3 DEF FeedSwitch
    <3>4. QED
      BY <2>4, <3>1, <3>2, <3>3
  <2>5. ASSUME FeedHold(p, s)
        PROVE  stats'.true_dups = stats.true_dups
    BY <1>2, <2>2, <2>5 DEF FeedHold
  <2>6. QED
    BY <1>6, <1>8, <2>3, <2>4, <2>5 DEF FeedBuffered
<1>9. QED
  BY <1>7, <1>8 DEF Feed

\* A datagram that comes a second time is counted as a true duplicate, and no
\* other is.
LEMMA ArriveCounts ==
    ASSUME DistinctIInv, PlainPath, NumbersDistinct, CopiesRemembered,
           NEW i \in InFlight, Arrive(i)
    PROVE  stats'.true_dups = stats.true_dups + (IF i \in arrived THEN 1 ELSE 0)
<1>0. StreamIInv /\ FlightIInv /\ KnownIInv /\ IInv
  BY DEF DistinctIInv, StreamIInv
<1>1. /\ i \in Datagram /\ i \in Nat /\ Feed(i, sent[i].seq, sent[i].restart)
      /\ stats.true_dups \in Nat
  BY <1>0, ArriveParts, StreamTypes DEF StreamIInv, Counters
<1>2. CASE i \notin arrived
  <2>1. ~Known(sent[i].seq)
    BY <1>0, <1>1, <1>2, KnownArrived
  <2>2. QED
    BY <1>0, <1>1, <1>2, <2>1, TrueDupsOfFeed
<1>3. CASE i \in arrived
  <2>1. first # 0
    BY <1>0, <1>3 DEF StreamIInv, BaseIInv
  <2>2. /\ expected \in SeqNo /\ expected # None /\ BaseDatagram \in Nat
    BY <1>0, <2>1, ExpectedAtBase
  <2>3. ~sent[i].restart
    BY <1>0, <1>1, <1>3 DEF FlightIInv
  <2>4. window = 0
    <3>1. net[i] > 0 /\ net[i] \in Nat
      BY <1>0, ArriveParts
    <3>2. window \in CopyWindows
      BY <1>0, <1>1, <1>3, <3>1 DEF StreamIInv, PathIInv, PathTypes
    <3>3. QED
      BY <3>2 DEF PlainPath
  <2>5. i < BaseDatagram
    <3>1. i < BaseDatagram + window
      BY <1>0, <1>3 DEF KnownIInv
    <3>2. QED
      BY <2>2, <2>4, <3>1
  <2>6. Ahead(sent[i].seq, expected) >= Half
    <3>1. PICK b \in Datagram :
             /\ Baseline(b)
             /\ \/ first # 0 => sent[i].restart
                \/ first # 0 /\ Settled(b)
      BY <1>0, ArriveOutcome
    <3>2. Settled(b)
      BY <2>1, <2>3, <3>1
    <3>3. QED
      BY <1>0, <2>1, <2>5, <3>1, <3>2, ArrivesInBaseline
  <2>7. sent[i].seq \in SeqNo /\ Ahead(sent[i].seq, expected) \in Int
    <3>1. sent[i].seq \in SeqNo /\ Ahead(sent[i].seq, expected) \in SeqNo
      BY <1>0, <1>1, <2>2, StreamTypes, SeqArithmetic DEF StreamIInv
    <3>2. QED
      BY <3>1 DEF SeqNo
  <2>8. sent[i].seq # expected
    BY <2>2, <2>6, SizesAssumption DEF Ahead, SeqNo, Half
  <2>9. Track(i, sent[i].seq, sent[i].restart) /\ ~Rebases(sent[i].restart)
    BY <1>1, <2>2, <2>3, <2>4, WindowRange DEF Feed, Rebases
  <2>10. Behind(sent[i].seq)
    <3>1. GapFloor < Half /\ GapFloor \in Int /\ Half \in Int
      BY SizesAssumption DEF Half
    <3>2. ~(Ahead(sent[i].seq, expected) < GapFloor) /\ ~(Ahead(sent[i].seq, expected) < Half)
      BY <2>6, <2>7, <3>1
    <3>3. QED
      BY <2>8, <2>9, <3>2 DEF Track
  <2>11. sent[i].seq \in seenSet
    BY <1>3 DEF CopiesRemembered
  <2>12. stats \in [Counters -> Nat]
    BY <1>0 DEF IInv, TypeOK
  <2>13. QED
    BY <1>3, <2>10, <2>11, <2>12 DEF Behind, Counters
<1>4. QED
  BY <1>2, <1>3

\* One spare copy more, or fewer.
LEMMA SpareCounts ==
    ASSUME IsFiniteSet(Spares), NEW x
    PROVE  /\ \A S : S \subseteq Spares => IsFiniteSet(S) /\ Cardinality(S) <= Cardinality(Spares)
           /\ \A S : S \subseteq Spares \cup {x} =>
                 IsFiniteSet(S) /\ Cardinality(S) <= Cardinality(Spares) + 1
           /\ x \in Spares => \A S : S \subseteq Spares \ {x} =>
                 IsFiniteSet(S) /\ Cardinality(S) <= Cardinality(Spares) - 1
<1>1. /\ Cardinality(Spares) \in Nat
      /\ IsFiniteSet(Spares \cup {x})
      /\ Cardinality(Spares \cup {x}) \in {Cardinality(Spares), Cardinality(Spares) + 1}
  BY FS_CardinalityType, FS_AddElement
<1>2. x \in Spares => /\ IsFiniteSet(Spares \ {x})
                      /\ Cardinality(Spares \ {x}) = Cardinality(Spares) - 1
  BY FS_RemoveElement
<1>3. \A T : IsFiniteSet(T) => \A S : S \subseteq T =>
         /\ IsFiniteSet(S) /\ Cardinality(S) <= Cardinality(T)
         /\ Cardinality(S) \in Nat /\ Cardinality(T) \in Nat
  BY FS_Subset, FS_CardinalityType
<1>4. QED
  BY <1>1, <1>2, <1>3

\* Which spare copies there are after copies of datagram i came or went.
LEMMA SparesOfOne ==
    ASSUME StreamIInv, NEW i \in Payload,
           \A j \in Payload : j # i => Spare(j)' = Spare(j),
           Spare(i)' \in Int, Spare(i) \in Int
    PROVE  /\ Spare(i)' <= Spare(i) => Spares' \subseteq Spares
           /\ Spare(i)' = Spare(i) + 1 => Spares' \subseteq Spares \cup {<<i, Spare(i)'>>}
           /\ Spare(i)' < Spare(i) => Spares' \subseteq Spares \ {<<i, Spare(i)>>}
           /\ Spare(i) > 0 => <<i, Spare(i)>> \in Spares
<1> DEFINE old == Spare(i)
           new == Spare(i)'
<1>1. /\ \A t \in Payload \X Nat : t[1] # i => (t \in Spares' <=> t \in Spares)
      /\ \A t \in Payload \X Nat : t[1] = i => (t \in Spares' <=> 1 <= t[2] /\ t[2] <= new)
      /\ \A t \in Payload \X Nat : t[1] = i => (t \in Spares <=> 1 <= t[2] /\ t[2] <= old)
      /\ Spares' \subseteq Payload \X Nat
  BY DEF Spares
<1>2. old \in Int /\ new \in Int
  OBVIOUS
<1> HIDE DEF old, new
<1>3. \A t \in Payload \X Nat : t = <<t[1], t[2]>> /\ t[2] \in Nat
  OBVIOUS
<1>4. new <= old => Spares' \subseteq Spares
  BY <1>1, <1>2, <1>3
<1>5. new = old + 1 => Spares' \subseteq Spares \cup {<<i, new>>}
  BY <1>1, <1>2, <1>3
<1>6. new < old => Spares' \subseteq Spares \ {<<i, old>>}
  <2>1. HAVE new < old
  <2>2. Spares' \subseteq Spares
    BY <1>2, <1>4, <2>1
  <2>3. <<i, old>> \in Spares' => FALSE
    <3>1. HAVE <<i, old>> \in Spares'
    <3>2. <<i, old>> \in Payload \X Nat /\ <<i, old>>[1] = i /\ <<i, old>>[2] = old
      BY <1>1, <3>1
    <3>3. old <= new
      BY <1>1, <3>1, <3>2
    <3>4. QED
      BY <1>2, <2>1, <3>3
  <2>4. QED
    BY <2>2, <2>3
<1>7. old > 0 => <<i, old>> \in Spares
  <2>1. HAVE old > 0
  <2>2. old \in Nat /\ 1 <= old
    BY <1>2, <2>1
  <2>3. <<i, old>> \in Payload \X Nat /\ <<i, old>>[1] = i /\ <<i, old>>[2] = old
    BY <2>2
  <2>4. QED
    BY <1>1, <2>2, <2>3
<1>8. QED
  BY <1>4, <1>5, <1>6, <1>7 DEF old, new

\* Nothing that the sums are made of changes.
LEMMA CountFrame ==
    ASSUME CountIInv, fed' = fed, arrived' = arrived, stats'.true_dups = stats.true_dups,
           stats.true_dups \in Nat, copies' = copies, Spares' \subseteq Spares
    PROVE  CountIInv'
<1>1. IsFiniteSet(Spares') /\ Cardinality(Spares') <= Cardinality(Spares)
  BY SpareCounts DEF CountIInv
<1>2. Cardinality(Spares') \in Nat /\ Cardinality(Spares) \in Nat
  BY <1>1, FS_CardinalityType DEF CountIInv
<1>3. stats.true_dups + Cardinality(Spares') <= copies
  BY <1>1, <1>2 DEF CountIInv
<1>4. QED
  BY <1>1, <1>3 DEF CountIInv

LEMMA ArriveKeepsCount ==
    ASSUME DistinctIInv, CountIInv, PlainPath, NumbersDistinct, CopiesRemembered,
           NEW i \in InFlight, Arrive(i)
    PROVE  CountIInv'
<1>0. StreamIInv /\ IInv /\ CountIInv
  BY DEF DistinctIInv, StreamIInv
<1>1. /\ i \in Datagram /\ Datagram \subseteq Payload /\ i \in Payload
      /\ arrived' = arrived \cup {i}
      /\ net'[i] = net[i] - 1 /\ net[i] \in Nat /\ net[i] > 0
      /\ Feed(i, sent[i].seq, sent[i].restart)
  BY <1>0, ArriveParts, StreamTypes DEF StreamIInv
<1>2. fed' = fed + 1 /\ copies' = copies
  BY <1>1 DEF Feed, Arrive
<1>3. \A j \in Payload : j # i => net'[j] = net[j]
  BY <1>0, <1>1 DEF Arrive, StreamIInv, PathIInv, PathTypes
<1>4. \A j \in Payload : j # i => Spare(j)' = Spare(j)
  BY <1>1, <1>3 DEF Spare
<1>5. /\ Spare(i)' = net[i] - 1
      /\ i \in arrived => Spare(i) = net[i]
      /\ i \notin arrived => Spare(i) = net[i] - 1
  BY <1>1 DEF Spare
<1>6. stats'.true_dups = stats.true_dups + (IF i \in arrived THEN 1 ELSE 0)
  BY ArriveCounts
<1>7. /\ stats.true_dups \in Nat /\ copies \in Nat /\ IsFiniteSet(Spares)
      /\ stats.true_dups + Cardinality(Spares) <= copies
      /\ fed = Cardinality(arrived) + stats.true_dups
      /\ Cardinality(Spares) \in Nat
  BY <1>0, StreamTypes, FS_CardinalityType DEF CountIInv, StreamIInv, Counters
<1>8. IsFiniteSet(arrived) /\ Cardinality(arrived) \in Nat
  <2>1. arrived \subseteq 1 .. Len(sent) /\ Len(sent) \in Nat
    BY <1>0, StreamTypes DEF StreamIInv, PathIInv, PathTypes
  <2>2. IsFiniteSet(1 .. Len(sent))
    BY <2>1, CountInterval
  <2>3. QED
    BY <2>1, <2>2, FS_Subset, FS_CardinalityType
<1>9. CASE i \notin arrived
  <2>1. Spares' \subseteq Spares
    <3>1. Spare(i)' <= Spare(i) /\ Spare(i)' \in Int /\ Spare(i) \in Int
      BY <1>1, <1>5, <1>9
    <3>2. QED
      BY <1>0, <1>1, <1>4, <3>1, SparesOfOne
  <2>2. IsFiniteSet(Spares') /\ Cardinality(Spares') <= Cardinality(Spares)
    BY <1>7, <2>1, SpareCounts
  <2>3. Cardinality(Spares') \in Nat
    BY <2>2, FS_CardinalityType
  <2>4. Cardinality(arrived') = Cardinality(arrived) + 1
    BY <1>1, <1>8, <1>9, FS_AddElement
  <2>5. stats'.true_dups = stats.true_dups
    BY <1>6, <1>7, <1>9
  <2>6. stats.true_dups + Cardinality(Spares') <= copies
    BY <1>7, <2>2, <2>3
  <2>7. fed' = Cardinality(arrived') + stats.true_dups
    BY <1>2, <1>7, <1>8, <2>4
  <2>8. QED
    BY <1>2, <1>7, <2>2, <2>5, <2>6, <2>7 DEF CountIInv
<1>10. CASE i \in arrived
  <2>1. Spares' \subseteq Spares \ {<<i, net[i]>>} /\ <<i, net[i]>> \in Spares
    <3>1. Spare(i) = net[i] /\ Spare(i)' = net[i] - 1
      BY <1>5, <1>10
    <3>2. Spare(i)' < Spare(i) /\ Spare(i) > 0 /\ Spare(i)' \in Int /\ Spare(i) \in Int
      BY <1>1, <3>1
    <3>3. QED
      BY <1>0, <1>1, <1>4, <3>1, <3>2, SparesOfOne
  <2>2. IsFiniteSet(Spares') /\ Cardinality(Spares') <= Cardinality(Spares) - 1
    BY <1>7, <2>1, SpareCounts
  <2>3. Cardinality(Spares') \in Nat
    BY <2>2, FS_CardinalityType
  <2>4. arrived' = arrived
    BY <1>1, <1>10
  <2>5. stats'.true_dups = stats.true_dups + 1
    BY <1>6, <1>10
  <2>6. (stats.true_dups + 1) + Cardinality(Spares') <= copies
    BY <1>7, <2>2, <2>3
  <2>7. fed' = Cardinality(arrived) + (stats.true_dups + 1)
    BY <1>2, <1>7, <1>8
  <2>8. QED
    BY <1>2, <1>7, <2>2, <2>4, <2>5, <2>6, <2>7 DEF CountIInv
<1>11. QED
  BY <1>9, <1>10

LEMMA EmitKeepsCount ==
    ASSUME StreamIInv, CountIInv, NEW s \in SeqNo, NEW restart \in BOOLEAN, Emit(s, restart)
    PROVE  CountIInv'
<1>1. Len(sent) \in Nat /\ arrived \subseteq 1 .. Len(sent)
  BY StreamTypes DEF StreamIInv, PathIInv, PathTypes
<1>2. PICK new \in Nat : new = Len(sent) + 1
  BY <1>1
<1>3. /\ UNCHANGED <<vars, arrived>> /\ new \in Payload
      /\ net'[new] = 1 /\ \A j \in Payload : j # new => net'[j] = net[j]
  BY <1>2, EmitEffect
<1>4. net[new] = 0 /\ new \notin arrived
  BY <1>1, <1>2, <1>3 DEF StreamIInv, PathIInv, PathTypes
<1>5. /\ \A j \in Payload : j # new => Spare(j)' = Spare(j)
      /\ Spare(new)' = 0 /\ Spare(new) = -1
  BY <1>3, <1>4 DEF Spare
<1>6. Spares' \subseteq Spares
  <2>1. \A t \in Payload \X Nat : t[1] = new => t \notin Spares'
    BY <1>5 DEF Spares
  <2>2. \A t \in Payload \X Nat : t[1] # new /\ t[1] \in Payload /\ t \in Spares' => t \in Spares
    BY <1>5 DEF Spares
  <2>3. Spares' \subseteq Payload \X Nat
    BY DEF Spares
  <2>4. QED
    BY <2>1, <2>2, <2>3
<1>7. fed' = fed /\ stats' = stats /\ copies' = copies /\ stats.true_dups \in Nat
  BY <1>3, StreamTypes DEF vars, Emit, StreamIInv, Counters
<1>8. QED
  BY <1>3, <1>6, <1>7, CountFrame

LEMMA LoseOrCopyKeepsCount ==
    ASSUME StreamIInv, CountIInv, NEW i \in InFlight, Lose(i) \/ Copy(i)
    PROVE  CountIInv'
<1>1. /\ i \in Payload /\ net[i] \in Nat /\ net \in [Payload -> Nat] /\ stats \in [Counters -> Nat]
  BY StreamTypes DEF StreamIInv, PathIInv, PathTypes
<1>2. fed' = fed /\ stats' = stats /\ arrived' = arrived
  BY DEF Lose, Copy, vars
<1>3. \A j \in Payload : j # i => net'[j] = net[j]
  BY <1>1 DEF Lose, Copy
<1>4. \A j \in Payload : j # i => Spare(j)' = Spare(j)
  BY <1>2, <1>3 DEF Spare
<1>5. CASE Lose(i)
  <2>1. net'[i] = net[i] - 1 /\ copies' = copies
    BY <1>1, <1>5 DEF Lose
  <2>2. Spare(i)' <= Spare(i) /\ Spare(i) \in Int /\ Spare(i)' \in Int
    BY <1>1, <1>2, <2>1 DEF Spare
  <2>3. Spares' \subseteq Spares
    BY <1>1, <1>4, <2>2, SparesOfOne
  <2>4. stats.true_dups \in Nat
    BY <1>1 DEF Counters
  <2>5. QED
    BY <1>2, <2>1, <2>3, <2>4, CountFrame
<1>6. CASE Copy(i)
  <2>1. net'[i] = net[i] + 1 /\ copies' = copies + 1
    BY <1>1, <1>6 DEF Copy
  <2>2. Spare(i)' = Spare(i) + 1 /\ Spare(i) \in Int /\ Spare(i)' \in Int
    BY <1>1, <1>2, <2>1 DEF Spare
  <2>3. \E x : Spares' \subseteq Spares \cup {x}
    BY <1>1, <1>4, <2>2, SparesOfOne
  <2>4. IsFiniteSet(Spares') /\ Cardinality(Spares') <= Cardinality(Spares) + 1
    BY <2>3, SpareCounts DEF CountIInv
  <2>5. Cardinality(Spares') \in Nat /\ Cardinality(Spares) \in Nat
    BY <2>4, FS_CardinalityType DEF CountIInv
  <2>6. stats.true_dups \in Nat /\ copies \in Nat /\ stats.true_dups + Cardinality(Spares) <= copies
    BY <1>1 DEF CountIInv, Counters
  <2>7. copies' \in Nat /\ stats.true_dups + Cardinality(Spares') <= copies'
    BY <2>1, <2>4, <2>5, <2>6
  <2>8. QED
    BY <1>2, <2>4, <2>7 DEF CountIInv
<1>7. QED
  BY <1>5, <1>6

LEMMA EndKeepsCount ==
    ASSUME StreamIInv, CountIInv, EndOfStream
    PROVE  CountIInv'
<1>1. Flush /\ UNCHANGED <<path, arrived>> /\ fed' = fed
  BY DEF EndOfStream, Flush
<1>2. net' = net /\ copies' = copies /\ arrived' = arrived
  BY <1>1 DEF path
<1>3. Spares' = Spares
  BY <1>2 DEF Spares, Spare
<1>4. stats'.true_dups = stats.true_dups /\ stats.true_dups \in Nat
  <2>1. stats \in [Counters -> Nat]
    BY StreamTypes DEF StreamIInv
  <2>2. \A buf, n : WalkBase(buf, n, stats) => stats'.true_dups = stats.true_dups
    BY DEF WalkBase
  <2>3. QED
    BY <1>1, <2>1, <2>2 DEF Flush, Counters
<1>5. QED
  BY <1>1, <1>2, <1>3, <1>4, CountFrame

LEMMA ReportStepHolds ==
    ASSUME PlainPath, ReportIInv, NumbersDistinct, CopiesRemembered, [StreamNext]_streamVars
    PROVE  ReportIInv'
<1>0. DistinctIInv /\ StreamIInv /\ CountIInv
  BY DEF ReportIInv, DistinctIInv
<1>1. DistinctIInv'
  BY <1>0, DistinctStepHolds
<1>2. CASE Send
  <2>1. \E s \in SeqNo : Emit(s, FALSE)
    BY <1>0, <1>2, SendEmits
  <2>2. QED
    BY <1>0, <1>1, <2>1, EmitKeepsCount DEF ReportIInv
<1>3. CASE Respawn
  <2>1. \E s \in SeqNo : Emit(s, TRUE)
    BY <1>3, StreamAssumption DEF Respawn
  <2>2. QED
    BY <1>0, <1>1, <2>1, EmitKeepsCount DEF ReportIInv
<1>4. ASSUME NEW i \in InFlight, Lose(i) \/ Copy(i)
      PROVE  ReportIInv'
  BY <1>0, <1>1, <1>4, LoseOrCopyKeepsCount DEF ReportIInv
<1>5. ASSUME NEW i \in InFlight, Arrive(i)
      PROVE  ReportIInv'
  BY <1>0, <1>1, <1>5, ArriveKeepsCount DEF ReportIInv
<1>6. CASE EndOfStream
  BY <1>0, <1>1, <1>6, EndKeepsCount DEF ReportIInv
<1>7. CASE UNCHANGED streamVars
  <2>1. /\ fed' = fed /\ stats' = stats /\ arrived' = arrived /\ copies' = copies /\ net' = net
    BY <1>7 DEF streamVars, vars, path
  <2>2. Spares' = Spares /\ stats.true_dups \in Nat
    BY <1>0, <2>1, StreamTypes DEF Spares, Spare, StreamIInv, Counters
  <2>3. QED
    BY <1>0, <1>1, <2>1, <2>2, CountFrame DEF ReportIInv
<1>8. QED
  BY <1>2, <1>3, <1>4, <1>5, <1>6, <1>7 DEF StreamNext, Done

\* What was delivered are datagrams that were sent.
LEMMA StreamTyped ==
    ASSUME StreamIInv
    PROVE  StreamTypeOK
<1>1. /\ IInv /\ PathIInv /\ BaseIInv /\ TypeOK
      /\ Len(sent) \in Nat /\ Datagram = 1 .. Len(sent)
  BY StreamTypes DEF StreamIInv, IInv
<1>2. first \in 0 .. Len(sent) /\ delivered \in Seq(Datagram)
  <2>1. CASE first = 0
    BY <1>1, <2>1 DEF BaseIInv
  <2>2. CASE first # 0
    <3>1. /\ first \in Datagram /\ BaseDatagram \in Nat /\ BaseDatagram <= Len(sent) + 1
          /\ Stretch(delivered, 1, BaseDatagram)
      BY <2>2, ExpectedAtBase DEF StreamIInv, BaseIInv
    <3>2. /\ delivered \in Seq(Int)
          /\ \A i \in 1 .. Len(delivered) : 1 <= delivered[i] /\ delivered[i] < BaseDatagram
      BY <3>1 DEF Stretch
    <3>3. \A i \in 1 .. Len(delivered) : delivered[i] \in Int
      BY <3>2
    <3>4. \A i \in 1 .. Len(delivered) : delivered[i] \in Datagram
      BY <1>1, <3>1, <3>2, <3>3
    <3>5. delivered \in Seq(Datagram)
      BY <3>2, <3>4
    <3>6. QED
      BY <1>1, <3>1, <3>5
  <2>3. QED
    BY <2>1, <2>2
<1>3. QED
  BY <1>1, <1>2 DEF PathIInv, PathTypes, StreamTypeOK

\* Since the current baseline `missing` counts exactly the datagrams the base
\* went past undelivered, whatever the path loses and overtakes, across the wrap
\* of the numbers and re-spawns of the daemon.
THEOREM MissingCountsTheSkipped ==
    PlainPath => (StreamSpec => [](StreamTypeOK /\ MissingIsExact))
<1> SUFFICES ASSUME PlainPath
             PROVE  StreamSpec => [](StreamTypeOK /\ MissingIsExact)
  OBVIOUS
<1>1. StreamIInv => StreamTypeOK /\ MissingIsExact
  BY StreamTyped DEF StreamIInv, BaseIInv
<1>2. StreamSpec => []StreamIInv
  BY StreamInvariance
<1>3. QED
  BY <1>1, <1>2, PTL

\* gap_report() tells what became of every datagram that arrived, and calls no
\* more of them true duplicates than the path made copies.
THEOREM ReportIsExact ==
    PlainPath => (StreamSpec /\ []NumbersDistinct /\ []CopiesRemembered => []ReportAddsUp)
<1> SUFFICES ASSUME PlainPath
             PROVE  StreamSpec /\ []NumbersDistinct /\ []CopiesRemembered => []ReportAddsUp
  OBVIOUS
<1>1. ReportIInv /\ NumbersDistinct /\ CopiesRemembered /\ [StreamNext]_streamVars => ReportIInv'
  BY ReportStepHolds
<1>2. ReportIInv => ReportAddsUp
  <2>1. SUFFICES ASSUME ReportIInv
                 PROVE  ReportAddsUp
    OBVIOUS
  <2>2. StreamIInv /\ IInv /\ PathTypes /\ CountIInv /\ MissingIsExact /\ StreamTypeOK
    BY <2>1, StreamTyped DEF ReportIInv, DistinctIInv, StreamIInv, PathIInv, BaseIInv
  <2>3. /\ stats.true_dups \in Nat /\ stats.reordered \in Nat /\ stats.received \in Nat
        /\ stats.dups \in Nat /\ discarded \in Nat
    BY <2>2 DEF IInv, TypeOK, Counters
  <2>4. TrueDupsAreCopies
    <3>1. Cardinality(Spares) \in Nat
      BY <2>2, FS_CardinalityType DEF CountIInv
    <3>2. QED
      BY <2>2, <2>3, <3>1 DEF CountIInv, TrueDupsAreCopies
  <2>5. AllAccountedAtEnd
    <3>1. SUFFICES ASSUME ended
                   PROVE  /\ Held = {}
                          /\ Cardinality(arrived) = Len(delivered) + stats.reordered + discarded
      BY DEF AllAccountedAtEnd
    <3>2. Held = {} /\ Cardinality(Held) = 0
      BY <2>2, <3>1, FS_EmptySet DEF PathTypes
    <3>3. /\ fed = stats.received + stats.dups + Cardinality(Held) + discarded
          /\ stats.dups = stats.reordered + stats.true_dups
      BY <2>2 DEF IInv, Conservation
    <3>4. stats.received = Len(delivered) /\ fed = Cardinality(arrived) + stats.true_dups
      BY <2>2 DEF StreamIInv, BaseIInv, CountIInv
    <3>5. Cardinality(arrived) \in Int
      <4>1. arrived \subseteq 1 .. Len(sent) /\ Len(sent) \in Nat
        BY <2>2, StreamTypes DEF StreamIInv, PathTypes
      <4>2. IsFiniteSet(1 .. Len(sent))
        BY <4>1, CountInterval
      <4>3. IsFiniteSet(arrived)
        BY <4>1, <4>2, FS_Subset
      <4>4. QED
        BY <4>3, FS_CardinalityType
    <3>6. \A a, r, d, o, t, x \in Int :
             a + t = r + d + 0 + x /\ d = o + t => a = r + o + x
      OBVIOUS
    <3>7. /\ Len(delivered) \in Int
          /\ Cardinality(arrived) + stats.true_dups = Len(delivered) + stats.dups + 0 + discarded
      BY <2>3, <3>2, <3>3, <3>4
    <3>8. Cardinality(arrived) = Len(delivered) + stats.reordered + discarded
      <4> DEFINE a == Cardinality(arrived)
                 r == Len(delivered)
                 d == stats.dups
                 o == stats.reordered
                 t == stats.true_dups
      <4>1. /\ a \in Int /\ r \in Int /\ d \in Int /\ o \in Int /\ t \in Int /\ discarded \in Int
            /\ a + t = r + d + 0 + discarded /\ d = o + t
        BY <2>3, <3>3, <3>5, <3>7
      <4> HIDE DEF a, r, d, o, t
      <4>2. a = r + o + discarded
        BY <3>6, <4>1
      <4>3. QED
        BY <4>2 DEF a, r, o
    <3>9. QED
      BY <3>2, <3>8
  <2>6. QED
    BY <2>2, <2>4, <2>5 DEF ReportAddsUp
<1>3. QED
  BY <1>1, <1>2, ReportInitHolds, PTL DEF StreamSpec


-----------------------------------------------------------------------------
(* When the conditions hold: constants that make them true.                *)

\* The daemon is re-spawned at most once, and far from the numbers it used.
StartsApart ==
    \/ MaxRespawns = 0
    \/ /\ MaxRespawns = 1
       /\ \A r \in RestartSeqs, m, n \in Nat :
             m + n + 2 <= MaxSent => Plus(StartSeq, m) # Plus(r, n)

\* Up to b the numbers count on from the first, from b on from the re-spawn's.
NumberedUpTo(b) ==
    /\ \A i \in Datagram : i < b => sent[i].seq = Plus(StartSeq, i - 1) /\ ~sent[i].restart
    /\ \A i \in Datagram : i >= b => sent[i].seq = Plus(sent[b].seq, i - b)
    /\ b \in Datagram => MaxRespawns > 0 /\ sent[b].restart /\ sent[b].seq \in RestartSeqs

NumberIInv == \E b \in 1 .. Len(sent) + 1 : NumberedUpTo(b)

LEMMA NextNumber ==
    ASSUME NEW q \in SeqNo, NEW n \in Nat, n + 1 <= MaxSent
    PROVE  Plus(Plus(q, n), 1) = Plus(q, n + 1)
<1>1. n + 1 <= SeqMod /\ 1 \in Nat
  BY StreamSizes
<1>2. QED
  BY <1>1, PlusIsSum

LEMMA SendKeepsNumbers ==
    ASSUME StreamIInv, NumberIInv, Send
    PROVE  NumberIInv'
<1>1. /\ Len(sent) \in Nat /\ Len(sent) <= MaxSent /\ Datagram = 1 .. Len(sent) /\ MaxSent \in Nat
      /\ \A i \in Datagram : sent[i].seq \in SeqNo
  BY StreamTypes, StreamSizes DEF StreamIInv
<1>2. PICK s \in SeqNo :
         /\ Emit(s, FALSE)
         /\ IF sent = <<>> THEN s = StartSeq ELSE s = Plus(sent[Len(sent)].seq, 1)
  BY SendEmits
<1>3. PICK new \in Nat : new = Len(sent) + 1
  BY <1>1
<1>4. /\ Len(sent') = new /\ Datagram' = Datagram \cup {new} /\ new \in Payload
      /\ \A j \in Datagram : sent'[j] = sent[j]
      /\ sent'[new].seq = s /\ sent'[new].restart = FALSE
  BY <1>2, <1>3, EmitEffect
<1>5. PICK b \in 1 .. Len(sent) + 1 : NumberedUpTo(b)
  BY DEF NumberIInv
<1>6. new <= MaxSent /\ new \notin Datagram /\ b \in Nat
  BY <1>1, <1>3, <1>4, StreamSizes
<1>7. CASE b = new
  <2>1. s = Plus(StartSeq, new - 1)
    <3>1. CASE sent = <<>>
      <4>1. new - 1 = 0
        BY <1>1, <1>3, <3>1, EmptyIsNoDatagram
      <4>2. Plus(StartSeq, 0) = StartSeq
        BY StreamAssumption, StreamSizes DEF Plus, SeqNo
      <4>3. QED
        BY <1>2, <3>1, <4>1, <4>2
    <3>2. CASE sent # <<>>
      <4>1. Len(sent) \in Datagram /\ Len(sent) < b
        BY <1>3, <1>7, <1>1, <3>2, EmptyIsNoDatagram
      <4>2. sent[Len(sent)].seq = Plus(StartSeq, Len(sent) - 1)
        BY <1>5, <4>1 DEF NumberedUpTo
      <4>3. Len(sent) - 1 \in Nat /\ (Len(sent) - 1) + 1 = new - 1 /\ (Len(sent) - 1) + 1 <= MaxSent
        BY <1>1, <1>3, <4>1
      <4>4. StartSeq \in SeqNo
        BY StreamAssumption
      <4>5. Plus(Plus(StartSeq, Len(sent) - 1), 1) = Plus(StartSeq, (Len(sent) - 1) + 1)
        BY <4>3, <4>4, NextNumber
      <4>6. QED
        BY <1>2, <3>2, <4>2, <4>3, <4>5
    <3>3. QED
      BY <3>1, <3>2
  <2>2. \A i \in Datagram' : i < new + 1 =>
           sent'[i].seq = Plus(StartSeq, i - 1) /\ ~sent'[i].restart
    <3>1. \A i \in Datagram : i < b
      BY <1>1, <1>3, <1>7
    <3>2. \A i \in Datagram : sent[i].seq = Plus(StartSeq, i - 1) /\ ~sent[i].restart
      BY <1>5, <3>1 DEF NumberedUpTo
    <3>3. QED
      BY <1>4, <2>1, <3>2
  <2>3. \A i \in Datagram' : i < new + 1
    BY <1>1, <1>3, <1>4
  <2>4. new + 1 \notin Datagram'
    BY <1>3, <2>3
  <2>5. \A i \in Datagram' : ~(i >= new + 1)
    BY <1>1, <1>3, <1>4
  <2>6. NumberedUpTo(new + 1)'
    BY <2>2, <2>4, <2>5 DEF NumberedUpTo
  <2>7. new + 1 \in 1 .. Len(sent') + 1
    BY <1>4, <1>3
  <2>8. QED
    BY <2>6, <2>7 DEF NumberIInv
<1>8. CASE b # new
  <2>1. b \in Datagram /\ Len(sent) \in Datagram /\ Len(sent) >= b /\ sent # <<>>
    <3>1. b <= Len(sent) /\ 1 <= b
      BY <1>1, <1>3, <1>8
    <3>2. b \in Datagram /\ Len(sent) \in Datagram
      BY <1>1, <1>6, <3>1
    <3>3. QED
      BY <3>1, <3>2, EmptyIsNoDatagram
  <2>2. sent[Len(sent)].seq = Plus(sent[b].seq, Len(sent) - b)
    BY <1>5, <2>1 DEF NumberedUpTo
  <2>3. s = Plus(sent[b].seq, new - b)
    <3>1. /\ Len(sent) - b \in Nat /\ (Len(sent) - b) + 1 = new - b
          /\ (Len(sent) - b) + 1 <= MaxSent
      BY <1>1, <1>3, <1>6, <2>1
    <3>2. Plus(Plus(sent[b].seq, Len(sent) - b), 1) = Plus(sent[b].seq, (Len(sent) - b) + 1)
      BY <1>1, <2>1, <3>1, NextNumber
    <3>3. QED
      BY <1>2, <2>1, <2>2, <3>1, <3>2
  <2>4. sent'[b] = sent[b] /\ b \in Datagram' /\ ~(new < b)
    BY <1>1, <1>3, <1>4, <2>1
  <2>5. \A i \in Datagram' : i < b => sent'[i].seq = Plus(StartSeq, i - 1) /\ ~sent'[i].restart
    BY <1>4, <1>5, <2>4 DEF NumberedUpTo
  <2>6. \A i \in Datagram' : i >= b => sent'[i].seq = Plus(sent'[b].seq, i - b)
    BY <1>4, <1>5, <2>3, <2>4 DEF NumberedUpTo
  <2>7. NumberedUpTo(b)'
    BY <1>5, <2>1, <2>4, <2>5, <2>6 DEF NumberedUpTo
  <2>8. b \in 1 .. Len(sent') + 1
    BY <1>1, <1>3, <1>4, <2>1
  <2>9. QED
    BY <2>7, <2>8 DEF NumberIInv
<1>9. QED
  BY <1>7, <1>8

LEMMA RespawnKeepsNumbers ==
    ASSUME StreamIInv, NumberIInv, StartsApart, Respawn
    PROVE  NumberIInv'
<1>1. /\ Len(sent) \in Nat /\ Datagram = 1 .. Len(sent)
      /\ \A i \in Datagram : sent[i].seq \in SeqNo
  BY StreamTypes, StreamSizes DEF StreamIInv
<1>2. PICK s \in RestartSeqs : Emit(s, TRUE)
  BY DEF Respawn
<1>3. PICK new \in Nat : new = Len(sent) + 1
  BY <1>1
<1>4. /\ Len(sent') = new /\ Datagram' = Datagram \cup {new}
      /\ \A j \in Datagram : sent'[j] = sent[j]
      /\ sent'[new].seq = s /\ sent'[new].restart = TRUE /\ s \in SeqNo
  <2>1. s \in SeqNo
    BY StreamAssumption
  <2>2. QED
    BY <1>2, <1>3, <2>1, EmitEffect
<1>5. PICK b \in 1 .. Len(sent) + 1 : NumberedUpTo(b)
  BY DEF NumberIInv
<1>6. b \notin Datagram
  <2>1. SUFFICES ASSUME b \in Datagram PROVE FALSE
    OBVIOUS
  <2> DEFINE R == {i \in Datagram : sent[i].restart}
  <2>2. b \in R
    BY <1>5, <2>1 DEF NumberedUpTo
  <2>3. IsFiniteSet(R)
    <3>1. IsFiniteSet(Datagram)
      BY <1>1, CountInterval
    <3>2. QED
      BY <3>1, FS_Subset
  <2>4. Cardinality(R) < MaxRespawns /\ MaxRespawns \in {0, 1}
    BY DEF Respawn, StartsApart
  <2> HIDE DEF R
  <2>5. Cardinality(R) \in Nat /\ Cardinality(R) # 0
    BY <2>2, <2>3, FS_CardinalityType, FS_EmptySet
  <2>6. QED
    BY <2>4, <2>5
<1>7. b = new /\ new \notin Datagram
  BY <1>1, <1>3, <1>6
<1>8. \A i \in Datagram : i < new
  BY <1>1, <1>3
<1>9. \A i \in Datagram' : i < new => sent'[i].seq = Plus(StartSeq, i - 1) /\ ~sent'[i].restart
  BY <1>4, <1>5, <1>7, <1>8 DEF NumberedUpTo
<1>10. \A i \in Datagram' : i >= new => sent'[i].seq = Plus(sent'[new].seq, i - new)
  <2>1. Plus(s, new - new) = s
    BY <1>3, <1>4, StreamSizes DEF Plus, SeqNo
  <2>2. \A i \in Datagram' : i >= new => i = new
    BY <1>1, <1>3, <1>4
  <2>3. QED
    BY <1>4, <2>1, <2>2
<1>11. NumberedUpTo(new)'
  <2>1. MaxRespawns > 0
    <3>1. Cardinality({i \in Datagram : sent[i].restart}) < MaxRespawns /\ MaxRespawns \in {0, 1}
      BY DEF Respawn, StartsApart
    <3>2. {i \in Datagram : sent[i].restart} \subseteq Datagram /\ IsFiniteSet(Datagram)
      BY <1>1, CountInterval
    <3>3. Cardinality({i \in Datagram : sent[i].restart}) \in Nat
      BY <3>2, FS_Subset, FS_CardinalityType
    <3>4. QED
      BY <3>1, <3>3
  <2>2. QED
    BY <1>2, <1>4, <1>9, <1>10, <2>1 DEF NumberedUpTo
<1>12. new \in 1 .. Len(sent') + 1
  BY <1>1, <1>3, <1>4
<1>13. QED
  BY <1>11, <1>12 DEF NumberIInv

\* Then no number is used twice.
LEMMA NumberedOnce ==
    ASSUME StreamIInv, NumberIInv, StartsApart
    PROVE  NumbersDistinct
<1>1. /\ Len(sent) \in Nat /\ Len(sent) <= MaxSent /\ Datagram = 1 .. Len(sent) /\ MaxSent \in Nat
      /\ \A i \in Datagram : sent[i].seq \in SeqNo /\ i \in Nat /\ 1 <= i /\ i <= Len(sent)
      /\ MaxSent < SeqMod - 1 /\ SeqMod \in Nat /\ StartSeq \in SeqNo
  BY StreamTypes, StreamSizes, StreamAssumption DEF StreamIInv
<1>2. PICK b \in 1 .. Len(sent) + 1 : NumberedUpTo(b)
  BY DEF NumberIInv
<1>3. \A q \in SeqNo, m, n \in 0 .. SeqMod - 1 : Plus(q, m) = Plus(q, n) => m = n
  <2>1. TAKE q \in SeqNo, m \in 0 .. SeqMod - 1, n \in 0 .. SeqMod - 1
  <2>2. Ahead(Plus(q, m), q) = m /\ Ahead(Plus(q, n), q) = n
    BY SeqArithmetic
  <2>3. QED
    BY <2>2
<1>4. ASSUME NEW i \in Datagram, NEW j \in Datagram, i < b, j < b, sent[i].seq = sent[j].seq
      PROVE  i = j
  <2>1. i - 1 \in 0 .. SeqMod - 1 /\ j - 1 \in 0 .. SeqMod - 1
    BY <1>1
  <2>2. Plus(StartSeq, i - 1) = Plus(StartSeq, j - 1)
    BY <1>2, <1>4 DEF NumberedUpTo
  <2>3. i - 1 = j - 1
    BY <1>1, <1>3, <2>1, <2>2
  <2>4. QED
    BY <1>1, <2>3
<1>5. ASSUME NEW i \in Datagram, NEW j \in Datagram, i >= b, j >= b, sent[i].seq = sent[j].seq
      PROVE  i = j
  <2>1. i - b \in 0 .. SeqMod - 1 /\ j - b \in 0 .. SeqMod - 1 /\ b \in Datagram
    BY <1>1, <1>5
  <2>2. Plus(sent[b].seq, i - b) = Plus(sent[b].seq, j - b)
    BY <1>2, <1>5 DEF NumberedUpTo
  <2>3. i - b = j - b
    BY <1>1, <1>3, <2>1, <2>2
  <2>4. QED
    BY <1>1, <2>3
<1>6. ASSUME NEW i \in Datagram, NEW j \in Datagram, i < b, j >= b
      PROVE  sent[i].seq # sent[j].seq
  <2>1. i - 1 \in Nat /\ j - b \in Nat /\ (i - 1) + (j - b) + 2 <= MaxSent /\ b \in Datagram
    BY <1>1, <1>6
  <2>2. /\ sent[i].seq = Plus(StartSeq, i - 1) /\ sent[j].seq = Plus(sent[b].seq, j - b)
        /\ sent[b].seq \in RestartSeqs /\ MaxRespawns # 0
    BY <1>2, <1>6, <2>1 DEF NumberedUpTo
  <2>3. QED
    BY <2>1, <2>2 DEF StartsApart
<1>7. \A i \in Datagram : i < b \/ i >= b
  BY <1>1
<1>8. QED
  BY <1>4, <1>5, <1>6, <1>7 DEF NumbersDistinct


LEMMA NumberStepHolds ==
    ASSUME StreamIInv, NumberIInv, StartsApart, [StreamNext]_streamVars
    PROVE  NumberIInv'
<1>1. CASE Send
  BY <1>1, SendKeepsNumbers
<1>2. CASE Respawn
  BY <1>2, RespawnKeepsNumbers
<1>3. CASE sent' = sent
  <2>1. Datagram' = Datagram /\ Len(sent') = Len(sent)
    BY <1>3 DEF Datagram
  <2>2. \A b : NumberedUpTo(b) => NumberedUpTo(b)'
    BY <1>3, <2>1 DEF NumberedUpTo
  <2>3. QED
    BY <2>1, <2>2 DEF NumberIInv
<1>4. [StreamNext]_streamVars => Send \/ Respawn \/ sent' = sent
  BY DEF StreamNext, Lose, Copy, Arrive, EndOfStream, Done, streamVars, path
<1>5. QED
  BY <1>1, <1>2, <1>3, <1>4

\* A daemon re-spawned at most once, at numbers it has not used, uses no number
\* twice.
THEOREM NoNumberTwice ==
    PlainPath /\ StartsApart => (StreamSpec => []NumbersDistinct)
<1> SUFFICES ASSUME PlainPath, StartsApart
             PROVE  StreamSpec => []NumbersDistinct
  OBVIOUS
<1>1. StreamInit => NumberIInv
  <2>1. SUFFICES ASSUME StreamInit PROVE NumberIInv
    OBVIOUS
  <2>2. Len(sent) = 0 /\ Datagram = {}
    BY <2>1 DEF StreamInit, Datagram
  <2>3. NumberedUpTo(1) /\ 1 \in 1 .. Len(sent) + 1
    BY <2>2 DEF NumberedUpTo
  <2>4. QED
    BY <2>3 DEF NumberIInv
<1>2. StreamIInv /\ NumberIInv /\ [StreamNext]_streamVars => NumberIInv'
  BY NumberStepHolds
<1>3. StreamIInv /\ NumberIInv => NumbersDistinct
  BY NumberedOnce
<1>4. StreamSpec => []StreamIInv
  BY StreamInvariance
<1>5. QED
  BY <1>1, <1>2, <1>3, <1>4, PTL DEF StreamSpec

-----------------------------------------------------------------------------
(* While no more datagrams are sent than _seen holds, it forgets none.     *)

RememberIInv == \A j \in arrived : sent[j].seq \in seenSet

LEMMA ArriveRemembers ==
    ASSUME DistinctIInv, NumbersDistinct, RememberIInv, MaxSent <= SeenWindow,
           NEW i \in InFlight, Arrive(i)
    PROVE  RememberIInv'
<1> DEFINE s == sent[i].seq
<1>0. StreamIInv /\ KnownIInv /\ SeenInStep
  BY DEF DistinctIInv, StreamIInv, IInv
<1>1. /\ i \in Datagram /\ arrived' = arrived \cup {i} /\ sent' = sent
      /\ Feed(i, sent[i].seq, sent[i].restart)
  BY <1>0, ArriveParts
<1>2. MarkSeen(s) \/ (UNCHANGED <<seen, seenSet>> /\ Known(s))
  BY <1>1, FeedSees
<1>3. CASE Known(s)
  <2>1. i \in arrived /\ s \in seenSet
    BY <1>0, <1>1, <1>3, KnownArrived DEF RememberIInv
  <2>2. seenSet' = seenSet
    BY <1>2, <2>1 DEF MarkSeen
  <2>3. QED
    BY <1>1, <2>1, <2>2 DEF RememberIInv
<1>4. CASE ~Known(s)
  <2>1. s \notin seenSet /\ MarkSeen(s)
    BY <1>2, <1>4 DEF Known
  <2>2. i \notin arrived
    BY <2>1 DEF RememberIInv
  <2>3. /\ IsFiniteSet(arrived) /\ Cardinality(arrived) \in Nat /\ arrived \subseteq Datagram
        /\ Cardinality(arrived) + 1 <= MaxSent
    <3>1. /\ Len(sent) \in Nat /\ Datagram = 1 .. Len(sent) /\ Len(sent) <= MaxSent
          /\ arrived \subseteq Datagram /\ MaxSent \in Nat
      BY <1>0, StreamTypes, StreamSizes DEF StreamIInv, PathIInv, PathTypes
    <3>2. IsFiniteSet(Datagram) /\ Cardinality(Datagram) = Len(sent)
      BY <3>1, CountInterval
    <3>3. IsFiniteSet(arrived) /\ Cardinality(arrived) \in Nat
      BY <3>1, <3>2, FS_Subset, FS_CardinalityType
    <3>4. arrived \cup {i} \subseteq Datagram
      BY <1>1, <3>1
    <3>5. Cardinality(arrived \cup {i}) <= Len(sent)
      BY <3>2, <3>4, FS_Subset
    <3>6. Cardinality(arrived \cup {i}) = Cardinality(arrived) + 1
      BY <2>2, <3>3, FS_AddElement
    <3>7. QED
      BY <3>1, <3>3, <3>5, <3>6
  <2>4. Len(seen) <= Cardinality(arrived) /\ Len(seen) \in Nat
    <3>1. seen \in Seq(SeqNo) /\ Len(seen) \in Nat
      BY <1>0 DEF StreamIInv, IInv, TypeOK
    <3>2. \A k \in 1 .. Len(seen) : \E j \in arrived : sent[j].seq = seen[k]
      BY <1>0 DEF SeenInStep, KnownIInv
    <3> DEFINE f == [k \in 1 .. Len(seen) |-> CHOOSE j \in arrived : sent[j].seq = seen[k]]
    <3>3. \A k \in 1 .. Len(seen) : f[k] \in arrived /\ sent[f[k]].seq = seen[k]
      BY <3>2
    <3>4. f \in [1 .. Len(seen) -> arrived]
      BY <3>3
    <3> HIDE DEF f
    <3>5. \A k, l \in 1 .. Len(seen) : f[k] = f[l] => k = l
      <4>1. \A k, l \in 1 .. Len(seen) : seen[k] = seen[l] => k = l
        BY <1>0 DEF SeenInStep
      <4>2. QED
        BY <3>3, <4>1
    <3>6. f \in Injection(1 .. Len(seen), arrived)
      BY <3>4, <3>5, Fun_IsInj
    <3>7. IsFiniteSet(1 .. Len(seen)) /\ Cardinality(1 .. Len(seen)) = Len(seen)
      BY <3>1, CountInterval
    <3>8. Cardinality(1 .. Len(seen)) <= Cardinality(arrived)
      BY <2>3, <3>6, FS_Injection
    <3>9. QED
      BY <3>1, <3>7, <3>8
  <2>5. Len(seen) # SeenWindow
    <3>1. MaxSent \in Nat /\ SeenWindow \in Nat
      BY StreamSizes, SizesAssumption
    <3>2. QED
      BY <2>3, <2>4, <3>1
  <2>6. seenSet' = seenSet \cup {s}
    BY <2>1, <2>5 DEF MarkSeen
  <2>7. QED
    BY <1>1, <2>6 DEF RememberIInv
<1>5. QED
  BY <1>3, <1>4

LEMMA RememberStepHolds ==
    ASSUME DistinctIInv, NumbersDistinct, RememberIInv, MaxSent <= SeenWindow,
           [StreamNext]_streamVars
    PROVE  RememberIInv'
<1>0. StreamIInv /\ arrived \subseteq Datagram
  BY DEF DistinctIInv, StreamIInv, PathIInv, PathTypes
<1>1. ASSUME NEW s \in SeqNo, NEW restart \in BOOLEAN, Emit(s, restart)
      PROVE  RememberIInv'
  <2>1. UNCHANGED <<vars, arrived>> /\ \A j \in Datagram : sent'[j] = sent[j]
    BY <1>0, <1>1, EmitEffect
  <2>2. QED
    BY <1>0, <2>1 DEF RememberIInv, vars
<1>2. CASE Send
  <2>1. \E s \in SeqNo : Emit(s, FALSE)
    BY <1>0, <1>2, SendEmits
  <2>2. QED
    BY <1>1, <2>1
<1>3. CASE Respawn
  <2>1. \E s \in SeqNo : Emit(s, TRUE)
    BY <1>3, StreamAssumption DEF Respawn
  <2>2. QED
    BY <1>1, <2>1
<1>4. ASSUME NEW i \in InFlight, Arrive(i)
      PROVE  RememberIInv'
  BY <1>4, ArriveRemembers
<1>5. CASE UNCHANGED <<sent, arrived, seenSet>>
  BY <1>5 DEF RememberIInv
<1>6. [StreamNext]_streamVars =>
         \/ Send \/ Respawn
         \/ \E i \in InFlight : Arrive(i)
         \/ UNCHANGED <<sent, arrived, seenSet>>
  BY DEF StreamNext, Lose, Copy, EndOfStream, Flush, Done, streamVars, path, vars
<1>7. QED
  BY <1>2, <1>3, <1>4, <1>5, <1>6

\* What every behaviour gives once the constants are such that no number is used
\* twice and none forgotten too soon: the report adds up, a hole is given up only
\* for a lost datagram, and nothing is held longer than a window.
THEOREM OneDaemonIsServed ==
    PlainPath /\ StartsApart /\ (CopyWindows = {} \/ MaxSent <= SeenWindow)
       => (StreamSpec => [](ReportAddsUp /\ OnlyLostAreSkipped /\ HeldBriefly))
<1> SUFFICES ASSUME PlainPath, StartsApart, CopyWindows = {} \/ MaxSent <= SeenWindow
             PROVE  StreamSpec => [](ReportAddsUp /\ OnlyLostAreSkipped /\ HeldBriefly)
  OBVIOUS
<1>1. StreamSpec => []NumbersDistinct
  BY NoNumberTwice
<1>2. StreamSpec => []CopiesRemembered
  <2>1. CASE CopyWindows = {}
    <3>1. StreamIInv => CopiesRemembered
      <4>1. SUFFICES ASSUME StreamIInv, NEW i \in InFlight \cap arrived
                     PROVE  FALSE
        BY DEF CopiesRemembered
      <4>2. net[i] > 0 /\ net[i] = 0
        BY <2>1, <4>1 DEF StreamIInv, PathIInv, PathTypes, InFlight
      <4>3. QED
        BY <4>2
    <3>2. StreamSpec => []StreamIInv
      BY StreamInvariance
    <3>3. QED
      BY <3>1, <3>2, PTL
  <2>2. CASE MaxSent <= SeenWindow
    <3>1. StreamInit => RememberIInv
      BY DEF StreamInit, RememberIInv
    <3>2. DistinctIInv /\ NumbersDistinct /\ RememberIInv /\ [StreamNext]_streamVars
             => RememberIInv'
      BY <2>2, RememberStepHolds
    <3>3. RememberIInv => CopiesRemembered
      BY DEF RememberIInv, CopiesRemembered
    <3>4. StreamSpec /\ []NumbersDistinct => []DistinctIInv
      BY DistinctInvariance
    <3>5. QED
      BY <1>1, <3>1, <3>2, <3>3, <3>4, PTL DEF StreamSpec
  <2>3. QED
    BY <2>1, <2>2
<1>3. StreamSpec /\ []NumbersDistinct /\ []CopiesRemembered => []ReportAddsUp
  BY ReportIsExact
<1>4. StreamSpec /\ []NumbersDistinct => []OnlyLostAreSkipped
  BY GivenUpOnlyIfLost
<1>5. StreamSpec /\ []NumbersDistinct => []HeldBriefly
  BY HeldLessThanAWindow
<1>6. QED
  BY <1>1, <1>2, <1>3, <1>4, <1>5, PTL

-----------------------------------------------------------------------------
(* What a call of the tracker releases.                                    *)

\* A set one bigger than a finite set at most.
LEMMA OneMore ==
    ASSUME NEW S, NEW s, IsFiniteSet(S)
    PROVE  /\ IsFiniteSet(S \cup {s})
           /\ Cardinality(S \cup {s}) \in Nat
           /\ Cardinality(S \cup {s}) <= Cardinality(S) + 1
<1>1. CASE s \in S
  <2>1. S \cup {s} = S
    BY <1>1
  <2>2. Cardinality(S) \in Nat
    BY FS_CardinalityType
  <2>3. QED
    BY <2>1, <2>2
<1>2. CASE s \notin S
  <2>1. IsFiniteSet(S \cup {s}) /\ Cardinality(S \cup {s}) = Cardinality(S) + 1
    BY <1>2, FS_AddElement
  <2>2. Cardinality(S) \in Nat
    BY FS_CardinalityType
  <2>3. QED
    BY <2>1, <2>2
<1>3. QED
  BY <1>1, <1>2

\* A delivery releases its payload and a run of what is left of the buffer.
LEMMA AcceptIsShort ==
    ASSUME IInv, NEW p \in Payload, NEW s \in SeqNo, NEW st, Adjusted(st),
           NEW D \in SUBSET Held, NEW buf \in [D -> Payload],
           Accept(p, s, buf, st)
    PROVE  Len(out') <= window + 1
<1>1. D \in SUBSET SeqNo /\ Held \in SUBSET SeqNo
  BY DEF IInv, TypeOK
<1>2. /\ Cardinality(D) \in Nat /\ Cardinality(Held) \in Nat
      /\ Cardinality(D) <= Cardinality(Held)
  BY <1>1, SeqSetsFinite, FS_Subset
<1>3. st \in [Counters -> Nat]
  BY DEF Adjusted
<1>4. PICK k \in 0 .. SeqMod : /\ Held' \in SUBSET D
                               /\ Cardinality(D) = Cardinality(Held') + k
                               /\ Len(out') = 1 + k
  BY SMTT(30), <1>1, <1>3, AcceptEffect
<1>5. Cardinality(Held') \in Nat
  <2>1. Held' \in SUBSET SeqNo
    BY <1>1, <1>4
  <2>2. QED
    BY <2>1, SeqSetsFinite
<1>6. Cardinality(Held) <= window /\ window \in Nat
  BY WindowRange DEF IInv, BufferBounded
<1>7. k \in Int
  BY <1>4, SizesAssumption
<1>8. QED
  BY <1>2, <1>4, <1>5, <1>6, <1>7

\* A walk of the base releases what it passes of the buffer.
LEMMA WalkIsShort ==
    ASSUME IInv, expected \in SeqNo,
           NEW D \in SUBSET SeqNo, Cardinality(D) <= Cardinality(Held) + 1,
           NEW buf \in [D -> Payload],
           NEW n \in 0 .. SeqMod, NEW st, Adjusted(st), WalkBase(buf, n, st)
    PROVE  Len(out') <= window + 1
<1>1. Walked(D, n, st)
  BY WalkEffect DEF Adjusted
<1>2. PICK k \in 0 .. n : Cardinality(D) = Cardinality(Held') + k /\ Len(out') = k
  BY <1>1 DEF Walked
<1>3. Held' \in SUBSET D
  BY <1>1 DEF Walked
<1>4. /\ Cardinality(D) \in Nat /\ Cardinality(Held') \in Nat
      /\ Cardinality(Held) \in Nat
  <2>1. Held' \in SUBSET SeqNo /\ Held \in SUBSET SeqNo
    BY <1>3 DEF IInv, TypeOK
  <2>2. QED
    BY <2>1, SeqSetsFinite
<1>5. Cardinality(Held) <= window /\ window \in Nat
  BY WindowRange DEF IInv, BufferBounded
<1>6. k \in Int
  BY <1>2, SizesAssumption
<1>7. QED
  BY <1>2, <1>4, <1>5, <1>6

LEMMA TrackIsShort ==
    ASSUME IInv, NEW p \in Payload, NEW s \in SeqNo, NEW restart \in BOOLEAN,
           Track(p, s, restart)
    PROVE  Len(out') <= window + 1
<1>1. out' = <<p>> \/ out' = <<>>
  BY DEF Track, TrackAccept, Behind
<1>2. Len(<<p>>) = 1 /\ Len(<<>>) = 0
  OBVIOUS
<1>3. Len(out') = 1 \/ Len(out') = 0
  BY <1>1, <1>2
<1>4. QED
  BY <1>3, WindowRange

LEMMA HoldIsShort ==
    ASSUME IInv, expected # None, window > 0, NEW p \in Payload, NEW s \in SeqNo,
           FeedHold(p, s)
    PROVE  Len(out') <= window + 1
<1> DEFINE D == Held \cup {s}
           buf == [t \in D |-> IF t = s THEN p ELSE pending[t]]
           gap == Ahead(s, expected)
           n == ForcedSteps(expected, D)
<1>1. Held \in SUBSET SeqNo /\ pending \in [Held -> Payload] /\ expected \in SeqNo
  BY DEF IInv, TypeOK
<1>2. D \in SUBSET SeqNo /\ D # {} /\ buf \in [D -> Payload] /\ DOMAIN buf = D
  BY <1>1
<1>3. Cardinality(D) <= Cardinality(Held) + 1
  BY <1>1, SeqSetsFinite, OneMore
<1>4. WalkBase(buf, n, NoteGap(gap, stats))
  BY <1>2 DEF FeedHold, Held
<1>5. gap \in 0 .. GapFloor - 1
  <2>1. gap \in SeqNo
    BY <1>1, SeqArithmetic
  <2>2. 0 < gap /\ gap < GapFloor
    BY DEF FeedHold, Early
  <2>3. QED
    BY <2>1, <2>2, SizesAssumption DEF SeqNo
<1>6. Adjusted(NoteGap(gap, stats))
  BY <1>5, AdjustedCounters
<1>7. n \in 0 .. SeqMod
  <2>1. /\ n = IF HiAhead(expected, D) >= window THEN HiAhead(expected, D) - window + 1 ELSE 0
        /\ HiAhead(expected, D) \in SeqNo
    BY <1>1, <1>2, WindowRange, ForcedStepsExact, HiAheadIsMax
  <2>2. QED
    BY <2>1, WindowRange, SizesAssumption DEF SeqNo
<1> HIDE DEF D, buf, n, gap
<1>8. QED
  BY <1>1, <1>2, <1>3, <1>4, <1>6, <1>7, WalkIsShort

\* feed() returns one payload more than the window holds at most: the one it
\* is given and a full buffer behind it.
LEMMA FeedIsShort ==
    ASSUME IInv, NEW p \in Payload, NEW s \in SeqNo, NEW restart \in BOOLEAN,
           Feed(p, s, restart)
    PROVE  Len(out') <= window + 1
<1>1. /\ stats \in [Counters -> Nat] /\ Held \in SUBSET SeqNo
      /\ pending \in [Held -> Payload] /\ expected \in SeqNo \cup {None}
  BY DEF IInv, TypeOK
<1>2. Empty \in [{} -> Payload] /\ {} \in SUBSET Held /\ Held \in SUBSET Held
  BY DEF Empty
<1>3. CASE Track(p, s, restart)
  BY <1>3, TrackIsShort
<1>4. CASE FeedRebase(p, s, restart)
  <2> DEFINE buf == IF restart /\ expected # None THEN Empty ELSE pending
             D == IF restart /\ expected # None THEN {} ELSE Held
  <2>1. Accept(p, s, buf, CountRestart(restart, stats))
    BY <1>4 DEF FeedRebase
  <2>2. D \in SUBSET Held /\ buf \in [D -> Payload]
    BY <1>1, <1>2
  <2>3. Adjusted(CountRestart(restart, stats))
    BY AdjustedCounters
  <2> HIDE DEF buf, D
  <2>4. QED
    BY <2>1, <2>2, <2>3, AcceptIsShort
<1>5. CASE FeedInOrder(p, s)
  <2>1. Accept(p, s, pending, stats)
    BY <1>5 DEF FeedInOrder
  <2>2. Adjusted(stats)
    BY AdjustedCounters
  <2>3. QED
    BY <1>1, <1>2, <2>1, <2>2, AcceptIsShort
<1>6. CASE ~Rebases(restart) /\ FeedSwitch(p, s)
  <2> DEFINE st == [NoteGap(Ahead(s, expected), stats) EXCEPT !.stream_switches = @ + 1]
  <2>1. Accept(p, s, Empty, st)
    BY <1>6 DEF FeedSwitch
  <2>2. Ahead(s, expected) \in Nat /\ Ahead(s, expected) >= GapFloor
    BY <1>1, <1>6, SeqArithmetic DEF FeedSwitch, SeqNo, Rebases
  <2>3. Adjusted(st)
    BY <2>2, AdjustedCounters
  <2> HIDE DEF st
  <2>4. QED
    BY <1>2, <2>1, <2>3, AcceptIsShort
<1>7. CASE window > 0 /\ ~Rebases(restart) /\ FeedHold(p, s)
  BY <1>7, HoldIsShort DEF Rebases
<1>8. CASE FeedEarlyCopy(s) \/ Behind(s)
  <2>1. out' = <<>>
    BY <1>8 DEF FeedEarlyCopy, Behind
  <2>2. Len(<<>>) = 0
    OBVIOUS
  <2>3. QED
    BY <2>1, <2>2, WindowRange
<1>9. QED
  BY <1>3, <1>4, <1>5, <1>6, <1>7, <1>8 DEF Feed, FeedBuffered

\* flush() returns what is held, and nothing is held after it.
LEMMA FlushEmpties ==
    ASSUME IInv, Flush
    PROVE  Held' = {} /\ Len(out') <= window + 1 /\ Len(out') = stats'.received - stats.received
<1>1. /\ Held \in SUBSET SeqNo /\ pending \in [Held -> Payload]
      /\ stats \in [Counters -> Nat]
  BY DEF IInv, TypeOK
<1>2. CASE Held = {}
  <2>1. out' = <<>> /\ UNCHANGED <<stats, pending>>
    BY <1>2 DEF Flush, Held
  <2>2. Len(out') = 0 /\ Held' = {}
    BY <1>2, <2>1 DEF Held
  <2>3. QED
    BY <1>1, <2>1, <2>2, WindowRange DEF Counters
<1>3. CASE Held # {}
  <2> DEFINE n == HiAhead(expected, Held) + 1
  <2>1. /\ expected \in SeqNo /\ n \in 0 .. SeqMod
        /\ Held \ Passed(expected, Held, n) = {}
    BY <1>3, FlushPassesAll
  <2>2. WalkBase(pending, n, stats)
    BY <1>3 DEF Flush, Held
  <2>3. Adjusted(stats)
    BY AdjustedCounters
  <2>4. Cardinality(Held) <= Cardinality(Held) + 1
    BY <1>1, SeqSetsFinite
  <2> HIDE DEF n
  <2>5. Len(out') <= window + 1
    BY <1>1, <2>1, <2>2, <2>3, <2>4, WalkIsShort
  <2>6. Walked(Held, n, stats)
    BY <1>1, <2>1, <2>2, WalkEffect
  <2>7. Held' = {}
    BY <2>1, <2>6 DEF Walked
  <2>8. Len(out') = stats'.received - stats.received
    <3>1. PICK k \in 0 .. n : Len(out') = k /\ stats' = [stats EXCEPT !.received = @ + k,
                                                                      !.missing = @ + (n - k)]
      BY <2>6 DEF Walked
    <3>2. stats.received \in Nat /\ stats'.received = stats.received + k
      BY <1>1, <3>1 DEF Counters
    <3>3. k \in Int
      BY <2>1, SizesAssumption
    <3>4. QED
      BY <3>1, <3>2, <3>3
  <2>9. QED
    BY <2>5, <2>7, <2>8
<1>4. QED
  BY <1>2, <1>3

-----------------------------------------------------------------------------
(* The inductive invariant.  ListenTypeOK alone is not inductive: that one *)
(* burst fits in _ready needs _ready to be empty when the socket is asked, *)
(* and that the end is announced last needs the reorder buffer, once       *)
(* flushed, to stay empty, so that no datagram is read after it.           *)

\* The socket is asked when nothing is queued and the end is not reached.
AskedWhenEmpty == pc = "recv" => ready = <<>> /\ ~eof

FlushedAtEnd == eof => Held = {}

EndIsLast == result = "EOFError" => pc = "idle" /\ ready = <<>>

SlicesAddUp == stats.received = taken + Len(pend) + Len(ready)

ListenIInv ==
    /\ IInv /\ ListenTypeOK
    /\ AskedWhenEmpty /\ FlushedAtEnd /\ EndIsLast /\ SlicesAddUp

\* The tracker's part does not move with the reader's steps.
LEMMA TrackerUntouched ==
    ASSUME IInv, UNCHANGED vars
    PROVE  IInv' /\ TypeOK' /\ Held' = Held /\ stats' = stats /\ window' = window
  BY DEF vars, IInv, TypeOK, SeenInStep, Conservation, BufferBounded,
         SwitchIffHugeGap, Held

LEMMA ListenInitHolds == ListenInit => ListenIInv
<1> SUFFICES ASSUME ListenInit PROVE ListenIInv
  OBVIOUS
<1>1. IInv /\ TypeOK
  BY InitHolds DEF ListenInit, IInv
<1>2. /\ <<>> \in Seq(Arrivals) /\ <<>> \in Seq(Payload)
      /\ <<>> \in Seq(Payload \ {"none"}) /\ Len(<<>>) = 0
  OBVIOUS
<1>3. SockCap \in Nat /\ window \in Nat
  BY <1>1, ListenAssumption, WindowRange
<1>4. stats.received = 0 /\ Held = {}
  BY DEF ListenInit, Init, Counters, Held, Empty
<1>5. ListenTypeOK
  <2>1. sock \in Seq(Arrivals) /\ Len(sock) <= SockCap
    BY <1>2, <1>3 DEF ListenInit
  <2>2. ready \in Seq(Payload) /\ Len(ready) <= window + 1
    BY <1>2, <1>3 DEF ListenInit
  <2>3. pend \in Seq(Payload \ {"none"})
    BY <1>2 DEF ListenInit
  <2>4. {eof, timed, late, stop} \subseteq BOOLEAN
    BY DEF ListenInit
  <2>5. pc = "idle" /\ call = "recv" /\ result = "none" /\ taken = 0
    BY DEF ListenInit
  <2>6. QED
    BY <1>1, <2>1, <2>2, <2>3, <2>4, <2>5 DEF ListenTypeOK, Results
<1>6. AskedWhenEmpty /\ FlushedAtEnd /\ EndIsLast /\ SlicesAddUp
  BY <1>2, <1>4 DEF ListenInit, AskedWhenEmpty, FlushedAtEnd, EndIsLast, SlicesAddUp
<1>7. QED
  BY <1>1, <1>5, <1>6 DEF ListenIInv

-----------------------------------------------------------------------------
(* The steps that move no slice.                                           *)

\* A step that leaves the queues of slices and _eof alone, and neither
\* announces the end nor goes to ask the socket.
LEMMA QuietStep ==
    ASSUME ListenIInv, UNCHANGED <<vars, ready, eof, pend, taken>>,
           sock' \in Seq(Arrivals), Len(sock') <= SockCap,
           pc' \in {"idle", "check", "select", "read", "recv"},
           pc' = "recv" => pc = "recv" \/ (ready = <<>> /\ ~eof),
           call' \in {"recv", "read_raw"},
           {timed', late', stop'} \subseteq BOOLEAN,
           result' \in Results,
           result' = "EOFError" => pc' = "idle" /\ ready = <<>>
    PROVE  ListenIInv'
<1>1. IInv' /\ TypeOK' /\ Held' = Held /\ stats' = stats /\ window' = window
  BY TrackerUntouched DEF ListenIInv
<1>2. UNCHANGED <<ready, eof, pend, taken>>
  OBVIOUS
<1>3. ListenTypeOK'
  BY <1>1, <1>2 DEF ListenIInv, ListenTypeOK
<1>4. AskedWhenEmpty'
  BY <1>2 DEF ListenIInv, AskedWhenEmpty
<1>5. FlushedAtEnd' /\ EndIsLast' /\ SlicesAddUp'
  BY <1>1, <1>2 DEF ListenIInv, FlushedAtEnd, EndIsLast, SlicesAddUp
<1>6. QED
  BY <1>1, <1>3, <1>4, <1>5 DEF ListenIInv

LEMMA KernelQueuesKeeps == ListenIInv /\ KernelQueues => ListenIInv'
<1> SUFFICES ASSUME ListenIInv, KernelQueues PROVE ListenIInv'
  OBVIOUS
<1>1. sock \in Seq(Arrivals) /\ Len(sock) < SockCap
  BY DEF ListenIInv, ListenTypeOK, KernelQueues
<1>2. PICK d \in Arrivals : sock' = Append(sock, d)
  BY DEF KernelQueues
<1>3. sock' \in Seq(Arrivals) /\ Len(sock') = Len(sock) + 1
  BY <1>1, <1>2, AppendProperties
<1>4. Len(sock') <= SockCap
  BY <1>1, <1>3, ListenAssumption
<1>5. QED
  BY <1>3, <1>4, QuietStep DEF ListenIInv, ListenTypeOK, KernelQueues, EndIsLast

LEMMA ClockAndCallKeep ==
    ListenIInv /\ (DeadlinePasses \/ SetStop \/ Call) => ListenIInv'
<1> SUFFICES ASSUME ListenIInv, DeadlinePasses \/ SetStop \/ Call PROVE ListenIInv'
  OBVIOUS
<1>1. CASE DeadlinePasses
  BY <1>1, QuietStep DEF ListenIInv, ListenTypeOK, DeadlinePasses, EndIsLast
<1>2. CASE SetStop
  BY <1>2, QuietStep DEF ListenIInv, ListenTypeOK, SetStop, EndIsLast
<1>3. CASE Call
  BY <1>3, QuietStep DEF ListenIInv, ListenTypeOK, Call, Results
<1>4. QED
  BY <1>1, <1>2, <1>3

LEMMA ControlKeeps ==
    ListenIInv /\ (CheckLimits \/ SelectReady \/ SelectExpires \/ RaiseEof \/ EnterSockRecv)
        => ListenIInv'
<1> SUFFICES ASSUME ListenIInv,
                    CheckLimits \/ SelectReady \/ SelectExpires \/ RaiseEof \/ EnterSockRecv
             PROVE  ListenIInv'
  OBVIOUS
<1> USE DEF Goto, Return, Results
<1>1. CASE CheckLimits
  <2>1. /\ pc = "check" /\ pc' \in {"idle", "select"} /\ result' \in {result, "InterruptedError", "TimeoutError"}
        /\ UNCHANGED <<vars, sock, ready, eof, pend, call, timed, late, stop, taken>>
    <3>1. stop \in BOOLEAN /\ late \in BOOLEAN
      BY DEF ListenIInv, ListenTypeOK
    <3>2. CASE call = "recv" /\ stop
      BY <1>1, <3>2 DEF CheckLimits
    <3>3. CASE call = "recv" /\ ~stop /\ late
      BY <1>1, <3>3 DEF CheckLimits
    <3>4. CASE call = "recv" /\ ~stop /\ ~late
      BY <1>1, <3>4 DEF CheckLimits
    <3>5. CASE call # "recv"
      BY <1>1, <3>5 DEF CheckLimits
    <3>6. QED
      BY <3>1, <3>2, <3>3, <3>4, <3>5
  <2>2. QED
    BY <2>1, QuietStep DEF ListenIInv, ListenTypeOK, EndIsLast
<1>2. CASE SelectReady
  BY <1>2, QuietStep DEF ListenIInv, ListenTypeOK, SelectReady, EndIsLast
<1>3. CASE SelectExpires
  BY <1>3, QuietStep DEF ListenIInv, ListenTypeOK, SelectExpires, EndIsLast
<1>4. CASE RaiseEof
  BY <1>4, QuietStep DEF ListenIInv, ListenTypeOK, RaiseEof, EndIsLast
<1>5. CASE EnterSockRecv
  BY <1>5, QuietStep DEF ListenIInv, ListenTypeOK, EnterSockRecv, EndIsLast
<1>6. QED
  BY <1>1, <1>2, <1>3, <1>4, <1>5

-----------------------------------------------------------------------------
(* The steps that move slices.                                             *)

\* A set of natural numbers that has a member has a least one.
LEMMA LeastExists ==
    ASSUME NEW T, T \subseteq Nat, T # {}
    PROVE  \E x \in T : \A y \in T : x <= y
<1> DEFINE R == OpToRel(<, Nat)
<1>1. PICK x \in T : \A y \in T : <<y, x>> \notin R
  <2> HIDE DEF R
  <2>1. IsWellFoundedOn(R, Nat)
    BY NatLessThanWellFounded DEF R
  <2>2. QED
    BY <2>1, WFMin
<1>2. \A y \in T : ~(y < x)
  BY <1>1 DEF OpToRel
<1>3. QED
  BY <1>2

\* recv() takes the slices up to the first that ends a frame.
LEMMA FirstEndIsOne ==
    ASSUME NEW slices \in Seq(Kinds), HasDelimiter(slices)
    PROVE  FirstEnd(slices) \in 1 .. Len(slices) /\ slices[FirstEnd(slices)] # "part"
<1> DEFINE T == {i \in 1 .. Len(slices) : slices[i] # "part"}
<1>1. T \subseteq Nat /\ T # {}
  BY DEF HasDelimiter
<1>2. PICK i \in T : \A j \in T : i <= j
  BY <1>1, LeastExists
<1>3. \A j \in 1 .. i - 1 : slices[j] = "part"
  BY <1>2
<1>4. \E e \in 1 .. Len(slices) :
          slices[e] # "part" /\ \A j \in 1 .. e - 1 : slices[j] = "part"
  BY <1>2, <1>3
<1>5. QED
  BY <1>4 DEF FirstEnd

LEMMA TakeFrameKeeps == ListenIInv /\ TakeFrame => ListenIInv'
<1> SUFFICES ASSUME ListenIInv, TakeFrame PROVE ListenIInv'
  OBVIOUS
<1> DEFINE end == FirstEnd(pend)
<1>1. /\ pend \in Seq(Payload \ {"none"}) /\ HasDelimiter(pend)
      /\ pend \in Seq(Kinds)
  BY ListenAssumption DEF ListenIInv, ListenTypeOK, TakeFrame
<1>2. end \in 1 .. Len(pend) /\ pend[end] # "part"
  BY <1>1, FirstEndIsOne
<1>3. pend[end] \in {"frame", "junk", "bare"}
  <2>1. pend[end] \in Payload \ {"none"}
    BY <1>1, <1>2, ElementOfSeq
  <2>2. QED
    BY <1>2, <2>1, ListenAssumption DEF Kinds
<1>4. /\ UNCHANGED <<vars, sock, ready, eof, call, timed, late, stop>>
      /\ pend' = SubSeq(pend, end + 1, Len(pend))
      /\ taken' = taken + end
      /\ pc = "check" /\ pc' \in {"idle", "check"}
      /\ result' \in {"frame", "IndexError", result}
  BY <1>3 DEF TakeFrame, Return, Goto
<1> HIDE DEF end
<1>5. Len(pend) \in Nat /\ end \in Nat /\ end <= Len(pend)
  BY <1>1, <1>2
<1>6. pend' \in Seq(Payload \ {"none"}) /\ Len(pend') = Len(pend) - end
  <2>1. \A i \in end + 1 .. Len(pend) : i \in 1 .. Len(pend)
    BY <1>5
  <2>2. pend' \in Seq(Payload \ {"none"})
    BY <1>1, <1>4, <1>5, <2>1, SubSeqProperties
  <2>3. Len(pend') = IF end + 1 <= Len(pend) THEN Len(pend) - (end + 1) + 1 ELSE 0
    BY <1>1, <1>4, <1>5, SubSeqProperties
  <2>4. QED
    BY <1>5, <2>2, <2>3
<1>7. IInv' /\ TypeOK' /\ Held' = Held /\ stats' = stats /\ window' = window
  BY <1>4, TrackerUntouched DEF ListenIInv
<1>8. ListenTypeOK'
  <2>1. taken' \in Nat
    BY <1>4, <1>5 DEF ListenIInv, ListenTypeOK
  <2>2. pc' \in {"idle", "check", "select", "read", "recv"} /\ result' \in Results
    BY <1>4 DEF ListenIInv, ListenTypeOK, Results
  <2>3. QED
    BY <1>4, <1>6, <1>7, <2>1, <2>2 DEF ListenIInv, ListenTypeOK
<1>9. SlicesAddUp'
  <2>1. taken \in Nat /\ Len(ready) \in Nat
    BY DEF ListenIInv, ListenTypeOK
  <2>2. stats.received = taken + Len(pend) + Len(ready)
    BY DEF ListenIInv, SlicesAddUp
  <2>3. Len(ready') = Len(ready)
    BY <1>4
  <2>4. stats'.received = stats.received /\ taken' = taken + end
    BY <1>4, <1>7
  <2>5. stats'.received = taken' + Len(pend') + Len(ready')
    BY <1>5, <1>6, <2>1, <2>2, <2>3, <2>4
  <2>6. QED
    BY <2>5 DEF SlicesAddUp
<1>10. AskedWhenEmpty' /\ FlushedAtEnd' /\ EndIsLast'
  BY <1>4, <1>7 DEF ListenIInv, AskedWhenEmpty, FlushedAtEnd, EndIsLast
<1>11. QED
  BY <1>7, <1>8, <1>9, <1>10 DEF ListenIInv

LEMMA TakePendingKeeps == ListenIInv /\ TakePending => ListenIInv'
<1> SUFFICES ASSUME ListenIInv, TakePending PROVE ListenIInv'
  OBVIOUS
<1>1. /\ UNCHANGED <<vars, sock, ready, eof, call, timed, late, stop>>
      /\ pend' = <<>> /\ taken' = taken + Len(pend)
      /\ pc' = "idle" /\ result' = "data"
  BY DEF TakePending, Return
<1>2. IInv' /\ TypeOK' /\ Held' = Held /\ stats' = stats /\ window' = window
  BY <1>1, TrackerUntouched DEF ListenIInv
<1>3. taken \in Nat /\ Len(pend) \in Nat /\ Len(ready) \in Nat
  BY DEF ListenIInv, ListenTypeOK
<1>4. pend' \in Seq(Payload \ {"none"}) /\ Len(pend') = 0
  BY <1>1
<1>5. ListenTypeOK'
  <2>1. taken' \in Nat
    BY <1>1, <1>3
  <2>2. pc' \in {"idle", "check", "select", "read", "recv"} /\ result' \in Results
    BY <1>1 DEF Results
  <2>3. QED
    BY <1>1, <1>2, <1>4, <2>1, <2>2 DEF ListenIInv, ListenTypeOK
<1>6. SlicesAddUp'
  <2>1. stats.received = taken + Len(pend) + Len(ready)
    BY DEF ListenIInv, SlicesAddUp
  <2>2. stats'.received = taken' + Len(pend') + Len(ready')
    BY <1>1, <1>2, <1>3, <1>4, <2>1
  <2>3. QED
    BY <2>2 DEF SlicesAddUp
<1>7. AskedWhenEmpty' /\ FlushedAtEnd' /\ EndIsLast'
  BY <1>1, <1>2 DEF ListenIInv, AskedWhenEmpty, FlushedAtEnd, EndIsLast
<1>8. QED
  BY <1>2, <1>5, <1>6, <1>7 DEF ListenIInv

\* One payload of _ready goes to the caller, or to _pend.
LEMMA PopReadyKeeps == ListenIInv /\ PopReady => ListenIInv'
<1> SUFFICES ASSUME ListenIInv, PopReady PROVE ListenIInv'
  OBVIOUS
<1>1. /\ ready \in Seq(Payload) /\ ready # <<>> /\ Len(ready) <= window + 1
      /\ pend \in Seq(Payload \ {"none"}) /\ taken \in Nat
  BY DEF ListenIInv, ListenTypeOK, PopReady
<1>2. /\ UNCHANGED <<vars, sock, eof, call, timed, late, stop>>
      /\ ready' = Tail(ready)
  BY DEF PopReady
<1>3. Head(ready) \in Payload /\ ready' \in Seq(Payload) /\ Len(ready') = Len(ready) - 1
  BY <1>1, <1>2, HeadTailProperties
<1>4. IInv' /\ TypeOK' /\ Held' = Held /\ stats' = stats /\ window' = window
  BY <1>2, TrackerUntouched DEF ListenIInv
<1>5. /\ pc' \in {"idle", "check"} /\ result' \in {"empty", "data", result}
      /\ pc = "read"
      /\ \/ taken' = taken + 1 /\ pend' = pend
         \/ taken' = taken /\ pend' = Append(pend, Head(ready)) /\ Head(ready) # "none"
  BY DEF PopReady, Receive, Return, Goto
<1>6. Len(pend) \in Nat /\ Len(ready) \in Nat /\ window \in Nat
  BY <1>1, WindowRange DEF ListenIInv
<1>7. /\ pend' \in Seq(Payload \ {"none"}) /\ taken' \in Nat /\ Len(pend') \in Nat
      /\ taken' + Len(pend') = taken + Len(pend) + 1
  <2>1. CASE taken' = taken + 1 /\ pend' = pend
    BY <1>1, <1>6, <2>1
  <2>2. CASE taken' = taken /\ pend' = Append(pend, Head(ready)) /\ Head(ready) # "none"
    <3>1. Head(ready) \in Payload \ {"none"}
      BY <1>3, <2>2
    <3>2. pend' \in Seq(Payload \ {"none"}) /\ Len(pend') = Len(pend) + 1
      BY <1>1, <2>2, <3>1, AppendProperties
    <3>3. QED
      BY <1>1, <1>6, <2>2, <3>2
  <2>3. QED
    BY <1>5, <2>1, <2>2
<1>8. ListenTypeOK'
  <2>1. Len(ready') <= window' + 1
    BY <1>1, <1>3, <1>4, <1>6
  <2>2. pc' \in {"idle", "check", "select", "read", "recv"} /\ result' \in Results
    BY <1>5 DEF ListenIInv, ListenTypeOK, Results
  <2>3. QED
    BY <1>2, <1>3, <1>4, <1>7, <2>1, <2>2 DEF ListenIInv, ListenTypeOK
<1>9. SlicesAddUp'
  <2>1. stats.received = taken + Len(pend) + Len(ready)
    BY DEF ListenIInv, SlicesAddUp
  <2>2. stats'.received = taken' + Len(pend') + Len(ready')
    BY <1>1, <1>3, <1>4, <1>6, <1>7, <2>1
  <2>3. QED
    BY <2>2 DEF SlicesAddUp
<1>10. AskedWhenEmpty' /\ FlushedAtEnd'
  BY <1>2, <1>4, <1>5 DEF ListenIInv, AskedWhenEmpty, FlushedAtEnd
<1>11. EndIsLast'
  \* The thread is in a call, so the last result is not the end of the stream:
  \* _ready would be empty.
  BY <1>1, <1>5 DEF ListenIInv, EndIsLast
<1>12. QED
  BY <1>4, <1>8, <1>9, <1>10, <1>11 DEF ListenIInv

\* A malformed datagram that the model counts no further.
LEMMA NothingCounted ==
    ASSUME IInv, out' = <<>>,
           UNCHANGED <<window, expected, stats, seen, seenSet, pending, fed, discarded>>
    PROVE  IInv' /\ StepCounts
<1>1. Held' = Held
  BY DEF Held
<1>2. TypeOK'
  BY <1>1 DEF IInv, TypeOK
<1>3. IInv'
  BY <1>1, <1>2 DEF IInv, SeenInStep, Conservation, BufferBounded, SwitchIffHugeGap
<1>4. stats.received \in Nat /\ stats.missing \in Nat /\ Len(<<>>) = 0
  BY DEF IInv, TypeOK, Counters
<1>5. expected # None => expected \in SeqNo /\ Plus(expected, 0) = expected
  BY SizesAssumption DEF IInv, TypeOK, Plus, SeqNo
<1>6. StepCounts
  BY <1>4, <1>5 DEF StepCounts
<1>7. QED
  BY <1>3, <1>6

\* One datagram is taken and what it releases is queued.
LEMMA SockRecvKeeps == ListenIInv /\ SockRecv => ListenIInv'
<1> SUFFICES ASSUME ListenIInv, SockRecv PROVE ListenIInv'
  OBVIOUS
<1> DEFINE d == Head(sock)
<1>1. /\ IInv /\ sock \in Seq(Arrivals) /\ sock # <<>> /\ Len(sock) <= SockCap
      /\ pend \in Seq(Payload \ {"none"}) /\ taken \in Nat
      /\ ready = <<>> /\ eof = FALSE
  BY DEF ListenIInv, ListenTypeOK, AskedWhenEmpty, SockRecv
<1>2. d \in Arrivals /\ sock' \in Seq(Arrivals) /\ Len(sock') = Len(sock) - 1
  BY <1>1, HeadTailProperties DEF SockRecv
<1>3. /\ UNCHANGED <<pend, call, timed, late, stop, taken, result>>
      /\ ready' = ready \o out' /\ pc' = "read"
      /\ \/ eof' = TRUE /\ Flush
         \/ CountMalformed /\ UNCHANGED eof
         \/ d.dgram = "dge1" /\ Feed(d.payload, d.seq, d.restart) /\ UNCHANGED eof
  BY DEF SockRecv, Goto
<1>4. stats \in [Counters -> Nat] /\ window \in Nat
  BY <1>1, WindowRange DEF IInv, TypeOK
<1>5. /\ IInv' /\ window' = window
      /\ Len(out') <= window + 1
      /\ stats'.received - stats.received = Len(out')
      /\ eof' => Held' = {}
      /\ eof' \in BOOLEAN
  <2>1. CASE eof' = TRUE /\ Flush
    <3>1. Held' = {} /\ Len(out') <= window + 1 /\ Len(out') = stats'.received - stats.received
      BY <1>1, <2>1, FlushEmpties
    <3>2. IInv' /\ window' = window
      BY <1>1, <2>1, FlushKeeps DEF Flush
    <3>3. QED
      BY <2>1, <3>1, <3>2
  <2>2. CASE CountMalformed /\ UNCHANGED eof
    <3>1. IInv' /\ StepCounts
      <4>1. CASE NoteMalformed
        BY <1>1, <4>1, NoteMalformedKeeps
      <4>2. CASE /\ out' = <<>>
                 /\ UNCHANGED <<window, expected, stats, seen, seenSet, pending, fed, discarded>>
        BY <1>1, <4>2, NothingCounted
      <4>3. QED
        BY <2>2, <4>1, <4>2 DEF CountMalformed
    <3>2. out' = <<>> /\ window' = window /\ Len(<<>>) = 0
      BY <2>2 DEF CountMalformed, NoteMalformed
    <3>3. Len(out') = 0
      BY <3>2
    <3>4. stats'.received - stats.received = Len(out')
      BY <3>1 DEF StepCounts
    <3>5. Len(out') <= window + 1
      BY <1>4, <3>3
    <3>6. (eof' => Held' = {}) /\ eof' \in BOOLEAN
      BY <1>1, <2>2
    <3>7. QED
      BY <3>1, <3>2, <3>4, <3>5, <3>6
  <2>3. CASE d.dgram = "dge1" /\ Feed(d.payload, d.seq, d.restart) /\ UNCHANGED eof
    <3>1. d.payload \in Payload /\ d.seq \in SeqNo /\ d.restart \in BOOLEAN
      <4>1. d # Malformed /\ d # Zero
        BY <2>3 DEF Malformed, Zero
      <4>2. d \in [dgram : {"dge1"}, payload : Payload, seq : SeqNo, restart : BOOLEAN]
        BY <1>2, <4>1, ListenAssumption
      <4>3. QED
        BY <4>2
    <3>2. IInv' /\ StepCounts /\ Len(out') <= window + 1 /\ window' = window
      BY <1>1, <2>3, <3>1, FeedKeeps, FeedIsShort DEF Feed
    <3>3. QED
      BY <1>1, <2>3, <3>2 DEF StepCounts
  <2>4. QED
    BY <1>3, <2>1, <2>2, <2>3
<1>6. TypeOK' /\ out' \in Seq(Payload) /\ stats' \in [Counters -> Nat]
  BY <1>5 DEF IInv, TypeOK
<1>7. ready' \in Seq(Payload) /\ ready' = out'
  <2>1. <<>> \o out' = out'
    BY <1>6, ConcatEmptySeq
  <2>2. QED
    BY <1>1, <1>3, <1>6, <2>1
<1>8. ListenTypeOK'
  <2>1. Len(sock) \in Nat
    BY <1>1
  <2>2. Len(sock') <= SockCap
    BY <1>1, <1>2, <2>1, ListenAssumption
  <2>3. Len(ready') <= window' + 1
    BY <1>5, <1>7
  <2>4. QED
    BY <1>2, <1>3, <1>5, <1>6, <1>7, <2>2, <2>3 DEF ListenIInv, ListenTypeOK
<1>9. SlicesAddUp'
  <2>1. stats.received = taken + Len(pend) + Len(ready)
    BY DEF ListenIInv, SlicesAddUp
  <2>2. Len(ready) = 0 /\ Len(ready') = Len(out') /\ Len(pend') = Len(pend)
    BY <1>1, <1>3, <1>7
  <2>3. Len(out') \in Nat /\ Len(pend) \in Nat /\ stats.received \in Nat /\ stats'.received \in Nat
    <3>1. Len(out') \in Nat
      BY <1>6
    <3>2. Len(pend) \in Nat
      BY <1>1
    <3>3. stats.received \in Nat /\ stats'.received \in Nat
      BY <1>4, <1>6 DEF Counters
    <3>4. QED
      BY <3>1, <3>2, <3>3
  <2>4. stats'.received = taken' + Len(pend') + Len(ready')
    BY <1>1, <1>3, <1>5, <2>1, <2>2, <2>3
  <2>5. QED
    BY <2>4 DEF SlicesAddUp
<1>10. AskedWhenEmpty' /\ FlushedAtEnd'
  BY <1>3, <1>5 DEF AskedWhenEmpty, FlushedAtEnd
<1>11. EndIsLast'
  BY <1>3 DEF ListenIInv, EndIsLast, SockRecv
<1>12. QED
  BY <1>5, <1>8, <1>9, <1>10, <1>11 DEF ListenIInv

-----------------------------------------------------------------------------
(* The theorems.                                                           *)

LEMMA ListenStepHolds == ListenIInv /\ [ListenNext]_listenVars => ListenIInv'
<1> SUFFICES ASSUME ListenIInv, [ListenNext]_listenVars PROVE ListenIInv'
  OBVIOUS
<1>1. CASE KernelQueues
  BY <1>1, KernelQueuesKeeps
<1>2. CASE DeadlinePasses \/ SetStop \/ Call
  BY <1>2, ClockAndCallKeep
<1>3. CASE CheckLimits \/ SelectReady \/ SelectExpires \/ RaiseEof \/ EnterSockRecv
  BY <1>3, ControlKeeps
<1>4. CASE TakeFrame
  BY <1>4, TakeFrameKeeps
<1>5. CASE TakePending
  BY <1>5, TakePendingKeeps
<1>6. CASE PopReady
  BY <1>6, PopReadyKeeps
<1>7. CASE SockRecv
  BY <1>7, SockRecvKeeps
<1>8. CASE UNCHANGED listenVars
  BY <1>8, QuietStep DEF listenVars, reader, ListenIInv, ListenTypeOK, EndIsLast,
                         AskedWhenEmpty
<1>9. QED
  BY <1>1, <1>2, <1>3, <1>4, <1>5, <1>6, <1>7, <1>8 DEF ListenNext, ReaderStep

\* The inductive invariant holds in every reachable state.
THEOREM ListenInvariance == ListenSpec => []ListenIInv
BY ListenInitHolds, ListenStepHolds, PTL DEF ListenSpec

\* Type correctness, with the bound that matters: however long the stream and
\* whatever is lost, copied or reordered on the way, _ready never holds more
\* than one burst, a payload and a window full of held ones.
THEOREM ReadyHoldsOneBurst == ListenSpec => []ListenTypeOK
<1>1. ListenIInv => ListenTypeOK
  BY DEF ListenIInv
<1>2. QED
  BY <1>1, ListenInvariance, PTL

\* No payload the tracker released is lost or doubled between the socket and
\* the caller of recv() and read_raw(), and EOFError comes after the last one.
THEOREM EverySliceReachesCaller == ListenSpec => []ReceivedReachesCaller
<1>1. ListenIInv => ReceivedReachesCaller
  BY DEF ListenIInv, ReceivedReachesCaller, SlicesAddUp, EndIsLast, FlushedAtEnd
<1>2. QED
  BY <1>1, ListenInvariance, PTL

\* The tracker keeps its promises inside the transport: what every run of
\* Dge1Tracker shows of it holds of the one read() owns.
THEOREM TrackerHoldsInTransport ==
    ListenSpec => [](Conservation /\ BufferBounded /\ SeenInStep)
<1>1. ListenIInv => Conservation /\ BufferBounded /\ SeenInStep
  BY DEF ListenIInv, IInv
<1>2. QED
  BY <1>1, ListenInvariance, PTL

=============================================================================
