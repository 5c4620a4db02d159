-------------------------- MODULE FrameStream_proofs --------------------------
(***************************************************************************)
(* Proofs about FrameStream, for every set of streams, chunk sizes and     *)
(* wanted codes: that the filter counts each frame once, and on streams of *)
(* valid framing peeks exactly and yields the wanted frames in order.      *)
(***************************************************************************)
EXTENDS FrameStream, Selections_proofs

-----------------------------------------------------------------------------
(* The wanted of some frames.                                              *)

LEMMA WantedFinite ==
    ASSUME NEW T, NEW s \in Seq(T)
    PROVE  /\ {k \in DOMAIN s : Wanted(s[k])} \in SUBSET Int
           /\ IsFiniteSet({k \in DOMAIN s : Wanted(s[k])})
<1>1. Len(s) \in Nat /\ DOMAIN s = 1 .. Len(s)
  BY LenProperties
<1>2. IsFiniteSet(1 .. Len(s))
  BY <1>1, FS_Interval
<1>3. {k \in DOMAIN s : Wanted(s[k])} \in SUBSET (1 .. Len(s))
  BY <1>1
<1>4. QED
  BY <1>2, <1>3, FS_Subset

LEMMA WantedJoin ==
    ASSUME NEW T, NEW s \in Seq(T), NEW t \in Seq(T)
    PROVE  WantedOf(s \o t) = WantedOf(s) \o WantedOf(t)
<1> DEFINE u == s \o t
           A == {k \in DOMAIN s : Wanted(s[k])}
           B == {k \in DOMAIN t : Wanted(t[k])}
           C == {Len(s) + k : k \in B}
           W(x) == Wanted(x)
<1>1. /\ Len(s) \in Nat /\ DOMAIN s = 1 .. Len(s) /\ Len(t) \in Nat /\ DOMAIN t = 1 .. Len(t)
      /\ u \in Seq(T) /\ Len(u) = Len(s) + Len(t) /\ DOMAIN u = 1 .. Len(s) + Len(t)
      /\ \A i \in 1 .. Len(s) + Len(t) : u[i] = IF i <= Len(s) THEN s[i] ELSE t[i - Len(s)]
      /\ \A i \in 1 .. Len(s) : s[i] \in T
      /\ \A i \in 1 .. Len(t) : t[i] \in T
  BY LenProperties, ConcatProperties, ElementOfSeq
<1>2. /\ A \in SUBSET Int /\ IsFiniteSet(A)
      /\ B \in SUBSET Int /\ IsFiniteSet(B)
  BY WantedFinite
<1> DEFINE m == Len(s)
           n == Len(t)
<1>3. m \in Nat /\ n \in Nat
  BY <1>1
<1> HIDE DEF m, n
<1>4. /\ \A i \in 1 .. m : i \in 1 .. m + n /\ i <= m
      /\ \A i \in 1 .. n : m + i \in 1 .. m + n /\ ~(m + i <= m) /\ (m + i) - m = i
      /\ \A i \in 1 .. m + n : i \in 1 .. m \/ (i - m \in 1 .. n /\ m + (i - m) = i)
  BY <1>3
<1>5. /\ \A i \in 1 .. m : u[i] = s[i] /\ s[i] \in T
      /\ \A i \in 1 .. n : u[m + i] = t[i] /\ t[i] \in T
  BY <1>1, <1>4 DEF m, n
<1> HIDE DEF W
<1>6. {k \in DOMAIN u : Wanted(u[k])} = A \cup C
  <2>1. A = {k \in 1 .. m : W(s[k])}
    BY <1>1 DEF W, m
  <2>2. B = {k \in 1 .. n : W(t[k])} /\ C = {m + k : k \in B}
    BY <1>1 DEF W, n, m
  <2>3. {k \in DOMAIN u : Wanted(u[k])} = {k \in 1 .. m + n : W(u[k])}
    BY <1>1 DEF W, m, n
  <2> HIDE DEF A, B, C, u
  <2>4. ASSUME NEW k \in 1 .. m + n, W(u[k])
        PROVE  k \in A \cup C
    <3>1. CASE k \in 1 .. m
      BY <1>5, <2>1, <2>4, <3>1
    <3>2. CASE k \notin 1 .. m
      <4>1. k - m \in 1 .. n /\ m + (k - m) = k
        BY <1>4, <3>2
      <4>2. u[k] = t[k - m]
        BY <1>5, <4>1
      <4>3. k - m \in B
        BY <2>2, <2>4, <4>1, <4>2
      <4>4. QED
        BY <2>2, <4>1, <4>3
    <3>3. QED
      BY <3>1, <3>2
  <2>5. \A k \in A : k \in 1 .. m + n /\ W(u[k])
    BY <1>4, <1>5, <2>1
  <2>6. \A k \in C : k \in 1 .. m + n /\ W(u[k])
    BY <1>4, <1>5, <2>2
  <2>7. QED
    BY <2>3, <2>4, <2>5, <2>6
<1>7. /\ \A i \in A : i \in 1 .. m /\ u[i] = s[i] /\ u[i] \in T
      /\ \A i \in B : i \in 1 .. n /\ u[m + i] = t[i] /\ t[i] \in T
  BY <1>1, <1>5 DEF m, n
<1>8. Picked(u, C) = Picked(t, B) /\ IsFiniteSet(C)
  <2> HIDE DEF B, u
  <2>1. m \in Int
    BY <1>3
  <2>2. \A i \in B : u[m + i] = t[i]
    BY <1>7
  <2>3. Picked(u, Moved(m, B)) = Picked(t, B) /\ IsFiniteSet(Moved(m, B))
    BY <1>2, <2>1, <2>2, PickedShift
  <2>4. C = Moved(m, B)
    BY DEF m, Moved
  <2>5. QED
    BY <2>3, <2>4
<1>9. Picked(u, A) = Picked(s, A)
  <2> HIDE DEF A, u
  <2>1. QED
    BY <1>2, <1>7, PickedSame
<1>10. Picked(u, A \cup C) = Picked(u, A) \o Picked(u, C)
  <2>1. C = {m + k : k \in B}
    BY DEF m
  <2> HIDE DEF A, B, C, u
  <2>2. C \in SUBSET Int
    BY <1>2, <1>3, <2>1
  <2>3. \A a \in A, c \in C : a < c
    <3>1. ASSUME NEW a \in A, NEW c \in C PROVE a < c
      <4>1. PICK k \in B : c = m + k
        BY <2>1
      <4>2. a \in 1 .. m /\ k \in 1 .. n
        BY <1>7
      <4>3. QED
        BY <1>3, <4>1, <4>2
    <3>2. QED
      BY <3>1
  <2>5. QED
    BY <1>2, <1>8, <2>2, <2>3, PickedJoin
<1>11. WantedOf(u) = Picked(u, A \cup C) /\ WantedOf(s) = Picked(s, A) /\ WantedOf(t) = Picked(t, B)
  BY <1>6 DEF WantedOf
<1>12. QED
  BY <1>8, <1>9, <1>10, <1>11

LEMMA WantedType ==
    ASSUME NEW T, NEW s \in Seq(T)
    PROVE  WantedOf(s) \in Seq(T)
<1> DEFINE A == {k \in DOMAIN s : Wanted(s[k])}
<1>1. A \in SUBSET Int /\ IsFiniteSet(A)
  BY WantedFinite
<1>2. \A i \in A : s[i] \in T
  BY ElementOfSeq, LenProperties
<1>3. WantedOf(s) = Picked(s, A)
  BY DEF WantedOf
<1> HIDE DEF A
<1>4. QED
  BY <1>1, <1>2, <1>3, PickedType

LEMMA WantedOfOne == \A f : WantedOf(<<f>>) = IF Wanted(f) THEN <<f>> ELSE <<>>
<1>1. ASSUME NEW f
      PROVE  WantedOf(<<f>>) = IF Wanted(f) THEN <<f>> ELSE <<>>
  <2> DEFINE A == {k \in DOMAIN <<f>> : Wanted(<<f>>[k])}
             W == Wanted(f)
  <2>1. DOMAIN <<f>> = {1} /\ <<f>>[1] = f
    OBVIOUS
  <2>2. A = IF W THEN {1} ELSE {}
    BY <2>1
  <2>3. WantedOf(<<f>>) = Picked(<<f>>, A)
    BY DEF WantedOf
  <2> HIDE DEF A, W
  <2>4. Picked(<<f>>, {1}) = <<f>> /\ Picked(<<f>>, {}) = <<>>
    <3>1. Picked(<<f>>, {1}) = <<<<f>>[1]>>
      BY OnePicked, 1 \in Int
    <3>2. QED
      BY <2>1, <3>1, NothingPicked
  <2>5. QED
    BY <2>2, <2>3, <2>4 DEF W
<1>2. QED
  BY <1>1

LEMMA WantedOfNone == WantedOf(<<>>) = <<>>
<1>1. {k \in DOMAIN <<>> : Wanted(<<>>[k])} = {}
  OBVIOUS
<1>2. QED
  BY <1>1, NothingPicked DEF WantedOf

-----------------------------------------------------------------------------
(* Escaping.                                                               *)

\* The pairs of a frame, what each of its bytes means, and the bytes that stay.
PairsOf(esc) == {i \in 1 .. Len(esc) - 1 : esc[i] = Esc /\ esc[i + 1] \in {EscFlag, EscEsc}}
Meaning(esc) ==
    [i \in DOMAIN esc |-> IF i \in PairsOf(esc)
                            THEN IF esc[i + 1] = EscFlag THEN Flag ELSE Esc
                            ELSE esc[i]]
KeptOf(esc) == {i \in DOMAIN esc : i - 1 \notin PairsOf(esc)}

OnePass(esc) == Picked(Meaning(esc), KeptOf(esc))

\* A frame between two flags of a stream of which every Esc begins a pair.
GoodFrame(f) ==
    /\ f \in Seq(ToSet(f)) /\ f # <<>>
    /\ \A i \in 1 .. Len(f) : f[i] # Flag
    /\ \A i \in 1 .. Len(f) - 1 : f[i] = Esc => f[i + 1] \in {EscFlag, EscEsc}

LEMMA Bytes == Flag # Esc /\ EscFlag # EscEsc /\ Flag # EscFlag /\ Flag # EscEsc
                 /\ Esc # EscFlag /\ Esc # EscEsc
  BY FilterAssumption DEF FilterAssumption

\* Looked at as a whole: no Esc is the second of a pair.
LEMMA UnescapedIs ==
    ASSUME NEW esc, GoodFrame(esc)
    PROVE  Unescaped(esc) = OnePass(esc)
<1> DEFINE n == Len(esc)
           step(g) == [i \in 0 .. n |-> i > 0 /\ esc[i] = Esc /\ ~g[i - 1]]
           opens == CHOOSE g : g = step(g)
           w == [i \in 0 .. n |-> i > 0 /\ esc[i] = Esc]
<1>1. n \in Nat /\ DOMAIN esc = 1 .. n
  BY LenProperties DEF GoodFrame
<1> HIDE DEF n
<1>2. \A i \in 1 .. n - 1 : esc[i] = Esc => esc[i + 1] \in {EscFlag, EscEsc}
  BY DEF GoodFrame, n
<1>3. w = step(w)
  <2>1. ASSUME NEW i \in 0 .. n
        PROVE  (i > 0 /\ esc[i] = Esc) <=> (i > 0 /\ esc[i] = Esc /\ ~w[i - 1])
    <3>1. CASE i > 1 /\ esc[i] = Esc
      <4>1. i - 1 \in 1 .. n - 1 /\ (i - 1) + 1 = i /\ i - 1 \in 0 .. n /\ i - 1 > 0
        BY <1>1, <3>1
      <4>2. esc[i - 1] # Esc
        BY <1>2, <3>1, <4>1, Bytes
      <4>3. w[i - 1] = (i - 1 > 0 /\ esc[i - 1] = Esc)
        BY <4>1
      <4>4. ~w[i - 1]
        BY <4>2, <4>3
      <4>5. QED
        BY <3>1, <4>4
    <3>2. CASE i = 1
      <4>1. i - 1 = 0 /\ 0 \in 0 .. n /\ ~(0 > 0)
        BY <1>1, <3>2
      <4>2. w[0] = (0 > 0 /\ esc[0] = Esc)
        BY <4>1
      <4>3. ~w[i - 1]
        BY <4>1, <4>2
      <4>4. QED
        BY <4>3
    <3>3. CASE i = 0 \/ esc[i] # Esc
      BY <3>3
    <3>4. QED
      BY <1>1, <3>1, <3>2, <3>3
  <2>2. QED
    BY <2>1
<1>4. opens = step(opens)
  <2> HIDE DEF w, step
  <2>1. QED
    BY <1>3
<1>5. \A i \in 1 .. n : opens[i] <=> esc[i] = Esc
  <2>1. \A i \in 0 .. n : opens[i] = (i > 0 /\ esc[i] = Esc /\ ~opens[i - 1])
    <3> HIDE DEF opens
    <3>1. QED
      BY <1>4
  <2> HIDE DEF opens
  <2> DEFINE T == {i \in 1 .. n : ~(opens[i] <=> esc[i] = Esc)}
  <2>2. ASSUME T # {}
        PROVE  FALSE
    <3>1. PICK i \in T : \A j \in T : i <= j
      <4>1. T \subseteq Nat
        OBVIOUS
      <4> HIDE DEF T
      <4>2. QED
        BY <2>2, <4>1, LeastNatural
    <3>2. i \in 1 .. n /\ i \in 0 .. n /\ i > 0 /\ ~(opens[i] <=> esc[i] = Esc)
      BY <1>1
    <3>3. opens[i] = (esc[i] = Esc /\ ~opens[i - 1])
      BY <2>1, <3>2
    <3>4. esc[i] = Esc /\ opens[i - 1]
      BY <3>2, <3>3
    <3>5. CASE i = 1
      <4>1. i - 1 = 0 /\ 0 \in 0 .. n /\ ~(0 > 0)
        BY <1>1, <3>5
      <4>2. ~opens[0]
        BY <2>1, <4>1
      <4>3. QED
        BY <3>4, <4>1, <4>2
    <3>6. CASE i > 1
      <4>1. i - 1 \in 1 .. n /\ i - 1 \in 1 .. n - 1 /\ (i - 1) + 1 = i /\ ~(i <= i - 1)
        BY <1>1, <3>2, <3>6
      <4>2. i - 1 \notin T
        BY <3>1, <4>1
      <4>3. esc[i - 1] = Esc
        BY <3>4, <4>1, <4>2
      <4>4. QED
        BY <1>2, <3>4, <4>1, <4>3, Bytes
    <3>7. QED
      BY <3>2, <3>5, <3>6
  <2>3. QED
    BY <2>2
<1> DEFINE pairs == {i \in 1 .. Len(esc) - 1 : opens[i] /\ esc[i + 1] \in {EscFlag, EscEsc}}
           f == [i \in DOMAIN esc |->
                   IF i \in pairs THEN (IF esc[i + 1] = EscFlag THEN Flag ELSE Esc) ELSE esc[i]]
<1>6. Unescaped(esc) = Picked(f, {i \in DOMAIN esc : i - 1 \notin pairs})
  BY DEF Unescaped, n
<1> HIDE DEF opens
<1>7. pairs = PairsOf(esc)
  <2>1. \A i \in 1 .. n - 1 : i \in 1 .. n
    BY <1>1
  <2>2. QED
    BY <1>5, <2>1 DEF PairsOf, n
<1> HIDE DEF pairs
<1>8. f = Meaning(esc) /\ KeptOf(esc) = {i \in DOMAIN esc : i - 1 \notin pairs}
  BY <1>7 DEF Meaning, KeptOf
<1>9. QED
  BY <1>6, <1>8 DEF OnePass

\* Two replacements, one after the other, are one pass from the left.
LEMMA UnescapeIs ==
    ASSUME NEW T, NEW esc \in Seq(T)
    PROVE  Unescape(esc) = OnePass(esc)
<1> DEFINE n == Len(esc)
           P1 == {i \in 1 .. Len(esc) - 1 : esc[i] = Esc /\ esc[i + 1] = EscFlag}
           P2 == {i \in 1 .. Len(esc) - 1 : esc[i] = Esc /\ esc[i + 1] = EscEsc}
           I1 == {i \in DOMAIN esc : i - 1 \notin P1}
           f1 == [i \in DOMAIN esc |-> IF i \in P1 THEN Flag ELSE esc[i]]
           u  == Picked(f1, I1)
           S2 == {k \in 1 .. Len(u) - 1 : u[k] = Esc /\ u[k + 1] = EscEsc}
           f2 == [k \in DOMAIN u |-> IF k \in S2 THEN Esc ELSE u[k]]
           K2 == {k \in DOMAIN u : k - 1 \notin S2}
           g  == Meaning(esc)
           m  == Cardinality(I1)
           p(k) == Nth(I1, k)
<1>1. n \in Nat /\ DOMAIN esc = 1 .. n
  BY LenProperties
<1>2. I1 \in SUBSET Int /\ IsFiniteSet(I1)
  <2>1. I1 \in SUBSET (1 .. n)
    BY <1>1
  <2>2. IsFiniteSet(1 .. n)
    BY <1>1, FS_Interval
  <2>3. I1 \in SUBSET Int
    BY <2>1
  <2> HIDE DEF I1, n
  <2>4. IsFiniteSet(I1)
    BY <2>1, <2>2, FS_Subset
  <2>5. QED
    BY <2>3, <2>4
<1>3. Unescape(esc) = Picked(f2, K2)
  BY DEF Unescape, Replace
<1>4. /\ m \in Nat /\ Len(u) = m /\ DOMAIN u = 1 .. m
      /\ \A k \in 1 .. m : p(k) \in I1 /\ p(k) \in Int /\ u[k] = f1[p(k)]
      /\ \A x \in I1 : \E k \in 1 .. m : p(k) = x
      /\ \A k \in 1 .. m : p(k) + 1 \in I1 => k + 1 \in 1 .. m /\ p(k + 1) = p(k) + 1
      /\ \A i, j \in 1 .. m : i < j => p(i) < p(j)
  <2>1. \A i \in I1 : f1[i] \in {f1[j] : j \in I1}
    OBVIOUS
  <2> HIDE DEF f1, I1
  <2>2. /\ u \in Seq({f1[j] : j \in I1}) /\ Len(u) = m
        /\ \A k \in 1 .. m : p(k) \in I1 /\ u[k] = f1[p(k)]
    BY <1>2, <2>1, PickedType
  <2>3. DOMAIN u = 1 .. m
    <3> HIDE DEF u, m
    <3>1. QED
      BY <2>2, LenProperties
  <2>4. QED
    BY <1>2, <2>2, <2>3, PlacesInOrder, NextPlace
<1>5. /\ \A i : i \in P1 <=> i \in 1 .. n - 1 /\ esc[i] = Esc /\ esc[i + 1] = EscFlag
      /\ \A i : i \in P2 <=> i \in 1 .. n - 1 /\ esc[i] = Esc /\ esc[i + 1] = EscEsc
      /\ \A i : i \in I1 <=> i \in 1 .. n /\ i - 1 \notin P1
      /\ \A i \in 1 .. n : f1[i] = IF i \in P1 THEN Flag ELSE esc[i]
      /\ \A k : k \in S2 <=> k \in 1 .. m - 1 /\ u[k] = Esc /\ u[k + 1] = EscEsc
      /\ \A k \in 1 .. m : f2[k] = IF k \in S2 THEN Esc ELSE u[k]
      /\ \A k : k \in K2 <=> k \in 1 .. m /\ k - 1 \notin S2
  <2> HIDE DEF u, m
  <2>1. QED
    BY <1>1, <1>4
<1>6. /\ \A i : i \in PairsOf(esc) <=> i \in P1 \/ i \in P2
      /\ \A i \in 1 .. n : g[i] = IF i \in P1 THEN Flag ELSE IF i \in P2 THEN Esc ELSE esc[i]
      /\ \A i : i \in KeptOf(esc) <=> i \in 1 .. n /\ i - 1 \notin P1 /\ i - 1 \notin P2
  BY <1>1, Bytes DEF PairsOf, Meaning, KeptOf
<1> HIDE DEF P1, P2, I1, f1, u, S2, f2, K2, g, n, m, p
<1>7. ASSUME NEW k \in 1 .. m
      PROVE  k \in S2 <=> p(k) \in P2
  <2>1. p(k) \in 1 .. n /\ p(k) - 1 \notin P1 /\ p(k) \in Int /\ u[k] = f1[p(k)] /\ p(k) \in I1
    BY <1>4, <1>5
  <2>2. ASSUME k \in S2
        PROVE  p(k) \in P2
    <3>1. k + 1 \in 1 .. m /\ u[k] = Esc /\ u[k + 1] = EscEsc
      <4>1. k \in 1 .. m - 1 /\ u[k] = Esc /\ u[k + 1] = EscEsc
        BY <1>5, <2>2
      <4>2. m \in Nat
        BY <1>4
      <4>3. QED
        BY <4>1, <4>2
    <3>2. p(k) \notin P1 /\ esc[p(k)] = Esc
      BY <1>5, <2>1, <3>1, Bytes
    <3>3. p(k + 1) \in 1 .. n /\ u[k + 1] = f1[p(k + 1)]
      BY <1>4, <1>5, <3>1
    <3>4. p(k) < p(k + 1) /\ p(k + 1) \in Int
      <4>1. k < k + 1
        OBVIOUS
      <4>2. QED
        BY <1>4, <3>1, <4>1
    <3>5. p(k) + 1 \in 1 .. n /\ (p(k) + 1) - 1 = p(k)
      BY <1>1, <2>1, <3>3, <3>4
    <3>6. p(k) + 1 \in I1
      BY <1>5, <3>2, <3>5
    <3>7. p(k + 1) = p(k) + 1
      BY <1>4, <3>6
    <3>8. esc[p(k) + 1] = EscEsc
      BY <1>5, <3>1, <3>3, <3>7, Bytes
    <3>9. p(k) \in 1 .. n - 1
      BY <1>1, <2>1, <3>5
    <3>10. QED
      BY <1>5, <3>2, <3>8, <3>9
  <2>3. ASSUME p(k) \in P2
        PROVE  k \in S2
    <3>1. p(k) \in 1 .. n - 1 /\ esc[p(k)] = Esc /\ esc[p(k) + 1] = EscEsc
      BY <1>5, <2>3
    <3>2. p(k) \notin P1 /\ p(k) + 1 \notin P1
      BY <1>5, <3>1, Bytes
    <3>3. p(k) + 1 \in 1 .. n /\ (p(k) + 1) - 1 = p(k)
      BY <1>1, <3>1
    <3>4. p(k) + 1 \in I1
      BY <1>5, <3>2, <3>3
    <3>5. k + 1 \in 1 .. m /\ p(k + 1) = p(k) + 1
      BY <1>4, <3>4
    <3>6. u[k] = Esc /\ u[k + 1] = EscEsc
      <4>1. u[k] = esc[p(k)]
        <5>1. f1[p(k)] = IF p(k) \in P1 THEN Flag ELSE esc[p(k)]
          BY <1>5, <2>1
        <5>2. QED
          BY <2>1, <3>2, <5>1
      <4>2. u[k + 1] = esc[p(k) + 1]
        <5>1. u[k + 1] = f1[p(k + 1)]
          BY <1>4, <3>5
        <5>2. f1[p(k) + 1] = IF p(k) + 1 \in P1 THEN Flag ELSE esc[p(k) + 1]
          BY <1>5, <3>3
        <5>3. QED
          BY <3>2, <3>5, <5>1, <5>2
      <4>3. QED
        BY <3>1, <4>1, <4>2
    <3>7. k \in 1 .. m - 1
      BY <1>4, <3>5
    <3>8. QED
      BY <1>5, <3>6, <3>7
  <2>4. QED
    BY <2>2, <2>3
<1>8. \A k \in 1 .. m : f2[k] = g[p(k)]
  <2>1. ASSUME NEW k \in 1 .. m
        PROVE  f2[k] = g[p(k)]
    <3>1. p(k) \in 1 .. n /\ u[k] = f1[p(k)]
      BY <1>4, <1>5
    <3>2. g[p(k)] = IF p(k) \in P1 THEN Flag ELSE IF p(k) \in P2 THEN Esc ELSE esc[p(k)]
      BY <1>6, <3>1
    <3>3. f1[p(k)] = IF p(k) \in P1 THEN Flag ELSE esc[p(k)]
      BY <1>5, <3>1
    <3>4. p(k) \in P2 => p(k) \notin P1
      BY <1>5, Bytes
    <3>5. f2[k] = IF k \in S2 THEN Esc ELSE u[k]
      BY <1>5
    <3>6. QED
      BY <1>7, <3>1, <3>2, <3>3, <3>4, <3>5
  <2>2. QED
    BY <2>1
<1>9. KeptOf(esc) = {p(k) : k \in K2}
  <2>1. ASSUME NEW k \in K2
        PROVE  p(k) \in KeptOf(esc)
    <3>1. k \in 1 .. m /\ k - 1 \notin S2 /\ p(k) \in 1 .. n /\ p(k) - 1 \notin P1 /\ p(k) \in Int
      BY <1>4, <1>5
    <3>2. ASSUME p(k) - 1 \in P2 PROVE FALSE
      <4>1. p(k) - 1 \in 1 .. n - 1 /\ esc[p(k) - 1] = Esc
        BY <1>5, <3>2
      <4>2. (p(k) - 1) - 1 \notin P1
        <5>1. ((p(k) - 1) - 1) + 1 = p(k) - 1
          BY <4>1
        <5>2. QED
          BY <1>5, <4>1, <5>1, Bytes
      <4>3. p(k) - 1 \in I1
        BY <1>1, <1>5, <4>1, <4>2
      <4>4. PICK j \in 1 .. m : p(j) = p(k) - 1
        BY <1>4, <4>3
      <4>5. p(j) + 1 = p(k)
        BY <3>1, <4>4
      <4>6. j + 1 \in 1 .. m /\ p(j + 1) = p(k)
        <5>1. p(j) + 1 \in I1
          BY <1>4, <3>1, <4>5
        <5>2. QED
          BY <1>4, <4>5, <5>1
      <4>7. j + 1 = k
        <5>1. ASSUME j + 1 < k PROVE FALSE
          <6>1. p(j + 1) < p(k)
            BY <1>4, <3>1, <4>6, <5>1
          <6>2. QED
            BY <3>1, <4>6, <6>1
        <5>2. ASSUME k < j + 1 PROVE FALSE
          <6>1. p(k) < p(j + 1)
            BY <1>4, <3>1, <4>6, <5>2
          <6>2. QED
            BY <3>1, <4>6, <6>1
        <5>3. QED
          BY <1>4, <3>1, <4>6, <5>1, <5>2
      <4>8. k - 1 = j
        BY <4>7
      <4>9. QED
        BY <1>7, <3>1, <3>2, <4>4, <4>8
    <3>3. QED
      BY <1>6, <3>1, <3>2
  <2>2. ASSUME NEW i \in KeptOf(esc)
        PROVE  \E k \in K2 : p(k) = i
    <3>1. i \in I1 /\ i \in 1 .. n /\ i - 1 \notin P2
      BY <1>5, <1>6
    <3>2. PICK k \in 1 .. m : p(k) = i
      BY <1>4, <3>1
    <3>3. ASSUME k - 1 \in S2 PROVE FALSE
      <4>1. k - 1 \in 1 .. m /\ k - 1 \in 1 .. m - 1 /\ (k - 1) + 1 = k
        BY <1>4, <1>5, <3>3
      <4>2. p(k - 1) \in P2
        BY <1>7, <3>3, <4>1
      <4>3. p(k - 1) + 1 \in I1
        <5>1. p(k - 1) \in 1 .. n - 1 /\ esc[p(k - 1)] = Esc /\ esc[p(k - 1) + 1] = EscEsc
          BY <1>5, <4>2
        <5>2. p(k - 1) + 1 \in 1 .. n /\ (p(k - 1) + 1) - 1 = p(k - 1)
          BY <1>1, <5>1
        <5>3. p(k - 1) \notin P1
          BY <1>5, <5>1, Bytes
        <5>4. QED
          BY <1>5, <5>2, <5>3
      <4>4. p(k) = p(k - 1) + 1 /\ p(k - 1) \in Int
        BY <1>4, <4>1, <4>3
      <4>5. i - 1 = p(k - 1)
        BY <3>2, <4>4
      <4>6. QED
        BY <3>1, <4>2, <4>5
    <3>4. QED
      BY <1>5, <3>2, <3>3
  <2>3. QED
    BY <2>1, <2>2
<1>10. Picked(f2, K2) = Picked(Picked(g, I1), K2)
  <2>1. K2 \in SUBSET (1 .. m)
    BY <1>5
  <2>2. IsFiniteSet(1 .. m)
    BY <1>4, FS_Interval
  <2>3. K2 \in SUBSET Int /\ IsFiniteSet(K2)
    <3>1. IsFiniteSet(K2)
      BY <2>1, <2>2, FS_Subset
    <3>2. QED
      BY <2>1, <3>1
  <2>4. \A k \in 1 .. m : Picked(g, I1)[k] = g[p(k)]
    BY DEF Picked, p, m
  <2>5. \A k \in K2 : f2[k] = Picked(g, I1)[k]
    BY <1>8, <2>1, <2>4
  <2>6. QED
    BY <2>3, <2>5, PickedSame
<1>11. Picked(Picked(g, I1), K2) = Picked(g, {p(k) : k \in K2})
  <2>1. K2 \in SUBSET (1 .. Cardinality(I1))
    BY <1>5 DEF m
  <2>2. Picked(Picked(g, I1), K2) = Picked(g, {Nth(I1, k) : k \in K2})
    BY <1>2, <2>1, PickedTwice
  <2>3. QED
    BY <2>2 DEF p
<1>12. Unescape(esc) = Picked(g, KeptOf(esc))
  BY <1>3, <1>9, <1>10, <1>11
<1>13. QED
  BY <1>12 DEF OnePass, g

\* How many bytes peek() reads of an unescaped frame.
PeekBytes == WrapOff + CodeOff + 1

LEMMA Offsets ==
    /\ CodeOff \in Nat /\ CodeOff >= 1 /\ WrapOff \in Nat /\ WrapOff >= 1
    /\ Trailer \in Nat /\ Trailer >= 1
    /\ PeekBytes \in Nat /\ PeekBytes >= 3 /\ PeekWindow \in Nat /\ PeekWindow >= 2 * PeekBytes
  BY FilterAssumption DEF FilterAssumption, PeekBytes

\* Of two bytes in a row one stays: 2 n - 1 bytes hold at least n.
LEMMA EnoughStay ==
    ASSUME NEW T, NEW esc \in Seq(T), NEW n \in Nat, n >= 1, 2 * n - 1 <= Len(esc)
    PROVE  n <= Cardinality(KeptOf(esc) \cap (1 .. 2 * n - 1))
<1> DEFINE K == KeptOf(esc)
           h == [k \in 1 .. n |-> IF 2 * k - 1 \in K THEN 2 * k - 1 ELSE 2 * k - 2]
           L == Len(esc)
           J == K \cap (1 .. 2 * n - 1)
<1>1. L \in Nat /\ DOMAIN esc = 1 .. L
  BY LenProperties
<1> HIDE DEF L
<1>2. \A i : i \in K <=> i \in 1 .. L /\ i - 1 \notin PairsOf(esc)
  BY <1>1 DEF KeptOf
<1>3. \A i : i \in PairsOf(esc) =>
         i \in 1 .. L - 1 /\ esc[i] = Esc /\ (esc[i + 1] = EscFlag \/ esc[i + 1] = EscEsc)
  BY DEF PairsOf, L
<1> HIDE DEF K
<1>4. ASSUME NEW k \in 1 .. n
      PROVE  (2 * k - 1 \in K \/ 2 * k - 2 \in K)
  <2>1. 2 * k - 1 \in 1 .. L
    <3>1. 2 * n - 1 <= L
      BY DEF L
    <3>2. QED
      BY <1>1, <3>1
  <2>2. ASSUME 2 * k - 1 \notin K
        PROVE  2 * k - 2 \in K
    <3>1. (2 * k - 1) - 1 \in PairsOf(esc) /\ (2 * k - 1) - 1 = 2 * k - 2
      BY <1>2, <2>1, <2>2
    <3>2. 2 * k - 2 \in 1 .. L - 1 /\ esc[2 * k - 2] = Esc
      BY <1>3, <3>1
    <3>3. ASSUME (2 * k - 2) - 1 \in PairsOf(esc) PROVE FALSE
      <4>1. ((2 * k - 2) - 1) + 1 = 2 * k - 2
        BY <3>2
      <4>2. esc[2 * k - 2] = EscFlag \/ esc[2 * k - 2] = EscEsc
        BY <1>3, <3>3, <4>1
      <4>3. QED
        BY <3>2, <4>2, Bytes
    <3>4. 2 * k - 2 \in 1 .. L
      BY <1>1, <3>2
    <3>5. QED
      BY <1>2, <3>3, <3>4
  <2>3. QED
    BY <2>2
<1>5. \A k \in 1 .. n : h[k] \in K /\ h[k] \in Int /\ h[k] <= 2 * k - 1 /\ h[k] >= 2 * k - 2
  BY <1>4
<1>6. \A k \in 1 .. n : h[k] \in J
  <2>1. ASSUME NEW k \in 1 .. n PROVE h[k] \in 1 .. 2 * n - 1
    <3>1. h[k] \in K /\ h[k] \in Int /\ h[k] <= 2 * k - 1
      BY <1>5
    <3> HIDE DEF h
    <3>2. h[k] \in 1 .. L
      BY <1>2, <3>1
    <3>3. QED
      BY <3>1, <3>2
  <2>2. QED
    BY <1>5, <2>1
<1> HIDE DEF h
<1>7. Rises(h, n)
  <2>1. h \in [1 .. n -> Int]
    BY <1>5 DEF h
  <2>2. ASSUME NEW i \in 1 .. n, NEW j \in 1 .. n, i < j
        PROVE  h[i] < h[j]
    <3>1. h[i] \in Int /\ h[j] \in Int /\ h[i] <= 2 * i - 1 /\ h[j] >= 2 * j - 2
      BY <1>5
    <3>2. ASSUME h[i] >= h[j] PROVE FALSE
      <4>1. h[i] = 2 * i - 1 \/ h[i] < 2 * i - 1
        BY <3>1
      <4>2. 2 * i - 1 >= 2 * j - 2
        BY <3>1, <3>2
      <4>3. 2 * i <= 2 * j - 2
        BY <2>2
      <4>4. QED
        BY <4>2, <4>3
    <3>3. QED
      BY <3>1, <3>2
  <2>3. QED
    BY <2>1, <2>2 DEF Rises
<1>8. Listed(h, n) \in SUBSET J
  BY <1>6 DEF Listed
<1>9. IsFiniteSet(J)
  <2>1. IsFiniteSet(1 .. 2 * n - 1)
    BY FS_Interval, 2 * n - 1 \in Int, 1 \in Int
  <2>2. J \in SUBSET (1 .. 2 * n - 1)
    OBVIOUS
  <2> HIDE DEF J
  <2>3. QED
    BY <2>1, <2>2, FS_Subset
<1>10. Cardinality(Listed(h, n)) = n
  BY <1>7, ListedIs
<1> HIDE DEF J
<1>11. n <= Cardinality(J)
  BY <1>8, <1>9, <1>10, FS_Subset
<1>12. QED
  BY <1>11 DEF J, K

\* The bytes that peek() reads decide it.
LEMMA PeekReads ==
    ASSUME NEW T, NEW a \in Seq(T), NEW b \in Seq(T),
           PeekBytes <= Len(a), PeekBytes <= Len(b), \A i \in 1 .. PeekBytes : a[i] = b[i]
    PROVE  PeekAt(a) = PeekAt(b)
<1>1. Len(a) \in Nat /\ Len(b) \in Nat
  BY LenProperties
<1>2. /\ At(a, 0) = At(b, 0) /\ At(a, WrapOff) = At(b, WrapOff)
      /\ At(a, 0 + CodeOff) = At(b, 0 + CodeOff)
      /\ At(a, WrapOff + CodeOff) = At(b, WrapOff + CodeOff)
  <2>1. /\ 0 + 1 \in 1 .. PeekBytes /\ WrapOff + 1 \in 1 .. PeekBytes
        /\ (0 + CodeOff) + 1 \in 1 .. PeekBytes /\ (WrapOff + CodeOff) + 1 \in 1 .. PeekBytes
    BY Offsets DEF PeekBytes
  <2>2. QED
    BY <2>1 DEF At
<1>3. /\ ~(Len(a) <= WrapOff) /\ ~(Len(b) <= WrapOff)
      /\ ~(Len(a) <= 0 + CodeOff) /\ ~(Len(b) <= 0 + CodeOff)
      /\ ~(Len(a) <= WrapOff + CodeOff) /\ ~(Len(b) <= WrapOff + CodeOff)
  BY <1>1, Offsets DEF PeekBytes
<1>4. QED
  BY <1>2, <1>3 DEF PeekAt

LEMMA CutIs ==
    ASSUME NEW T, NEW s \in Seq(T), NEW n \in Nat
    PROVE  /\ n >= Len(s) => Cut(s, n) = s
           /\ n < Len(s) => /\ Cut(s, n) \in Seq(T) /\ Len(Cut(s, n)) = n
                            /\ \A i \in 1 .. n : Cut(s, n)[i] = s[i]
<1>1. Len(s) \in Nat
  BY LenProperties
<1>2. CASE n >= Len(s)
  <2>1. Cut(s, n) = SubSeq(s, 1, Len(s))
    BY <1>1, <1>2 DEF Cut
  <2>2. ~(n < Len(s))
    BY <1>1, <1>2
  <2>3. SubSeq(s, 1, Len(s)) = s
    BY SubSeqFull
  <2>4. QED
    BY <2>1, <2>2, <2>3
<1>3. CASE n < Len(s)
  <2>1. Cut(s, n) = SubSeq(s, 1, n)
    BY <1>3 DEF Cut
  <2>2. \A i \in 1 .. n : i \in 1 .. Len(s)
    BY <1>1, <1>3
  <2>3. SubSeq(s, 1, n) \in Seq(T)
    BY <2>2, SubSeqProperties, ElementOfSeq, 1 \in 1 .. n + 1, n \in 1 - 1 .. Len(s), <1>1, <1>3
  <2>4. Len(SubSeq(s, 1, n)) = n /\ \A i \in 1 .. n : SubSeq(s, 1, n)[i] = s[i]
    BY <1>1, <1>3, SubSeqProperties
  <2>5. ~(n >= Len(s))
    BY <1>1, <1>3
  <2>6. QED
    BY <2>1, <2>3, <2>4, <2>5
<1>4. QED
  BY <1>1, <1>2, <1>3

LEMMA KeptFinite ==
    ASSUME NEW T, NEW esc \in Seq(T)
    PROVE  KeptOf(esc) \in SUBSET Int /\ IsFiniteSet(KeptOf(esc))
<1>1. Len(esc) \in Nat /\ DOMAIN esc = 1 .. Len(esc)
  BY LenProperties
<1>2. KeptOf(esc) \in SUBSET (1 .. Len(esc))
  BY <1>1 DEF KeptOf
<1>3. IsFiniteSet(1 .. Len(esc))
  BY <1>1, FS_Interval
<1>4. IsFiniteSet(KeptOf(esc))
  BY <1>2, <1>3, FS_Subset
<1>5. KeptOf(esc) \in SUBSET Int
  BY <1>2
<1>6. QED
  BY <1>4, <1>5

\* What is unescaped is a sequence, of at least n bytes if 2 n - 1 go in, and the
\* first of them come from the first that go in.
LEMMA FirstUnescaped ==
    ASSUME NEW T, NEW esc \in Seq(T)
    PROVE  /\ OnePass(esc) \in Seq(T \cup {Flag, Esc})
           /\ \A n \in Nat \ {0} : 2 * n - 1 <= Len(esc) =>
                 /\ n <= Len(OnePass(esc))
                 /\ \A i \in 1 .. n : OnePass(esc)[i] =
                       Picked(Meaning(esc), KeptOf(esc) \cap (1 .. 2 * n - 1))[i]
<1> DEFINE V == T \cup {Flag, Esc}
           g == Meaning(esc)
           K == KeptOf(esc)
<1>1. K \in SUBSET Int /\ IsFiniteSet(K)
  BY KeptFinite
<1>2. \A i \in K : g[i] \in V
  <2>1. \A i \in DOMAIN esc : esc[i] \in T
    BY LenProperties, ElementOfSeq
  <2>2. \A i \in DOMAIN esc : g[i] = esc[i] \/ g[i] = Flag \/ g[i] = Esc
    BY DEF Meaning
  <2>3. \A i \in K : i \in DOMAIN esc
    BY DEF KeptOf
  <2>4. QED
    BY <2>1, <2>2, <2>3
<1> HIDE DEF g, K, V
<1>3. Picked(g, K) \in Seq(V)
  BY <1>1, <1>2, PickedType
<1>4. ASSUME NEW n \in Nat \ {0}, 2 * n - 1 <= Len(esc)
      PROVE  /\ n <= Len(Picked(g, K))
             /\ \A i \in 1 .. n : Picked(g, K)[i] = Picked(g, K \cap (1 .. 2 * n - 1))[i]
  <2> DEFINE A == K \cap (1 .. 2 * n - 1)
             B == {i \in K : i > 2 * n - 1}
             a == Picked(g, A)
             b == Picked(g, B)
  <2>0. n \in Nat /\ n >= 1 /\ 2 * n - 1 \in Int
    OBVIOUS
  <2>1. K = A \cup B
    <3>1. \A i \in K : i >= 1
      BY LenProperties DEF K, KeptOf
    <3>2. \A i \in Int : i >= 1 => i \in 1 .. 2 * n - 1 \/ i > 2 * n - 1
      BY <2>0
    <3>3. QED
      BY <1>1, <3>1, <3>2
  <2>2. /\ A \in SUBSET Int /\ IsFiniteSet(A) /\ B \in SUBSET Int /\ IsFiniteSet(B)
    <3>1. A \in SUBSET K /\ B \in SUBSET K
      OBVIOUS
    <3> HIDE DEF A, B
    <3>2. IsFiniteSet(A) /\ IsFiniteSet(B)
      BY <1>1, <3>1, FS_Subset
    <3>3. QED
      BY <1>1, <3>1, <3>2
  <2>3. \A x \in A, y \in B : x < y
    <3>1. 2 * n - 1 \in Int
      OBVIOUS
    <3>2. QED
      BY <1>1, <3>1
  <2>4. n <= Cardinality(A)
    BY <1>4, <2>0, EnoughStay DEF K
  <2>5. \A i \in A \cup B : g[i] \in V
    BY <1>2, <2>1
  <2> HIDE DEF A, B
  <2>6. Picked(g, K) = a \o b
    BY <2>1, <2>2, <2>3, PickedJoin
  <2>7. a \in Seq(V) /\ Len(a) = Cardinality(A) /\ Cardinality(A) \in Nat /\ b \in Seq(V)
    BY <2>2, <2>5, PickedType
  <2> HIDE DEF a, b
  <2>8. /\ Len(a \o b) = Len(a) + Len(b) /\ Len(b) \in Nat
        /\ \A i \in 1 .. Len(a) + Len(b) : i <= Len(a) => (a \o b)[i] = a[i]
    BY <2>7, ConcatProperties, LenProperties
  <2>9. n <= Len(a \o b)
    BY <2>4, <2>7, <2>8
  <2>10. \A i \in 1 .. n : i \in 1 .. Len(a) + Len(b) /\ i <= Len(a)
    BY <2>4, <2>7, <2>8
  <2>11. \A i \in 1 .. n : (a \o b)[i] = a[i]
    BY <2>8, <2>10
  <2>12. QED
    BY <2>6, <2>9, <2>11 DEF a, A
<1>5. OnePass(esc) = Picked(g, K)
  BY DEF OnePass, g, K
<1>6. QED
  BY <1>3, <1>4, <1>5 DEF g, K, V

\* "_PEEK_WINDOW ... always enough for every field peek reads".
LEMMA PeekExact ==
    ASSUME NEW esc, GoodFrame(esc)
    PROVE  Peek(esc) = PeekAt(Unescaped(esc))
<1> DEFINE T == ToSet(esc)
           w == PeekWindow
           c == Cut(esc, w)
           q == 2 * PeekBytes - 1
<1>1. esc \in Seq(T) /\ Len(esc) \in Nat /\ DOMAIN esc = 1 .. Len(esc)
  BY LenProperties DEF GoodFrame
<1>2. Unescaped(esc) = OnePass(esc)
  BY UnescapedIs
<1> HIDE DEF T
<1>3. CASE w >= Len(esc)
  <2>1. c = esc
    BY <1>1, <1>3, CutIs, Offsets
  <2>2. Unescape(esc) = OnePass(esc)
    BY <1>1, UnescapeIs
  <2>3. QED
    BY <1>2, <2>1, <2>2 DEF Peek, Head32
<1>4. CASE w < Len(esc)
  <2>1. c \in Seq(T) /\ Len(c) = w /\ \A i \in 1 .. w : c[i] = esc[i]
    BY <1>1, <1>4, CutIs, Offsets
  <2>2. DOMAIN c = 1 .. w
    BY <2>1, LenProperties
  <2> HIDE DEF c
  <2>3. w \in Nat /\ q \in Nat /\ q < w /\ q < Len(esc) /\ q <= w /\ q <= Len(esc)
    BY <1>1, <1>4, Offsets
  <2> HIDE DEF w, q
  <2>4. Unescape(c) = OnePass(c)
    BY <2>1, UnescapeIs
  <2>5. \A i \in 0 .. q : i \in PairsOf(c) <=> i \in PairsOf(esc)
    <3>1. ASSUME NEW i \in 0 .. q
          PROVE  i \in PairsOf(c) <=> i \in PairsOf(esc)
      <4>1. i \in 1 .. w - 1 <=> i \in 1 .. Len(esc) - 1
        BY <1>1, <2>3
      <4>2. ASSUME i \in 1 .. w - 1
            PROVE  c[i] = esc[i] /\ c[i + 1] = esc[i + 1]
        <5>1. i \in 1 .. w /\ i + 1 \in 1 .. w
          BY <2>3, <4>2
        <5>2. QED
          BY <2>1, <5>1
      <4>3. Len(c) - 1 = w - 1
        BY <2>1
      <4>4. i \in PairsOf(c) <=> i \in 1 .. w - 1 /\ c[i] = Esc /\ c[i + 1] \in {EscFlag, EscEsc}
        BY <4>3 DEF PairsOf
      <4>5. i \in PairsOf(esc) <=>
              i \in 1 .. Len(esc) - 1 /\ esc[i] = Esc /\ esc[i + 1] \in {EscFlag, EscEsc}
        BY DEF PairsOf
      <4>6. QED
        BY <4>1, <4>2, <4>4, <4>5
    <3>2. QED
      BY <3>1
  <2>6. KeptOf(c) \cap (1 .. q) = KeptOf(esc) \cap (1 .. q)
    <3>1. ASSUME NEW i \in 1 .. q PROVE i \in KeptOf(c) <=> i \in KeptOf(esc)
      <4>1. i \in 1 .. w /\ i \in 1 .. Len(esc) /\ i - 1 \in 0 .. q
        BY <1>1, <2>3
      <4>2. QED
        BY <1>1, <2>2, <2>5, <4>1 DEF KeptOf
    <3>2. QED
      BY <3>1
  <2>7. \A i \in 1 .. q : Meaning(c)[i] = Meaning(esc)[i]
    <3>1. ASSUME NEW i \in 1 .. q PROVE Meaning(c)[i] = Meaning(esc)[i]
      <4>1. /\ i \in 1 .. w /\ i + 1 \in 1 .. w /\ i \in 1 .. Len(esc) /\ i \in 0 .. q
        BY <1>1, <2>3
      <4>2. c[i] = esc[i] /\ c[i + 1] = esc[i + 1] /\ (i \in PairsOf(c) <=> i \in PairsOf(esc))
        BY <2>1, <2>5, <4>1
      <4>3. QED
        BY <1>1, <2>2, <4>1, <4>2 DEF Meaning
    <3>2. QED
      BY <3>1
  <2>8. Picked(Meaning(c), KeptOf(c) \cap (1 .. q)) = Picked(Meaning(esc), KeptOf(esc) \cap (1 .. q))
    <3> DEFINE I == KeptOf(esc) \cap (1 .. q)
    <3>1. I \in SUBSET KeptOf(esc) /\ KeptOf(esc) \in SUBSET Int /\ IsFiniteSet(KeptOf(esc))
      BY <1>1, KeptFinite
    <3>2. \A i \in I : Meaning(c)[i] = Meaning(esc)[i]
      BY <2>7
    <3>3. KeptOf(c) \cap (1 .. q) = I
      BY <2>6
    <3> HIDE DEF I
    <3>4. I \in SUBSET Int /\ IsFiniteSet(I)
      <4>1. IsFiniteSet(I)
        BY <3>1, FS_Subset
      <4>2. QED
        BY <3>1, <4>1
    <3>5. Picked(Meaning(c), I) = Picked(Meaning(esc), I)
      BY <3>2, <3>4, PickedSame
    <3>6. QED
      BY <3>3, <3>5 DEF I
  <2>9. PeekBytes \in Nat \ {0} /\ 2 * PeekBytes - 1 = q
    BY Offsets DEF q
  <2>10. /\ OnePass(c) \in Seq(T \cup {Flag, Esc}) /\ PeekBytes <= Len(OnePass(c))
         /\ \A i \in 1 .. PeekBytes :
               OnePass(c)[i] = Picked(Meaning(c), KeptOf(c) \cap (1 .. q))[i]
    BY <2>1, <2>3, <2>9, FirstUnescaped
  <2>11. /\ OnePass(esc) \in Seq(T \cup {Flag, Esc}) /\ PeekBytes <= Len(OnePass(esc))
         /\ \A i \in 1 .. PeekBytes :
               OnePass(esc)[i] = Picked(Meaning(esc), KeptOf(esc) \cap (1 .. q))[i]
    BY <1>1, <2>3, <2>9, FirstUnescaped
  <2>12. \A i \in 1 .. PeekBytes : OnePass(c)[i] = OnePass(esc)[i]
    BY <2>8, <2>10, <2>11
  <2>13. PeekAt(OnePass(c)) = PeekAt(OnePass(esc))
    BY <2>10, <2>11, <2>12, PeekReads
  <2>14. QED
    BY <1>2, <2>4, <2>13 DEF Peek, Head32, c, w
<1>5. QED
  BY <1>1, <1>3, <1>4, Offsets

\* The first byte of the frame tells the opcode, or that it is escaped.
LEMMA FirstByteIs ==
    ASSUME NEW esc, GoodFrame(esc)
    PROVE  \/ At(Unescaped(esc), 0) = esc[1] /\ esc[1] # Flag
           \/ esc[1] = Esc /\ At(Unescaped(esc), 0) \in {Flag, Esc}
<1> DEFINE K == KeptOf(esc)
<1>1. esc \in Seq(ToSet(esc)) /\ Len(esc) \in Nat /\ DOMAIN esc = 1 .. Len(esc) /\ esc # <<>>
  BY LenProperties DEF GoodFrame
<1>2. 1 \in 1 .. Len(esc)
  BY <1>1, EmptySeq
<1>3. esc[1] # Flag
  BY <1>2 DEF GoodFrame
<1>4. 1 \in K /\ \A i \in K : i >= 1
  BY <1>1, <1>2 DEF KeptOf, PairsOf
<1>5. K \in SUBSET Int /\ IsFiniteSet(K)
  BY <1>1, KeptFinite
<1> HIDE DEF K
<1>6. Cardinality(K) \in Nat /\ 1 \in 1 .. Cardinality(K) /\ Nth(K, 1) = 1
  <2> DEFINE n == Cardinality(K)
             p(k) == Nth(K, k)
  <2>1. /\ n \in Nat
        /\ \A k \in 1 .. n : p(k) \in K /\ p(k) \in Int
        /\ \A i, j \in 1 .. n : i < j => p(i) < p(j)
        /\ \A x \in K : \E k \in 1 .. n : p(k) = x
    BY <1>5, PlacesInOrder
  <2> HIDE DEF n, p
  <2>2. PICK k \in 1 .. n : p(k) = 1
    BY <1>4, <2>1
  <2>3. 1 \in 1 .. n
    BY <2>1
  <2>4. ASSUME 1 < k PROVE FALSE
    <3>1. p(1) < p(k) /\ p(1) \in K /\ p(1) \in Int
      BY <2>1, <2>3, <2>4
    <3>2. p(1) >= 1
      BY <1>4, <3>1
    <3>3. QED
      BY <2>2, <3>1, <3>2
  <2>5. k = 1
    BY <2>1, <2>4
  <2>6. QED
    BY <2>1, <2>2, <2>3, <2>5 DEF n, p
<1>7. At(Unescaped(esc), 0) = Meaning(esc)[1]
  <2>1. Unescaped(esc) = Picked(Meaning(esc), K)
    BY UnescapedIs DEF OnePass, K
  <2>2. Picked(Meaning(esc), K)[1] = Meaning(esc)[1]
    BY <1>6 DEF Picked
  <2>3. QED
    BY <2>1, <2>2 DEF At
<1>8. Meaning(esc)[1] = esc[1] \/ (esc[1] = Esc /\ Meaning(esc)[1] \in {Flag, Esc})
  BY <1>1, <1>2 DEF Meaning, PairsOf
<1>9. QED
  BY <1>3, <1>7, <1>8

\* What the filter keeps of the good frames is what is wanted.
LEMMA VerdictIs ==
    ASSUME NEW esc, GoodFrame(esc)
    PROVE  Verdict(esc) = "frames_matched" <=> Wanted(esc)
<1> DEFINE raw == Unescaped(esc)
           p == PeekAt(raw)
<1>1. esc \in Seq(ToSet(esc))
  BY DEF GoodFrame
<1>2. Peek(esc) = p /\ Unescape(esc) = raw
  BY <1>1, PeekExact, UnescapeIs, UnescapedIs
<1>3. Len(raw) \in Nat
  BY <1>1, UnescapedIs, FirstUnescaped, LenProperties
<1>4. ASSUME p # NoPeek, Matches(p)
      PROVE  esc[1] \in FirstBytes
  <2> DEFINE op == At(raw, 0)
             inner == IF op = Wrap THEN At(raw, WrapOff) ELSE op
  <2>1. \E x : p = [opcode |-> op, eff |-> inner, code |-> x]
    BY <1>4 DEF PeekAt
  <2>2. p.opcode = op /\ p.eff = inner
    <3> HIDE DEF p, op, inner
    <3>1. QED
      BY <2>1
  <2> HIDE DEF p
  <2>3. op \in Opcodes \/ (inner = Log /\ (EveryLog \/ LogCodes # {})) \/ inner \in Eff
    BY <1>4, <2>2 DEF Matches
  <2>4. op \in Candidates
    <3>1. inner = op \/ op = Wrap
      OBVIOUS
    <3> HIDE DEF op, inner
    <3>2. QED
      BY <2>3, <3>1 DEF Candidates
  <2>5. (op = esc[1] /\ esc[1] # Flag) \/ (esc[1] = Esc /\ op \in {Flag, Esc})
    BY FirstByteIs
  <2> HIDE DEF op
  <2>6. QED
    BY <2>4, <2>5 DEF FirstBytes
<1>5. Wanted(esc) <=> /\ p # NoPeek /\ Matches(p) /\ Len(raw) > Trailer
                      /\ VerifyCrc => CrcGood(raw)
  BY DEF Wanted
<1>6. Len(raw) < Trailer + 1 <=> ~(Len(raw) > Trailer)
  <2> HIDE DEF raw
  <2>1. QED
    BY <1>3, Offsets
<1> HIDE DEF p, raw
<1>7. QED
  BY <1>2, <1>4, <1>5, <1>6 DEF Verdict

-----------------------------------------------------------------------------
(* A stream that is looked at up to one place, then up to a later one.     *)

FlagsTo(z, p) == {i \in 1 .. p : z[i] = Flag}
StartsTo(z, cs, p) == {0} \cup cs \cup FlagsTo(z, p)
Carried(z, cs, p) == SubSeq(z, LastBefore(StartsTo(z, cs, p), p + 1) + 1, p)
Rest(z, cs, p, q) == SubSeq(z, LastBefore(StartsTo(z, cs, p), p + 1) + 1, q)

Full(starts, ends) == {e \in ends : LastBefore(starts, e) < e - 1}
Piece(z, starts, e) == SubSeq(z, LastBefore(starts, e) + 1, e - 1)

LEMMA FramesAre ==
    ASSUME NEW z, NEW starts, NEW ends, Full(starts, ends) \in SUBSET Int,
           IsFiniteSet(Full(starts, ends)),
           NEW f, \A e \in Full(starts, ends) : f[e] = Piece(z, starts, e)
    PROVE  FramesAt(z, starts, ends) = Picked(f, Full(starts, ends))
<1> DEFINE I == Full(starts, ends)
           g == [e \in ends |-> SubSeq(z, LastBefore(starts, e) + 1, e - 1)]
<1>1. FramesAt(z, starts, ends) = Picked(g, I)
  BY DEF FramesAt, Full
<1>2. \A e \in I : g[e] = f[e]
  BY DEF Full, Piece
<1> HIDE DEF I, g
<1>3. Picked(g, I) = Picked(f, I)
  BY <1>2, PickedSame DEF I
<1>4. QED
  BY <1>1, <1>3 DEF I

LEMMA StartsType ==
    ASSUME NEW z, NEW p \in Nat, NEW cs \in SUBSET (0 .. p)
    PROVE  /\ StartsTo(z, cs, p) \in SUBSET (0 .. p) /\ StartsTo(z, cs, p) \in SUBSET Nat
           /\ 0 \in StartsTo(z, cs, p)
           /\ LastBefore(StartsTo(z, cs, p), p + 1) \in StartsTo(z, cs, p)
           /\ LastBefore(StartsTo(z, cs, p), p + 1) \in 0 .. p
           /\ \A b \in StartsTo(z, cs, p) : b <= LastBefore(StartsTo(z, cs, p), p + 1)
<1> DEFINE B == StartsTo(z, cs, p)
<1>1. B \in SUBSET (0 .. p) /\ 0 \in B
  <2>1. cs \subseteq 0 .. p
    OBVIOUS
  <2>2. FlagsTo(z, p) \subseteq 1 .. p
    BY DEF FlagsTo
  <2>3. 0 \in 0 .. p /\ 1 .. p \subseteq 0 .. p
    OBVIOUS
  <2>4. QED
    BY <2>1, <2>2, <2>3 DEF StartsTo
<1>2. B \in SUBSET Nat
  BY <1>1
<1> HIDE DEF B
<1>3. /\ LastBefore(B, p + 1) \in B /\ LastBefore(B, p + 1) < p + 1
      /\ \A b \in B : b < p + 1 => b <= LastBefore(B, p + 1)
  <2>1. p + 1 \in Nat /\ 0 < p + 1
    OBVIOUS
  <2>2. QED
    BY <1>1, <1>2, <2>1, LastBeforeIs
<1>4. \A b \in B : b < p + 1
  BY <1>1
<1>5. QED
  BY <1>1, <1>2, <1>3, <1>4 DEF B

\* The splitter's view s of the rest of the stream, from the last start c on.
Local(z, cs, p, q, c, s) ==
    /\ c \in 0 .. p /\ Len(s) = q - c
    /\ \A i \in 1 .. q - c : s[i] = z[c + i]
    /\ \A i \in c + 1 .. p : z[i] # Flag
    /\ FlagsTo(z, q) = FlagsTo(z, p) \cup Moved(c, Flags(s))
    /\ Flags(s) \in SUBSET (1 .. q - c)
    /\ \A e \in Flags(s) : p < c + e
    /\ \A e \in 1 .. (q - c) + 1 :
          /\ LastBefore(StartsTo(z, cs, q), c + e) = c + LastBefore({0} \cup Flags(s), e)
          /\ LastBefore({0} \cup Flags(s), e) \in 0 .. e - 1

LEMMA LocalView ==
    ASSUME NEW T, NEW z \in Seq(T), NEW p \in Nat, NEW q \in Nat, p <= q, q <= Len(z),
           NEW cs \in SUBSET (0 .. p),
           NEW c, c = LastBefore(StartsTo(z, cs, p), p + 1),
           NEW s, s = Rest(z, cs, p, q)
    PROVE  s \in Seq(T) /\ Local(z, cs, p, q, c, s)
<1> DEFINE A == StartsTo(z, cs, p)
           B == StartsTo(z, cs, q)
           F == Flags(s)
           S == {0} \cup F
<1>1. Len(z) \in Nat /\ \A i \in 1 .. Len(z) : z[i] \in T
  BY LenProperties, ElementOfSeq
<1>2. A \in SUBSET (0 .. p) /\ 0 \in A /\ c \in A /\ c \in 0 .. p /\ \A b \in A : b <= c
  BY StartsType
<1>3. s = SubSeq(z, c + 1, q)
  BY DEF Rest
<1>4. s \in Seq(T) /\ Len(s) = q - c /\ \A i \in 1 .. q - c : s[i] = z[c + i]
  <2>1. \A i \in c + 1 .. q : i \in 1 .. Len(z)
    BY <1>1, <1>2
  <2>2. c + 1 \in Int /\ q \in Int /\ q - (c + 1) + 1 = q - c
        /\ (IF c + 1 <= q THEN q - (c + 1) + 1 ELSE 0) = q - c
    BY <1>2
  <2>3. \A i \in 1 .. q - c : (c + 1) + i - 1 = c + i
    BY <1>2
  <2>4. \A i \in c + 1 .. q : z[i] \in T
    BY <1>1, <2>1
  <2>5. /\ SubSeq(z, c + 1, q) \in Seq(T)
        /\ Len(SubSeq(z, c + 1, q)) = (IF c + 1 <= q THEN q - (c + 1) + 1 ELSE 0)
        /\ \A i \in 1 .. q - (c + 1) + 1 : SubSeq(z, c + 1, q)[i] = z[(c + 1) + i - 1]
    BY <2>2, <2>4, SubSeqProperties
  <2>6. QED
    BY <1>3, <2>2, <2>3, <2>5
<1>5. \A i \in c + 1 .. p : z[i] # Flag
  <2>1. ASSUME NEW i \in c + 1 .. p, z[i] = Flag PROVE FALSE
    <3>1. i \in 1 .. p /\ ~(i <= c)
      BY <1>2
    <3>2. i \in A
      BY <2>1, <3>1 DEF StartsTo, FlagsTo
    <3>3. QED
      BY <1>2, <3>1, <3>2
  <2>2. QED
    BY <2>1
<1>6. \A i : i \in F <=> i \in 1 .. q - c /\ z[c + i] = Flag
  <2>1. DOMAIN s = 1 .. q - c
    BY <1>4, LenProperties
  <2>2. QED
    BY <1>4, <2>1 DEF Flags
<1> HIDE DEF A, B, F
<1>7. \A e \in F : e \in 1 .. q - c /\ p < c + e
  <2>1. ASSUME NEW e \in F PROVE p < c + e
    <3>1. e \in 1 .. q - c /\ z[c + e] = Flag
      BY <1>6
    <3>2. c + e \in c + 1 .. p \/ p < c + e
      BY <1>2, <3>1
    <3>3. QED
      BY <1>5, <3>1, <3>2
  <2>2. QED
    BY <1>6, <2>1
<1>8. FlagsTo(z, q) = FlagsTo(z, p) \cup Moved(c, F)
  <2>1. ASSUME NEW i \in FlagsTo(z, q)
        PROVE  i \in FlagsTo(z, p) \cup Moved(c, F)
    <3>1. i \in 1 .. q /\ z[i] = Flag
      BY DEF FlagsTo
    <3>2. CASE i <= p
      BY <3>1, <3>2 DEF FlagsTo
    <3>3. CASE i > p
      <4>1. i - c \in 1 .. q - c /\ c + (i - c) = i
        BY <1>2, <3>1, <3>3
      <4>2. i - c \in F
        BY <1>6, <3>1, <4>1
      <4>3. QED
        BY <4>1, <4>2 DEF Moved
    <3>4. QED
      BY <3>1, <3>2, <3>3
  <2>2. \A i \in FlagsTo(z, p) : i \in FlagsTo(z, q)
    BY DEF FlagsTo
  <2>3. ASSUME NEW e \in F PROVE c + e \in FlagsTo(z, q)
    <3>1. e \in 1 .. q - c /\ z[c + e] = Flag
      BY <1>6
    <3>2. c + e \in 1 .. q
      BY <1>2, <3>1
    <3>3. QED
      BY <3>1, <3>2 DEF FlagsTo
  <2>4. QED
    BY <2>1, <2>2, <2>3 DEF Moved
<1>9. ASSUME NEW e \in 1 .. (q - c) + 1
      PROVE  LastBefore(B, c + e) = c + LastBefore(S, e) /\ LastBefore(S, e) \in 0 .. e - 1
  <2> DEFINE l == LastBefore(S, e)
  <2>1. S \in SUBSET Nat /\ 0 \in S
    BY <1>7
  <2>2. e \in Nat /\ 0 < e
    BY <1>2
  <2> HIDE DEF S
  <2>3. l \in S /\ l < e /\ \A b \in S : b < e => b <= l
    BY <2>1, <2>2, LastBeforeIs
  <2> HIDE DEF l
  <2>4. l \in Nat /\ l \in 0 .. e - 1
    BY <2>1, <2>2, <2>3
  <2>5. B \in SUBSET Nat
    <3>1. cs \in SUBSET (0 .. q)
      OBVIOUS
    <3>2. QED
      BY <3>1, StartsType DEF B
  <2>6. c + l \in B
    <3>1. CASE l = 0
      <4>1. c + l = c
        BY <1>2, <3>1
      <4>2. \A i \in A : i \in B
        BY DEF A, B, StartsTo, FlagsTo
      <4>3. QED
        BY <1>2, <4>1, <4>2
    <3>2. CASE l \in F
      <4>1. c + l \in FlagsTo(z, q)
        BY <1>8, <3>2 DEF Moved
      <4>2. QED
        BY <4>1 DEF B, StartsTo
    <3>3. QED
      BY <2>3, <3>1, <3>2 DEF S
  <2>7. c + e \in Nat /\ c + l < c + e
    BY <1>2, <2>2, <2>3, <2>4
  <2>8. ASSUME NEW b \in B, b < c + e
        PROVE  b <= c + l
    <3>1. b \in Nat
      BY <2>5
    <3>2. CASE b <= c
      BY <1>2, <2>4, <3>1, <3>2
    <3>3. CASE b > c
      <4>1. b \notin A
        BY <1>2, <3>1, <3>3
      <4>2. b \in FlagsTo(z, q) /\ b \notin FlagsTo(z, p)
        BY <4>1 DEF A, B, StartsTo
      <4>3. PICK d \in F : b = c + d
        BY <1>8, <4>2 DEF Moved
      <4>4. d \in Nat /\ d < e
        BY <1>2, <1>7, <2>2, <2>8, <4>3
      <4>5. d <= l
        BY <2>3, <4>3, <4>4 DEF S
      <4>6. QED
        BY <1>2, <2>4, <4>3, <4>4, <4>5
    <3>4. QED
      BY <1>2, <3>1, <3>2, <3>3
  <2>9. LastBefore(B, c + e) = c + l
    BY <2>5, <2>6, <2>7, <2>8, LastBeforeOnly
  <2>10. QED
    BY <2>4, <2>9 DEF l
<1>10. F \in SUBSET (1 .. q - c)
  BY <1>7
<1>11. \A e \in F : p < c + e
  BY <1>7
<1> HIDE DEF S
<1>12. \A e \in 1 .. (q - c) + 1 :
         /\ LastBefore(B, c + e) = c + LastBefore(S, e) /\ LastBefore(S, e) \in 0 .. e - 1
  BY <1>9
<1>13. QED
  BY <1>2, <1>4, <1>5, <1>8, <1>10, <1>11, <1>12 DEF B, F, S, Local

LEMMA FlagsFinite ==
    ASSUME NEW z, NEW p \in Nat
    PROVE  /\ FlagsTo(z, p) \in SUBSET (1 .. p) /\ FlagsTo(z, p) \in SUBSET Int
           /\ IsFiniteSet(FlagsTo(z, p))
<1>1. FlagsTo(z, p) \in SUBSET (1 .. p)
  BY DEF FlagsTo
<1>2. IsFiniteSet(1 .. p)
  BY FS_Interval
<1>3. IsFiniteSet(FlagsTo(z, p))
  BY <1>1, <1>2, FS_Subset
<1>4. FlagsTo(z, p) \in SUBSET Int
  BY <1>1
<1>5. QED
  BY <1>1, <1>3, <1>4

LEMMA FullFinite ==
    ASSUME NEW starts, NEW ends \in SUBSET Int, IsFiniteSet(ends)
    PROVE  Full(starts, ends) \in SUBSET Int /\ IsFiniteSet(Full(starts, ends))
<1>1. Full(starts, ends) \in SUBSET ends
  BY DEF Full
<1>2. IsFiniteSet(Full(starts, ends))
  BY <1>1, FS_Subset
<1>3. QED
  BY <1>1, <1>2

\* What lies before a place does not depend on later starts.
LEMMA SameStart ==
    ASSUME NEW A \in SUBSET Nat, NEW B \in SUBSET Nat, 0 \in A, A \subseteq B,
           NEW e \in Nat, 0 < e, \A b \in B : b < e => b \in A
    PROVE  LastBefore(A, e) = LastBefore(B, e)
<1> DEFINE l == LastBefore(A, e)
<1>1. l \in A /\ l < e /\ \A b \in A : b < e => b <= l
  BY LastBeforeIs
<1> HIDE DEF l
<1>2. l \in B /\ \A b \in B : b < e => b <= l
  BY <1>1
<1>3. LastBefore(B, e) = l
  BY <1>1, <1>2, LastBeforeOnly
<1>4. QED
  BY <1>3 DEF l

LEMMA PartOfPart ==
    ASSUME NEW T, NEW z \in Seq(T), NEW c \in Nat, NEW q \in Nat, c <= q, q <= Len(z),
           NEW a \in Nat, NEW b \in Nat, a >= 1, b <= q - c
    PROVE  SubSeq(SubSeq(z, c + 1, q), a, b) = SubSeq(z, c + a, c + b)
<1> DEFINE s == SubSeq(z, c + 1, q)
           u == SubSeq(s, a, b)
           v == SubSeq(z, c + a, c + b)
<1>1. Len(z) \in Nat /\ \A i \in 1 .. Len(z) : z[i] \in T
  BY LenProperties, ElementOfSeq
<1>2. s \in Seq(T) /\ \A i \in 1 .. q - c : s[i] = z[c + i]
  <2>1. \A i \in c + 1 .. q : z[i] \in T
    BY <1>1
  <2>2. c + 1 \in Int /\ q \in Int
    OBVIOUS
  <2>3. s \in Seq(T) /\ \A i \in 1 .. q - (c + 1) + 1 : s[i] = z[(c + 1) + i - 1]
    BY <2>1, <2>2, SubSeqProperties
  <2>4. q - (c + 1) + 1 = q - c /\ \A i \in 1 .. q - c : (c + 1) + i - 1 = c + i
    OBVIOUS
  <2> HIDE DEF s
  <2>5. QED
    BY <2>3, <2>4
<1> HIDE DEF s
<1>3. \A i \in a .. b : i \in 1 .. q - c /\ c + i \in 1 .. Len(z)
  BY <1>1
<1>4. /\ u \in Seq(T) /\ Len(u) = (IF a <= b THEN b - a + 1 ELSE 0)
      /\ \A i \in 1 .. b - a + 1 : u[i] = s[a + i - 1]
  <2>1. \A i \in a .. b : s[i] \in T
    BY <1>1, <1>2, <1>3
  <2>2. a \in Int /\ b \in Int
    OBVIOUS
  <2>3. QED
    BY <2>1, <2>2, SubSeqProperties
<1>5. /\ v \in Seq(T) /\ Len(v) = (IF a <= b THEN b - a + 1 ELSE 0)
      /\ \A i \in 1 .. b - a + 1 : v[i] = z[(c + a) + i - 1]
  <2>1. \A i \in c + a .. c + b : z[i] \in T
    <3>1. ASSUME NEW i \in c + a .. c + b PROVE z[i] \in T
      <4>1. i - c \in a .. b /\ c + (i - c) = i
        OBVIOUS
      <4>2. QED
        BY <1>1, <1>3, <4>1
    <3>2. QED
      BY <3>1
  <2>2. c + a \in Int /\ c + b \in Int
    OBVIOUS
  <2>3. /\ v \in Seq(T) /\ Len(v) = (IF c + a <= c + b THEN (c + b) - (c + a) + 1 ELSE 0)
        /\ \A i \in 1 .. (c + b) - (c + a) + 1 : v[i] = z[(c + a) + i - 1]
    BY <2>1, <2>2, SubSeqProperties
  <2>4. (c + b) - (c + a) + 1 = b - a + 1 /\ (c + a <= c + b <=> a <= b)
    OBVIOUS
  <2> HIDE DEF v
  <2>5. QED
    BY <2>3, <2>4
<1>6. \A i \in 1 .. Len(u) : u[i] = v[i]
  <2>1. ASSUME NEW i \in 1 .. Len(u) PROVE u[i] = v[i]
    <3>1. i \in 1 .. b - a + 1
      <4> HIDE DEF u
      <4>1. QED
        BY <1>4
    <3>2. u[i] = s[a + i - 1] /\ v[i] = z[(c + a) + i - 1]
      BY <1>4, <1>5, <3>1
    <3>3. a + i - 1 \in 1 .. q - c /\ c + (a + i - 1) = (c + a) + i - 1
      BY <3>1
    <3>4. QED
      BY <1>2, <3>2, <3>3
  <2>2. QED
    BY <2>1
<1> HIDE DEF u, v
<1>7. u = v
  BY <1>4, <1>5, <1>6, SeqEqual
<1>8. QED
  BY <1>7 DEF u, v, s

\* s, the rest of the stream up to a later place, brings the frames that end in
\* it, and leaves what is carried there.
Grown(z, cs, p, q, s) ==
    /\ FramesAt(z, StartsTo(z, cs, q), FlagsTo(z, q)) =
         FramesAt(z, StartsTo(z, cs, p), FlagsTo(z, p))
           \o FramesAt(s, {0} \cup Flags(s), Flags(s))
    /\ SubSeq(s, LastBefore({0} \cup Flags(s), Len(s) + 1) + 1, Len(s)) = Carried(z, cs, q)

LEMMA FramesGrow ==
    ASSUME NEW T, NEW z \in Seq(T), NEW p \in Nat, NEW q \in Nat, p <= q, q <= Len(z),
           NEW cs \in SUBSET (0 .. p),
           NEW s, s = Rest(z, cs, p, q)
    PROVE  Grown(z, cs, p, q, s)
<1> DEFINE A == StartsTo(z, cs, p)
           B == StartsTo(z, cs, q)
           F == Flags(s)
           S == {0} \cup F
           P == FlagsTo(z, p)
           Q == FlagsTo(z, q)
           g == [e \in Q |-> Piece(z, B, e)]
           X == Full(A, P)
           Y == Full(S, F)
<1>0. PICK c : c = LastBefore(A, p + 1)
  OBVIOUS
<1>1. /\ c \in 0 .. p /\ s \in Seq(T) /\ Len(s) = q - c
      /\ Q = P \cup Moved(c, F)
      /\ F \in SUBSET (1 .. q - c)
      /\ \A e \in F : p < c + e
      /\ \A e \in 1 .. (q - c) + 1 :
            /\ LastBefore(B, c + e) = c + LastBefore(S, e)
            /\ LastBefore(S, e) \in 0 .. e - 1
  <2>1. c = LastBefore(StartsTo(z, cs, p), p + 1)
    BY <1>0
  <2>2. s \in Seq(T) /\ Local(z, cs, p, q, c, s)
    BY <2>1, LocalView
  <2>3. QED
    BY <2>2 DEF Local
<1>2. /\ A \in SUBSET (0 .. p) /\ A \in SUBSET Nat /\ 0 \in A
      /\ B \in SUBSET Nat /\ 0 \in B
  <2>1. cs \in SUBSET (0 .. q)
    OBVIOUS
  <2>2. QED
    BY <2>1, StartsType
<1>3. A \subseteq B /\ \A b \in B : b \in A \/ b \in Q \ P
  BY DEF StartsTo, FlagsTo
<1>4. /\ P \in SUBSET (1 .. p) /\ P \in SUBSET Int /\ IsFiniteSet(P)
      /\ Q \in SUBSET (1 .. q) /\ Q \in SUBSET Int /\ IsFiniteSet(Q)
  BY FlagsFinite
<1>5. F \in SUBSET Int /\ IsFiniteSet(F)
  <2>1. q - c \in Nat
    BY <1>1
  <2>2. IsFiniteSet(1 .. q - c)
    BY <2>1, FS_Interval
  <2> HIDE DEF F
  <2>3. IsFiniteSet(F)
    BY <1>1, <2>2, FS_Subset
  <2>4. QED
    BY <1>1, <2>3
<1>6. Len(z) \in Nat /\ \A i \in 1 .. Len(z) : z[i] \in T
  BY LenProperties, ElementOfSeq
<1>7. c \in Nat /\ c <= p /\ s = SubSeq(z, c + 1, q)
  BY <1>0, <1>1 DEF Rest
<1>7a. \A a, b \in Nat : a >= 1 /\ b <= q - c =>
          SubSeq(s, a, b) = SubSeq(z, c + a, c + b)
  <2>1. c \in Nat /\ c <= q
    BY <1>7
  <2>2. ASSUME NEW a \in Nat, NEW b \in Nat, a >= 1, b <= q - c
        PROVE  SubSeq(SubSeq(z, c + 1, q), a, b) = SubSeq(z, c + a, c + b)
    BY <2>1, <2>2, PartOfPart
  <2>3. QED
    BY <1>7, <2>2
<1> HIDE DEF A, B, F, S, P, Q
<1>8. \A e \in P : LastBefore(A, e) = LastBefore(B, e)
  <2>1. ASSUME NEW e \in P PROVE LastBefore(A, e) = LastBefore(B, e)
    <3>1. e \in Nat /\ 0 < e /\ e <= p
      BY <1>4
    <3>2. ASSUME NEW b \in B, b < e PROVE b \in A
      <4>1. ASSUME b \notin A PROVE FALSE
        <5>1. b \in Q /\ b \notin P
          BY <1>3, <4>1
        <5>2. PICK d \in F : b = c + d
          BY <1>1, <5>1 DEF Moved
        <5>3. p < b /\ b \in Nat
          BY <1>1, <1>2, <5>2
        <5>4. QED
          BY <3>1, <3>2, <5>3
      <4>2. QED
        BY <4>1
    <3>3. QED
      BY <1>2, <1>3, <3>1, <3>2, SameStart
  <2>2. QED
    BY <2>1
<1>9. \A e \in F : e \in Nat /\ e \in 1 .. (q - c) + 1 /\ c + e \in Q
  <2>1. \A e \in F : e \in 1 .. q - c
    BY <1>1
  <2>2. \A e \in F : c + e \in Q
    BY <1>1 DEF Moved
  <2>3. QED
    BY <1>7, <2>1, <2>2
<1>10. Full(B, Q) = X \cup Moved(c, Y)
  <2>1. \A e \in P : LastBefore(B, e) < e - 1 <=> LastBefore(A, e) < e - 1
    BY <1>8
  <2>2. ASSUME NEW e \in F
        PROVE  LastBefore(B, c + e) < (c + e) - 1 <=> LastBefore(S, e) < e - 1
    <3>1. LastBefore(B, c + e) = c + LastBefore(S, e) /\ LastBefore(S, e) \in 0 .. e - 1
      BY <1>1, <1>9
    <3>2. e \in Nat
      BY <1>9
    <3>3. QED
      BY <1>7, <3>1, <3>2
  <2>3. \A e \in Full(B, Q) : e \in X \cup Moved(c, Y)
    BY <1>1, <2>1, <2>2 DEF Full, Moved
  <2>4. \A e \in X : e \in Full(B, Q)
    BY <1>1, <2>1 DEF Full
  <2>5. \A e \in Y : c + e \in Full(B, Q)
    BY <1>9, <2>2 DEF Full
  <2>6. QED
    BY <2>3, <2>4, <2>5 DEF Moved
<1>11. /\ X \in SUBSET Int /\ IsFiniteSet(X) /\ Y \in SUBSET Int /\ IsFiniteSet(Y)
       /\ Full(B, Q) \in SUBSET Int /\ IsFiniteSet(Full(B, Q))
  BY <1>4, <1>5, FullFinite
<1>12. FramesAt(z, B, Q) = Picked(g, Full(B, Q))
  <2>1. \A e \in Full(B, Q) : g[e] = Piece(z, B, e)
    BY DEF Full
  <2> HIDE DEF g
  <2>2. QED
    BY <1>11, <2>1, FramesAre
<1>13. FramesAt(z, A, P) = Picked(g, X)
  <2>1. \A e \in X : g[e] = Piece(z, A, e)
    <3>1. ASSUME NEW e \in X PROVE g[e] = Piece(z, A, e)
      <4>1. e \in P /\ e \in Q
        BY <1>1 DEF Full
      <4>2. g[e] = Piece(z, B, e)
        BY <4>1
      <4>3. QED
        BY <1>8, <4>1, <4>2 DEF Piece
    <3>2. QED
      BY <3>1
  <2> HIDE DEF g
  <2>2. QED
    BY <1>11, <2>1, FramesAre
<1> DEFINE h == [e \in F |-> Piece(s, S, e)]
<1>14. FramesAt(s, S, F) = Picked(h, Y)
  <2>1. \A e \in Y : h[e] = Piece(s, S, e)
    BY DEF Full
  <2> HIDE DEF h
  <2>2. QED
    BY <1>11, <2>1, FramesAre
<1>15. \A e \in Y : g[c + e] = h[e]
  <2>1. ASSUME NEW e \in Y PROVE g[c + e] = h[e]
    <3> DEFINE l == LastBefore(S, e)
    <3>1. e \in F /\ l < e - 1 /\ e \in Nat /\ c + e \in Q
      BY <1>9 DEF Full
    <3>2. LastBefore(B, c + e) = c + l /\ l \in 0 .. e - 1 /\ e \in 1 .. q - c
      BY <1>1, <1>9, <3>1
    <3>3. g[c + e] = SubSeq(z, (c + l) + 1, (c + e) - 1)
      BY <3>1, <3>2 DEF Piece
    <3>4. h[e] = SubSeq(s, l + 1, e - 1)
      BY <3>1 DEF Piece
    <3> HIDE DEF l
    <3>5. /\ l + 1 \in Nat /\ l + 1 >= 1 /\ e - 1 \in Nat /\ e - 1 <= q - c
          /\ c + (l + 1) = (c + l) + 1 /\ c + (e - 1) = (c + e) - 1
      BY <1>7, <3>1, <3>2
    <3>6. SubSeq(s, l + 1, e - 1) = SubSeq(z, c + (l + 1), c + (e - 1))
      BY <1>7a, <3>5
    <3>7. QED
      BY <3>3, <3>4, <3>5, <3>6
  <2>2. QED
    BY <2>1
<1> HIDE DEF g, h
<1>16. Picked(g, Moved(c, Y)) = Picked(h, Y) /\ IsFiniteSet(Moved(c, Y))
  <2> HIDE DEF Y
  <2>1. c \in Int
    BY <1>7
  <2>2. QED
    BY <1>11, <1>15, <2>1, PickedShift
<1>17. Picked(g, X \cup Moved(c, Y)) = Picked(g, X) \o Picked(g, Moved(c, Y))
  <2>1. Moved(c, Y) \in SUBSET Int
    BY <1>7, <1>11 DEF Moved
  <2>2. \A a \in X, b \in Moved(c, Y) : a < b
    <3>1. \A a \in X : a \in Int /\ a <= p
      BY <1>4 DEF Full
    <3>2. \A b \in Moved(c, Y) : b \in Int /\ p < b
      <4>1. \A e \in Y : e \in F
        BY DEF Full
      <4>2. \A b \in Moved(c, Y) : p < b
        BY <1>1, <4>1 DEF Moved
      <4>3. QED
        BY <2>1, <4>2
    <3>3. QED
      BY <3>1, <3>2
  <2> HIDE DEF X, Y
  <2>3. QED
    BY <1>11, <1>16, <2>1, <2>2, PickedJoin
<1>18. FramesAt(z, B, Q) = FramesAt(z, A, P) \o FramesAt(s, S, F)
  BY <1>10, <1>12, <1>13, <1>14, <1>16, <1>17
<1>19. SubSeq(s, LastBefore(S, Len(s) + 1) + 1, Len(s)) = SubSeq(z, LastBefore(B, q + 1) + 1, q)
  <2> DEFINE d == q - c
             l == LastBefore(S, d + 1)
  <2>1. Len(s) = d /\ d \in Nat /\ d + 1 \in 1 .. (q - c) + 1 /\ c + (d + 1) = q + 1
    BY <1>1, <1>7
  <2>2. LastBefore(B, c + (d + 1)) = c + l /\ l \in 0 .. (d + 1) - 1
    BY <1>1, <2>1
  <2>3. LastBefore(B, q + 1) = c + l /\ l \in 0 .. d
    BY <2>1, <2>2
  <2> HIDE DEF l, d
  <2>4. /\ l + 1 \in Nat /\ l + 1 >= 1 /\ d <= q - c /\ c + d = q /\ c + (l + 1) = (c + l) + 1
    BY <1>7, <2>1, <2>3 DEF d
  <2>5. SubSeq(s, l + 1, d) = SubSeq(z, c + (l + 1), c + d)
    BY <1>7a, <2>1, <2>4
  <2>6. QED
    BY <2>1, <2>3, <2>4, <2>5 DEF l
<1>20. QED
  BY <1>18, <1>19 DEF A, B, F, S, P, Q, Carried, Grown

\* f is what lies between two places of z, with no flag.
FrameOf(f, z) ==
    \E i \in 1 .. Len(z) : \E j \in i .. Len(z) :
        f = SubSeq(z, i, j) /\ \A k \in i .. j : z[k] # Flag

\* The starts take in every flag before an end.
Bounds(z, starts, ends) ==
    /\ starts \in SUBSET Nat /\ 0 \in starts /\ ends \in SUBSET (1 .. Len(z) + 1)
    /\ \A e \in ends, i \in 1 .. Len(z) : z[i] = Flag /\ i < e => i \in starts

LEMMA FramesType ==
    ASSUME NEW T, NEW z \in Seq(T), NEW starts, NEW ends, Bounds(z, starts, ends)
    PROVE  /\ FramesAt(z, starts, ends) \in Seq(Seq(T))
           /\ \A k \in 1 .. Len(FramesAt(z, starts, ends)) :
                 FrameOf(FramesAt(z, starts, ends)[k], z)
<1> DEFINE I == Full(starts, ends)
           g == [e \in ends |-> Piece(z, starts, e)]
           R == FramesAt(z, starts, ends)
<1>1. /\ Len(z) \in Nat /\ \A i \in 1 .. Len(z) : z[i] \in T
      /\ starts \in SUBSET Nat /\ 0 \in starts /\ ends \in SUBSET (1 .. Len(z) + 1)
      /\ \A e \in ends, i \in 1 .. Len(z) : z[i] = Flag /\ i < e => i \in starts
  BY LenProperties, ElementOfSeq DEF Bounds
<1>2. ends \in SUBSET Int /\ IsFiniteSet(ends)
  <2>1. Len(z) + 1 \in Nat
    BY <1>1
  <2>2. IsFiniteSet(1 .. Len(z) + 1)
    BY <2>1, FS_Interval
  <2>3. IsFiniteSet(ends)
    BY <1>1, <2>2, FS_Subset
  <2>4. QED
    BY <1>1, <2>3
<1>3. I \in SUBSET Int /\ IsFiniteSet(I)
  BY <1>2, FullFinite
<1>4. R = Picked(g, I)
  <2>1. \A e \in I : g[e] = Piece(z, starts, e)
    BY DEF Full
  <2> HIDE DEF g
  <2>2. QED
    BY <1>3, <2>1, FramesAre
<1>5. ASSUME NEW e \in I
      PROVE  g[e] \in Seq(T) /\ FrameOf(g[e], z)
  <2> DEFINE l == LastBefore(starts, e)
  <2>1. e \in ends /\ l < e - 1 /\ e \in 1 .. Len(z) + 1 /\ e \in Nat /\ 0 < e
    BY <1>1 DEF Full
  <2>2. l \in starts /\ l < e /\ \A b \in starts : b < e => b <= l
    BY <1>1, <2>1, LastBeforeIs
  <2>3. l \in Nat
    BY <1>1, <2>2
  <2>4. g[e] = SubSeq(z, l + 1, e - 1)
    BY <2>1 DEF Piece
  <2> HIDE DEF l, g
  <2>5. l + 1 \in 1 .. Len(z) /\ e - 1 \in l + 1 .. Len(z)
    BY <1>1, <2>1, <2>3
  <2>6. ASSUME NEW k \in l + 1 .. e - 1, z[k] = Flag PROVE FALSE
    <3>1. k \in 1 .. Len(z) /\ k < e /\ ~(k <= l)
      BY <1>1, <2>1, <2>3
    <3>2. k \in starts
      BY <1>1, <2>1, <2>6, <3>1
    <3>3. QED
      BY <2>2, <3>1, <3>2
  <2>7. g[e] \in Seq(T)
    <3>1. \A i \in l + 1 .. e - 1 : i \in 1 .. Len(z)
      BY <2>5, <1>1, <2>3, <2>1
    <3>2. \A i \in l + 1 .. e - 1 : z[i] \in T
      BY <1>1, <3>1
    <3>3. l + 1 \in Int /\ e - 1 \in Int
      BY <2>1, <2>3
    <3>4. QED
      BY <2>4, <3>2, <3>3, SubSeqProperties
  <2>8. QED
    BY <2>4, <2>5, <2>6, <2>7 DEF FrameOf
<1> HIDE DEF I, g, R
<1>6. /\ R \in Seq(Seq(T)) /\ Len(R) = Cardinality(I)
      /\ \A k \in 1 .. Cardinality(I) : Nth(I, k) \in I /\ R[k] = g[Nth(I, k)]
  <2>1. \A e \in I : g[e] \in Seq(T)
    BY <1>5
  <2>2. QED
    BY <1>3, <1>4, <2>1, PickedType
<1>7. \A k \in 1 .. Len(R) : FrameOf(R[k], z)
  BY <1>5, <1>6
<1>8. QED
  BY <1>6, <1>7 DEF R

LEMMA LocalBounds ==
    ASSUME NEW T, NEW s \in Seq(T)
    PROVE  Bounds(s, {0} \cup Flags(s), Flags(s))
<1>1. Len(s) \in Nat /\ DOMAIN s = 1 .. Len(s)
  BY LenProperties
<1>2. \A i : i \in Flags(s) <=> i \in 1 .. Len(s) /\ s[i] = Flag
  BY <1>1 DEF Flags
<1>3. {0} \cup Flags(s) \in SUBSET Nat
  <2>1. \A i \in Flags(s) : i \in Nat
    BY <1>2
  <2>2. QED
    BY <2>1
<1>4. Flags(s) \in SUBSET (1 .. Len(s) + 1)
  <2>1. \A i \in Flags(s) : i \in 1 .. Len(s) + 1
    BY <1>1, <1>2
  <2>2. QED
    BY <2>1
<1>5. QED
  BY <1>2, <1>3, <1>4 DEF Bounds

LEMMA StreamBounds ==
    ASSUME NEW T, NEW z \in Seq(T), NEW p \in 0 .. Len(z), NEW cs \in SUBSET (0 .. p),
           NEW last \in SUBSET {p + 1}
    PROVE  Bounds(z, StartsTo(z, cs, p), FlagsTo(z, p) \cup last)
<1>1. Len(z) \in Nat
  BY LenProperties
<1>. p \in Nat
  BY <1>1
<1>2. StartsTo(z, cs, p) \in SUBSET Nat /\ 0 \in StartsTo(z, cs, p)
  BY StartsType
<1>3. FlagsTo(z, p) \cup last \in SUBSET (1 .. p + 1)
  <2>1. FlagsTo(z, p) \in SUBSET (1 .. p)
    BY DEF FlagsTo
  <2>2. \A i \in FlagsTo(z, p) : i \in 1 .. p + 1
    BY <2>1
  <2>3. \A i \in last : i \in 1 .. p + 1
    OBVIOUS
  <2>4. QED
    BY <2>2, <2>3
<1>4. 1 .. p + 1 \subseteq 1 .. Len(z) + 1
  BY <1>1
<1>5. ASSUME NEW e \in FlagsTo(z, p) \cup last, NEW i \in 1 .. Len(z), z[i] = Flag, i < e
      PROVE  i \in StartsTo(z, cs, p)
  <2>1. e \in 1 .. p + 1
    BY <1>3
  <2>2. i \in 1 .. p
    BY <1>5, <2>1
  <2>3. QED
    BY <1>5, <2>2 DEF StartsTo, FlagsTo
<1>6. QED
  BY <1>2, <1>3, <1>4, <1>5 DEF Bounds

\* A frame of a stream whose every Esc begins a pair is a good frame.
LEMMA FramesAreGood ==
    ASSUME NEW T, NEW z \in Seq(T),
           \A i \in 1 .. Len(z) - 1 : z[i] = Esc => z[i + 1] \in {EscFlag, EscEsc, Flag},
           NEW f, FrameOf(f, z)
    PROVE  GoodFrame(f)
<1>1. Len(z) \in Nat /\ \A i \in 1 .. Len(z) : z[i] \in T
  BY LenProperties, ElementOfSeq
<1>2a. PICK i \in 1 .. Len(z) : \E j \in i .. Len(z) :
         f = SubSeq(z, i, j) /\ \A k \in i .. j : z[k] # Flag
  BY DEF FrameOf
<1>2. PICK j \in i .. Len(z) :
         f = SubSeq(z, i, j) /\ \A k \in i .. j : z[k] # Flag
  BY <1>2a
<1>3. i \in Nat /\ i >= 1 /\ j \in Nat /\ i <= j /\ j <= Len(z)
  BY <1>1
<1>4. f \in Seq(T) /\ Len(f) = j - i + 1 /\ \A k \in 1 .. j - i + 1 : f[k] = z[i + k - 1]
  <2>1. \A k \in i .. j : z[k] \in T
    BY <1>1, <1>3
  <2>2. i \in Int /\ j \in Int
    BY <1>3
  <2>3. QED
    BY <1>2, <1>3, <2>1, <2>2, SubSeqProperties
<1>5. f # <<>>
  BY <1>3, <1>4, EmptySeq
<1>6. f \in Seq(ToSet(f))
  <2>1. f \in [1 .. Len(f) -> T] /\ Len(f) \in Nat
    BY <1>4, LenProperties
  <2>2. f \in [1 .. Len(f) -> ToSet(f)]
    BY <2>1 DEF ToSet
  <2>3. QED
    BY <2>1, <2>2, FunctionIsSeq
<1>7. \A k \in 1 .. Len(f) : f[k] # Flag
  <2>1. ASSUME NEW k \in 1 .. j - i + 1 PROVE f[k] # Flag
    <3>1. i + k - 1 \in i .. j
      BY <1>3
    <3>2. QED
      BY <1>2, <1>4, <3>1
  <2>2. QED
    BY <1>4, <2>1
<1>8. ASSUME NEW k \in 1 .. Len(f) - 1, f[k] = Esc
      PROVE  f[k + 1] \in {EscFlag, EscEsc}
  <2>1. /\ k \in 1 .. j - i + 1 /\ k + 1 \in 1 .. j - i + 1
        /\ i + k - 1 \in 1 .. Len(z) - 1 /\ i + (k + 1) - 1 = (i + k - 1) + 1
        /\ (i + k - 1) + 1 \in i .. j
    BY <1>3, <1>4
  <2>2. f[k] = z[i + k - 1] /\ f[k + 1] = z[(i + k - 1) + 1]
    BY <1>4, <2>1
  <2>3. z[(i + k - 1) + 1] \in {EscFlag, EscEsc, Flag} /\ z[(i + k - 1) + 1] # Flag
    BY <1>2, <1>8, <2>1, <2>2
  <2>4. QED
    BY <2>2, <2>3
<1>9. QED
  BY <1>5, <1>6, <1>7, <1>8 DEF GoodFrame

\* What is carried: nothing, if a frame has just ended or been cut off; else it
\* is the frame that finish() adds.
LEMMA CarriedIs ==
    ASSUME NEW T, NEW z \in Seq(T), NEW p \in 0 .. Len(z), NEW cs \in SUBSET (0 .. p)
    PROVE  /\ Carried(z, cs, p) \in Seq(T)
           /\ \A i \in 1 .. Len(Carried(z, cs, p)) : Carried(z, cs, p)[i] # Flag
           /\ Carried(z, cs, p) = <<>> <=> p \in StartsTo(z, cs, p)
<1> DEFINE c == LastBefore(StartsTo(z, cs, p), p + 1)
           s == Rest(z, cs, p, p)
           B == StartsTo(z, cs, p)
<1>1. Len(z) \in Nat
  BY LenProperties
<1>2. p \in Nat /\ p <= Len(z)
  BY <1>1
<1>3. B \in SUBSET (0 .. p) /\ c \in B /\ c \in 0 .. p /\ \A b \in B : b <= c
  BY <1>2, StartsType
<1>4. s \in Seq(T) /\ Local(z, cs, p, p, c, s)
  <2>1. p <= p
    BY <1>2
  <2>2. PICK d, r : d = c /\ r = s
    OBVIOUS
  <2> HIDE DEF c, s
  <2>3. d = LastBefore(StartsTo(z, cs, p), p + 1) /\ r = Rest(z, cs, p, p)
    BY <2>2 DEF c, s
  <2>4. r \in Seq(T) /\ Local(z, cs, p, p, d, r)
    BY <1>2, <2>1, <2>3, LocalView
  <2>5. QED
    BY <2>2, <2>4
<1>5. Carried(z, cs, p) = s
  BY DEF Carried, Rest
<1> HIDE DEF c, s, B
<1>6. /\ Len(s) = p - c
      /\ \A i \in 1 .. p - c : s[i] = z[c + i]
      /\ \A i \in c + 1 .. p : z[i] # Flag
  BY <1>4 DEF Local
<1>7. \A i \in 1 .. Len(s) : s[i] # Flag
  <2>1. ASSUME NEW i \in 1 .. p - c PROVE s[i] # Flag
    <3>1. c + i \in c + 1 .. p
      BY <1>2, <1>3
    <3>2. QED
      BY <1>6, <3>1
  <2>2. QED
    BY <1>6, <2>1
<1>8. s = <<>> <=> p = c
  <2>1. s = <<>> => Len(s) = 0
    BY EmptySeq
  <2>2. s # <<>> => Len(s) \in Nat \ {0}
    BY <1>4, EmptySeq
  <2>3. QED
    BY <1>2, <1>3, <1>6, <2>1, <2>2
<1>9. p = c <=> p \in B
  <2>1. p \in B => p <= c
    BY <1>3
  <2>2. QED
    BY <1>2, <1>3, <2>1
<1>10. QED
  BY <1>4, <1>5, <1>7, <1>8, <1>9 DEF B

\* reset() leaves the frames that have ended as they are.
LEMMA FramesStay ==
    ASSUME NEW T, NEW z \in Seq(T), NEW p \in 0 .. Len(z), NEW cs \in SUBSET (0 .. p)
    PROVE  /\ FramesAt(z, StartsTo(z, cs \cup {p}, p), FlagsTo(z, p)) =
                FramesAt(z, StartsTo(z, cs, p), FlagsTo(z, p))
           /\ Carried(z, cs \cup {p}, p) = <<>>
<1> DEFINE A == StartsTo(z, cs, p)
           B == StartsTo(z, cs \cup {p}, p)
           P == FlagsTo(z, p)
           g == [e \in P |-> Piece(z, A, e)]
<1>1. Len(z) \in Nat
  BY LenProperties
<1>2. p \in Nat /\ cs \cup {p} \in SUBSET (0 .. p)
  <2>1. p \in Nat /\ p \in 0 .. p
    BY <1>1
  <2>2. QED
    BY <2>1
<1>3. /\ A \in SUBSET Nat /\ 0 \in A /\ B \in SUBSET Nat /\ 0 \in B
  BY <1>2, StartsType
<1>4. A \subseteq B /\ \A b \in B : b \in A \/ b = p
  BY DEF StartsTo
<1>5. P \in SUBSET (1 .. p) /\ P \in SUBSET Int /\ IsFiniteSet(P)
  BY <1>2, FlagsFinite
<1> HIDE DEF A, B, P
<1>6. \A e \in P : LastBefore(A, e) = LastBefore(B, e)
  <2>1. ASSUME NEW e \in P PROVE LastBefore(A, e) = LastBefore(B, e)
    <3>1. e \in Nat /\ 0 < e /\ e <= p
      BY <1>2, <1>5
    <3>2. \A b \in B : b < e => b \in A
      BY <1>2, <1>4, <3>1
    <3>3. QED
      BY <1>3, <1>4, <3>1, <3>2, SameStart
  <2>2. QED
    BY <2>1
<1>7. Full(A, P) = Full(B, P) /\ \A e \in P : Piece(z, A, e) = Piece(z, B, e)
  BY <1>6 DEF Full, Piece
<1>8. Full(A, P) \in SUBSET Int /\ IsFiniteSet(Full(A, P))
  BY <1>5, FullFinite
<1>9. \A e \in Full(A, P) : g[e] = Piece(z, A, e) /\ g[e] = Piece(z, B, e)
  <2>1. \A e \in Full(A, P) : e \in P
    BY DEF Full
  <2>2. QED
    BY <1>7, <2>1
<1> HIDE DEF g
<1>10. FramesAt(z, A, P) = Picked(g, Full(A, P)) /\ FramesAt(z, B, P) = Picked(g, Full(B, P))
  BY <1>7, <1>8, <1>9, FramesAre
<1>11. p \in B
  BY DEF B, StartsTo
<1>12. Carried(z, cs \cup {p}, p) = <<>>
  BY <1>2, <1>11, CarriedIs DEF B
<1>13. QED
  BY <1>7, <1>10, <1>12 DEF A, B, P

\* finish() adds what is carried to the frames, if it is not empty.
LEMMA FramesEnd ==
    ASSUME NEW T, NEW z \in Seq(T), NEW p \in 0 .. Len(z), NEW cs \in SUBSET (0 .. p)
    PROVE  FramesAt(z, StartsTo(z, cs, p), FlagsTo(z, p) \cup {p + 1}) =
             FramesAt(z, StartsTo(z, cs, p), FlagsTo(z, p))
               \o (IF Carried(z, cs, p) = <<>> THEN <<>> ELSE <<Carried(z, cs, p)>>)
<1> DEFINE B == StartsTo(z, cs, p)
           P == FlagsTo(z, p)
           Q == P \cup {p + 1}
           g == [e \in Q |-> Piece(z, B, e)]
           k == Carried(z, cs, p)
           X == Full(B, P)
           Y == IF k = <<>> THEN {} ELSE {p + 1}
<1>1. Len(z) \in Nat
  BY LenProperties
<1>2. p \in Nat /\ p + 1 \in Int
  BY <1>1
<1>3. P \in SUBSET (1 .. p) /\ P \in SUBSET Int /\ IsFiniteSet(P)
  BY <1>2, FlagsFinite
<1>4. Piece(z, B, p + 1) = k
  <2>1. (p + 1) - 1 = p
    BY <1>2
  <2>2. QED
    BY <2>1 DEF Piece, Carried
<1>5. LastBefore(B, p + 1) < (p + 1) - 1 <=> k # <<>>
  <2>1. B \in SUBSET (0 .. p) /\ LastBefore(B, p + 1) \in B /\ LastBefore(B, p + 1) \in 0 .. p
        /\ \A b \in B : b <= LastBefore(B, p + 1)
    BY <1>2, StartsType
  <2>2. k = <<>> <=> p \in B
    BY CarriedIs
  <2> DEFINE l == LastBefore(B, p + 1)
  <2> HIDE DEF B, k, l
  <2>3. l < (p + 1) - 1 <=> ~(l = p)
    BY <1>2, <2>1 DEF l
  <2>4. l = p <=> p \in B
    <3>1. p \in B => p <= l
      BY <2>1 DEF l
    <3>2. QED
      BY <1>2, <2>1, <3>1 DEF l
  <2>5. QED
    BY <2>2, <2>3, <2>4 DEF l
<1> HIDE DEF B, P, k
<1>6. Full(B, Q) = X \cup Y
  BY <1>5 DEF Full
<1>7. /\ X \in SUBSET Int /\ IsFiniteSet(X) /\ Y \in SUBSET Int /\ IsFiniteSet(Y)
      /\ Full(B, Q) \in SUBSET Int /\ IsFiniteSet(Full(B, Q))
  <2>1. X \in SUBSET Int /\ IsFiniteSet(X)
    BY <1>3, FullFinite
  <2>2. IsFiniteSet({}) /\ IsFiniteSet({p + 1})
    BY FS_EmptySet, FS_Singleton
  <2>3. Y \in SUBSET Int /\ IsFiniteSet(Y)
    BY <1>2, <2>2
  <2> HIDE DEF X, Y
  <2>4. IsFiniteSet(X \cup Y)
    BY <2>1, <2>3, FS_Union
  <2>5. QED
    BY <1>6, <2>1, <2>3, <2>4
<1>8. \A e \in Full(B, Q) : g[e] = Piece(z, B, e)
  BY DEF Full
<1>9. \A e \in X : g[e] = Piece(z, B, e)
  BY DEF Full
<1>10. g[p + 1] = k
  BY <1>4
<1> HIDE DEF g, Q
<1>11. FramesAt(z, B, Q) = Picked(g, Full(B, Q)) /\ FramesAt(z, B, P) = Picked(g, X)
  BY <1>7, <1>8, <1>9, FramesAre
<1>12. Picked(g, X \cup Y) = Picked(g, X) \o Picked(g, Y)
  <2>1. \A a \in X : a \in P
    BY DEF Full
  <2>2. \A a \in X, b \in Y : a < b
    <3>1. \A a \in P : a < p + 1
      BY <1>2, <1>3
    <3>2. QED
      BY <2>1, <3>1
  <2> HIDE DEF X, Y
  <2>3. QED
    BY <1>7, <2>2, PickedJoin
<1>13. Picked(g, Y) = IF k = <<>> THEN <<>> ELSE <<k>>
  <2>1. Picked(g, {}) = <<>>
    BY NothingPicked
  <2>2. Picked(g, {p + 1}) = <<k>>
    BY <1>2, <1>10, OnePicked
  <2>3. QED
    BY <2>1, <2>2
<1>14. QED
  BY <1>6, <1>11, <1>12, <1>13 DEF B, P, Q, k

-----------------------------------------------------------------------------
(* The states.                                                             *)

Counters == {"frames_seen", "frames_matched", "crc_bad", "short"}

\* What is carried is what follows the last flag or reset(), and what waits to be
\* examined are frames of the stream.
FilterIInv ==
    /\ stream \in Streams /\ pos \in 0 .. Len(stream) /\ cuts \in SUBSET (0 .. pos)
    /\ finished \in BOOLEAN /\ stats \in [Counters -> Nat]
    /\ queue \in Seq(Seq(ToSet(stream))) /\ yielded \in Seq(Seq(ToSet(stream)))
    /\ carry = IF finished THEN <<>> ELSE Carried(stream, cuts, pos)
    /\ \A k \in 1 .. Len(queue) : FrameOf(queue[k], stream)

LEMMA StreamType ==
    ASSUME NEW z \in Streams
    PROVE  z \in Seq(ToSet(z)) /\ Len(z) \in Nat
  BY FilterAssumption, LenProperties DEF FilterAssumption

LEMMA StreamFramesAre ==
    StreamFrames = FramesAt(stream, StartsTo(stream, cuts, pos),
                            FlagsTo(stream, pos) \cup (IF finished THEN {pos + 1} ELSE {}))
  BY DEF StreamFrames, StartsTo, FlagsTo

LEMMA StreamFramesType ==
    ASSUME FilterIInv
    PROVE  /\ StreamFrames \in Seq(Seq(ToSet(stream)))
           /\ \A k \in 1 .. Len(StreamFrames) : FrameOf(StreamFrames[k], stream)
<1>1. stream \in Seq(ToSet(stream)) /\ pos \in 0 .. Len(stream) /\ cuts \in SUBSET (0 .. pos)
  BY StreamType DEF FilterIInv
<1> DEFINE last == IF finished THEN {pos + 1} ELSE {}
<1>2. last \in SUBSET {pos + 1}
  OBVIOUS
<1>3. StreamFrames = FramesAt(stream, StartsTo(stream, cuts, pos), FlagsTo(stream, pos) \cup last)
  BY StreamFramesAre
<1> HIDE DEF last
<1>4. Bounds(stream, StartsTo(stream, cuts, pos), FlagsTo(stream, pos) \cup last)
  BY <1>1, <1>2, StreamBounds
<1>5. QED
  BY <1>1, <1>3, <1>4, FramesType

LEMMA CountedType ==
    ASSUME NEW st \in [Counters -> Nat], NEW c \in Counters, NEW n \in Nat
    PROVE  [st EXCEPT ![c] = @ + n] \in [Counters -> Nat]
<1>1. st[c] + n \in Nat
  OBVIOUS
<1>2. QED
  BY <1>1

LEMMA FilterInitHolds ==
    ASSUME FilterInit
    PROVE  FilterIInv /\ StreamFrames = <<>>
<1>1. stream \in Streams /\ pos = 0 /\ carry = <<>> /\ queue = <<>> /\ yielded = <<>>
      /\ cuts = {} /\ finished = FALSE /\ stats \in [Counters -> Nat]
  BY DEF FilterInit, Counters
<1>2. stream \in Seq(ToSet(stream)) /\ Len(stream) \in Nat
  BY <1>1, StreamType
<1>3. pos \in 0 .. Len(stream) /\ cuts \in SUBSET (0 .. pos)
  BY <1>1, <1>2
<1>4. 0 \in StartsTo(stream, cuts, pos)
  BY DEF StartsTo
<1>5. Carried(stream, cuts, pos) = <<>>
  BY <1>1, <1>2, <1>3, <1>4, CarriedIs
<1>6. queue \in Seq(Seq(ToSet(stream))) /\ yielded \in Seq(Seq(ToSet(stream))) /\ Len(queue) = 0
  BY <1>1, EmptySeq
<1>7. FilterIInv
  <2>1. \A k \in 1 .. Len(queue) : FrameOf(queue[k], stream)
    BY <1>6
  <2>2. finished \in BOOLEAN /\ carry = IF finished THEN <<>> ELSE Carried(stream, cuts, pos)
    BY <1>1, <1>5
  <2>3. QED
    BY <1>1, <1>3, <1>6, <2>1, <2>2 DEF FilterIInv
<1>8. FlagsTo(stream, pos) = {}
  BY <1>1 DEF FlagsTo
<1>9. FlagsTo(stream, pos) \cup (IF finished THEN {pos + 1} ELSE {}) = {}
  BY <1>1, <1>8
<1>10. StreamFrames = FramesAt(stream, StartsTo(stream, cuts, pos), {})
  BY <1>9, StreamFramesAre
<1>11. Full(StartsTo(stream, cuts, pos), {}) = {}
  BY DEF Full
<1>12. PICK f : f = [e \in {} |-> 0]
  OBVIOUS
<1>13. FramesAt(stream, StartsTo(stream, cuts, pos), {}) = Picked(f, {})
  <2>1. {} \in SUBSET Int /\ IsFiniteSet({})
    BY FS_EmptySet
  <2>2. \A e \in {} : f[e] = Piece(stream, StartsTo(stream, cuts, pos), e)
    OBVIOUS
  <2>3. QED
    BY <1>11, <2>1, <2>2, FramesAre
<1>14. QED
  BY <1>7, <1>10, <1>13, NothingPicked

\* The chunk of feed(): its frames are the next frames of the stream.
LEMMA FeedIs ==
    ASSUME FilterIInv, NEW n \in ChunkSizes, Feed(n)
    PROVE  /\ FilterIInv' /\ StreamFrames' = StreamFrames \o queue'
           /\ queue = <<>> /\ queue' \in Seq(Seq(ToSet(stream)))
           /\ stats' = [stats EXCEPT !.frames_seen = @ + Len(queue')]
           /\ UNCHANGED <<stream, yielded, cuts>>
<1> DEFINE s == carry \o SubSeq(stream, pos + 1, pos + n)
           F == FramesAt(s, {0} \cup Flags(s), Flags(s))
           q == pos + n
           T == ToSet(stream)
<1>1. /\ queue = <<>> /\ ~finished /\ q <= Len(stream)
      /\ pos' = q
      /\ carry' = SubSeq(s, LastBefore({0} \cup Flags(s), Len(s) + 1) + 1, Len(s))
      /\ queue' = F
      /\ stats' = [stats EXCEPT !.frames_seen = @ + Len(F)]
      /\ stream' = stream /\ yielded' = yielded /\ cuts' = cuts /\ finished' = finished
  BY DEF Feed
<1>2. /\ stream \in Streams /\ pos \in 0 .. Len(stream) /\ cuts \in SUBSET (0 .. pos)
      /\ stats \in [Counters -> Nat] /\ yielded \in Seq(Seq(T))
      /\ carry = Carried(stream, cuts, pos)
  BY <1>1 DEF FilterIInv
<1>3. /\ stream \in Seq(T) /\ Len(stream) \in Nat /\ pos \in Nat /\ n \in Nat
      /\ q \in Nat /\ pos <= q /\ q <= Len(stream) /\ q \in 0 .. Len(stream)
  <2>1. stream \in Seq(T) /\ Len(stream) \in Nat
    BY <1>2, StreamType
  <2>2. n \in Nat
    BY FilterAssumption DEF FilterAssumption
  <2>3. QED
    BY <1>1, <1>2, <2>1, <2>2
<1> HIDE DEF q, T, F
<1>4. s = Rest(stream, cuts, pos, q)
  <2> DEFINE c == LastBefore(StartsTo(stream, cuts, pos), pos + 1)
  <2>1. c \in 0 .. pos
    BY <1>2, <1>3, StartsType
  <2> HIDE DEF c
  <2>2. /\ c + 1 \in 1 .. Len(stream) + 1 /\ pos \in (c + 1) - 1 .. Len(stream)
        /\ q \in pos .. Len(stream)
    BY <1>2, <1>3, <2>1
  <2>3. SubSeq(stream, c + 1, pos) \o SubSeq(stream, pos + 1, q) = SubSeq(stream, c + 1, q)
    BY <1>3, <2>2, ConcatAdjacentSubSeq
  <2>4. QED
    BY <1>2, <2>3 DEF Rest, Carried, c, q
<1> HIDE DEF s
<1>5. s \in Seq(T)
  <2>1. PICK c : c = LastBefore(StartsTo(stream, cuts, pos), pos + 1)
    OBVIOUS
  <2>2. QED
    BY <1>2, <1>3, <1>4, <2>1, LocalView
<1>6. /\ FramesAt(stream, StartsTo(stream, cuts, q), FlagsTo(stream, q)) =
           FramesAt(stream, StartsTo(stream, cuts, pos), FlagsTo(stream, pos)) \o F
      /\ carry' = Carried(stream, cuts, q)
  <2>1. Grown(stream, cuts, pos, q, s)
    BY <1>2, <1>3, <1>4, FramesGrow
  <2>2. QED
    BY <1>1, <2>1 DEF Grown, F
<1>7. F \in Seq(Seq(T))
  BY <1>5, LocalBounds, FramesType DEF F
<1>8. StreamFrames = FramesAt(stream, StartsTo(stream, cuts, pos), FlagsTo(stream, pos))
  BY <1>1, StreamFramesAre
<1>9. StreamFrames' = FramesAt(stream, StartsTo(stream, cuts, q), FlagsTo(stream, q))
  BY <1>1 DEF StreamFrames, StartsTo, FlagsTo
<1>10. StreamFrames' = StreamFrames \o F
  BY <1>6, <1>8, <1>9
<1>11. \A k \in 1 .. Len(F) : FrameOf(F[k], stream)
  <2> DEFINE X == StreamFrames
  <2>1. X \in Seq(Seq(T))
    BY StreamFramesType DEF T
  <2>2. PICK Y : Y = X \o F
    OBVIOUS
  <2>3. /\ Y = FramesAt(stream, StartsTo(stream, cuts, q), FlagsTo(stream, q))
    BY <1>9, <1>10, <2>2
  <2>4. Bounds(stream, StartsTo(stream, cuts, q), FlagsTo(stream, q) \cup {})
    <3>1. cuts \in SUBSET (0 .. q)
      BY <1>2, <1>3
    <3>2. {} \in SUBSET {q + 1}
      OBVIOUS
    <3>3. QED
      BY <1>3, <3>1, <3>2, StreamBounds
  <2>5. FlagsTo(stream, q) \cup {} = FlagsTo(stream, q)
    OBVIOUS
  <2>6. \A k \in 1 .. Len(Y) : FrameOf(Y[k], stream)
    BY <1>3, <2>3, <2>4, <2>5, FramesType
  <2> HIDE DEF X
  <2>7. /\ Len(X) \in Nat /\ Len(F) \in Nat /\ Len(Y) = Len(X) + Len(F)
        /\ \A i \in 1 .. Len(X) + Len(F) : Y[i] = IF i <= Len(X) THEN X[i] ELSE F[i - Len(X)]
    BY <1>7, <2>1, <2>2, ConcatProperties, LenProperties
  <2>8. ASSUME NEW k \in 1 .. Len(F) PROVE FrameOf(F[k], stream)
    <3>1. Len(X) + k \in 1 .. Len(Y) /\ ~(Len(X) + k <= Len(X)) /\ (Len(X) + k) - Len(X) = k
      BY <2>7
    <3>2. Y[Len(X) + k] = F[k]
      BY <2>7, <3>1
    <3>3. QED
      BY <2>6, <3>1, <3>2
  <2>9. QED
    BY <2>8
<1>12. stats' \in [Counters -> Nat]
  <2>1. Len(F) \in Nat
    BY <1>7, LenProperties
  <2>2. "frames_seen" \in Counters
    BY DEF Counters
  <2>3. QED
    BY <1>1, <1>2, <2>1, <2>2, CountedType
<1>13. FilterIInv'
  <2>1. ToSet(stream') = T
    BY <1>1 DEF T
  <2>2. cuts \in SUBSET (0 .. q)
    BY <1>2, <1>3
  <2>3. /\ stream' \in Streams /\ pos' \in 0 .. Len(stream') /\ cuts' \in SUBSET (0 .. pos')
        /\ finished' = FALSE
    BY <1>1, <1>2, <1>3, <2>2 DEF FilterIInv
  <2>4. queue' \in Seq(Seq(ToSet(stream'))) /\ yielded' \in Seq(Seq(ToSet(stream')))
    BY <1>1, <1>2, <1>7, <2>1
  <2>5. carry' = Carried(stream', cuts', pos')
    BY <1>1, <1>6
  <2>6. \A k \in 1 .. Len(queue') : FrameOf(queue'[k], stream')
    BY <1>1, <1>11
  <2>7. QED
    BY <1>12, <2>3, <2>4, <2>5, <2>6 DEF FilterIInv
<1>14. QED
  BY <1>1, <1>7, <1>10, <1>13 DEF T

LEMMA FinishIs ==
    ASSUME FilterIInv, Finish
    PROVE  /\ FilterIInv' /\ StreamFrames' = StreamFrames \o queue'
           /\ queue = <<>> /\ queue' \in Seq(Seq(ToSet(stream)))
           /\ stats' = [stats EXCEPT !.frames_seen = @ + Len(queue')]
           /\ UNCHANGED <<stream, yielded, cuts>>
<1> DEFINE T == ToSet(stream)
           F == IF carry = <<>> THEN <<>> ELSE <<carry>>
<1>1. /\ queue = <<>> /\ ~finished /\ finished' = TRUE /\ carry' = <<>>
      /\ queue' = F
      /\ stats' = [stats EXCEPT !.frames_seen = @ + Len(queue')]
      /\ stream' = stream /\ pos' = pos /\ yielded' = yielded /\ cuts' = cuts
  BY DEF Finish
<1>2. /\ stream \in Streams /\ pos \in 0 .. Len(stream) /\ cuts \in SUBSET (0 .. pos)
      /\ stats \in [Counters -> Nat] /\ yielded \in Seq(Seq(T))
      /\ carry = Carried(stream, cuts, pos)
  BY <1>1 DEF FilterIInv
<1>3. stream \in Seq(T) /\ Len(stream) \in Nat
  BY <1>2, StreamType
<1> HIDE DEF T
<1>4. carry \in Seq(T)
  BY <1>2, <1>3, CarriedIs
<1>5. F \in Seq(Seq(T)) /\ Len(F) \in Nat
  <2>1. <<>> \in Seq(Seq(T)) /\ <<carry>> \in Seq(Seq(T))
    BY <1>4
  <2>2. F \in Seq(Seq(T))
    BY <2>1
  <2> HIDE DEF F
  <2>3. QED
    BY <2>2, LenProperties
<1>6. FramesAt(stream, StartsTo(stream, cuts, pos), FlagsTo(stream, pos) \cup {pos + 1}) =
        FramesAt(stream, StartsTo(stream, cuts, pos), FlagsTo(stream, pos)) \o F
  BY <1>2, <1>3, FramesEnd
<1>7. StreamFrames = FramesAt(stream, StartsTo(stream, cuts, pos), FlagsTo(stream, pos))
  BY <1>1, StreamFramesAre
<1>8. StreamFrames' = FramesAt(stream, StartsTo(stream, cuts, pos),
                               FlagsTo(stream, pos) \cup {pos + 1})
  BY <1>1 DEF StreamFrames, StartsTo, FlagsTo
<1>9. StreamFrames' = StreamFrames \o F
  BY <1>6, <1>7, <1>8
<1>10. carry # <<>> => FrameOf(carry, stream)
  <2> DEFINE X == StreamFrames
  <2>1. ASSUME carry # <<>> PROVE FrameOf(carry, stream)
    <3>1. X \in Seq(Seq(T))
      BY StreamFramesType DEF T
    <3>2. PICK Y : Y = X \o F
      OBVIOUS
    <3>3. Y = FramesAt(stream, StartsTo(stream, cuts, pos), FlagsTo(stream, pos) \cup {pos + 1})
      BY <1>8, <1>9, <3>2
    <3>4. Bounds(stream, StartsTo(stream, cuts, pos), FlagsTo(stream, pos) \cup {pos + 1})
      <4>1. {pos + 1} \in SUBSET {pos + 1}
        OBVIOUS
      <4>2. QED
        BY <1>2, <1>3, <4>1, StreamBounds
    <3>5. \A k \in 1 .. Len(Y) : FrameOf(Y[k], stream)
      BY <1>3, <3>3, <3>4, FramesType
    <3>6. F = <<carry>>
      BY <2>1
    <3> HIDE DEF X, F
    <3>7. /\ Len(X) \in Nat /\ Len(F) = 1 /\ Len(Y) = Len(X) + Len(F) /\ F[1] = carry
          /\ \A i \in 1 .. Len(X) + Len(F) : Y[i] = IF i <= Len(X) THEN X[i] ELSE F[i - Len(X)]
      <4>1. Len(F) = 1 /\ F[1] = carry
        BY <3>6
      <4>2. QED
        BY <1>5, <3>1, <3>2, <4>1, ConcatProperties, LenProperties
    <3>8. Len(X) + 1 \in 1 .. Len(X) + Len(F) /\ ~(Len(X) + 1 <= Len(X)) /\ (Len(X) + 1) - Len(X) = 1
      BY <3>7
    <3>9. Y[Len(X) + 1] = carry
      BY <3>7, <3>8
    <3>10. QED
      BY <3>5, <3>7, <3>8, <3>9
  <2>2. QED
    BY <2>1
<1>11. \A k \in 1 .. Len(F) : FrameOf(F[k], stream)
  <2>1. CASE carry = <<>>
    <3>1. F = <<>>
      BY <2>1
    <3>2. Len(F) = 0
      BY <3>1
    <3>3. QED
      BY <3>2
  <2>2. CASE carry # <<>>
    <3>1. F = <<carry>>
      BY <2>2
    <3>2. Len(F) = 1 /\ F[1] = carry
      BY <3>1
    <3> HIDE DEF F
    <3>3. QED
      BY <1>10, <2>2, <3>2
  <2>3. QED
    BY <2>1, <2>2
<1> HIDE DEF F
<1>12. stats' \in [Counters -> Nat]
  <2>1. "frames_seen" \in Counters
    BY DEF Counters
  <2>2. stats' = [stats EXCEPT !["frames_seen"] = @ + Len(F)]
    BY <1>1
  <2>3. QED
    BY <1>2, <1>5, <2>1, <2>2, CountedType
<1>13. FilterIInv'
  <2>1. ToSet(stream') = T
    BY <1>1 DEF T
  <2>2. queue' \in Seq(Seq(ToSet(stream'))) /\ yielded' \in Seq(Seq(ToSet(stream')))
    BY <1>1, <1>2, <1>5, <2>1
  <2>3. \A k \in 1 .. Len(queue') : FrameOf(queue'[k], stream')
    BY <1>1, <1>11
  <2>4. QED
    BY <1>1, <1>2, <1>12, <2>2, <2>3 DEF FilterIInv
<1>14. QED
  BY <1>1, <1>5, <1>9, <1>13 DEF T

LEMMA ResetIs ==
    ASSUME FilterIInv, Reset
    PROVE  /\ FilterIInv' /\ StreamFrames' = StreamFrames
           /\ stats' = IF pos \in StartsTo(stream, cuts, pos) THEN stats
                       ELSE [stats EXCEPT !.short = @ + 1]
           /\ cuts' = cuts \cup {pos} /\ ~finished
           /\ UNCHANGED <<stream, pos, queue, yielded>>
<1>1. /\ ~finished /\ carry' = <<>> /\ cuts' = cuts \cup {pos}
      /\ stats' = IF carry = <<>> THEN stats ELSE [stats EXCEPT !.short = @ + 1]
      /\ stream' = stream /\ pos' = pos /\ queue' = queue /\ yielded' = yielded
      /\ finished' = finished
  BY DEF Reset
<1>2. /\ stream \in Streams /\ pos \in 0 .. Len(stream) /\ cuts \in SUBSET (0 .. pos)
      /\ stats \in [Counters -> Nat] /\ carry = Carried(stream, cuts, pos)
  BY <1>1 DEF FilterIInv
<1>3. stream \in Seq(ToSet(stream)) /\ Len(stream) \in Nat
  BY <1>2, StreamType
<1>4. carry = <<>> <=> pos \in StartsTo(stream, cuts, pos)
  BY <1>2, <1>3, CarriedIs
<1>5. /\ FramesAt(stream, StartsTo(stream, cuts \cup {pos}, pos), FlagsTo(stream, pos)) =
           FramesAt(stream, StartsTo(stream, cuts, pos), FlagsTo(stream, pos))
      /\ Carried(stream, cuts \cup {pos}, pos) = <<>>
  BY <1>2, <1>3, FramesStay
<1>6. StreamFrames = FramesAt(stream, StartsTo(stream, cuts, pos), FlagsTo(stream, pos))
  BY <1>1, StreamFramesAre
<1>7. StreamFrames' = FramesAt(stream, StartsTo(stream, cuts \cup {pos}, pos),
                               FlagsTo(stream, pos))
  BY <1>1 DEF StreamFrames, StartsTo, FlagsTo
<1>8. FilterIInv'
  <2>1. stats' \in [Counters -> Nat]
    BY <1>1, <1>2 DEF Counters
  <2>2. ToSet(stream') = ToSet(stream)
    BY <1>1
  <2>3. cuts' \in SUBSET (0 .. pos')
    <3>1. pos \in 0 .. pos
      BY <1>2, <1>3
    <3>2. QED
      BY <1>1, <1>2, <3>1
  <2>4. carry' = Carried(stream', cuts', pos')
    BY <1>1, <1>5
  <2>5. queue' \in Seq(Seq(ToSet(stream'))) /\ yielded' \in Seq(Seq(ToSet(stream')))
    BY <1>1, <2>2 DEF FilterIInv
  <2>6. \A k \in 1 .. Len(queue') : FrameOf(queue'[k], stream')
    BY <1>1 DEF FilterIInv
  <2>7. QED
    BY <1>1, <1>2, <2>1, <2>3, <2>4, <2>5, <2>6 DEF FilterIInv
<1>9. QED
  BY <1>1, <1>4, <1>5, <1>6, <1>7, <1>8

LEMMA VerdictType == \A esc : Verdict(esc) \in {"rejected", "short", "crc_bad", "frames_matched"}
  BY DEF Verdict

LEMMA ExamineIs ==
    ASSUME FilterIInv, Examine
    PROVE  /\ FilterIInv' /\ StreamFrames' = StreamFrames
           /\ queue \in Seq(Seq(ToSet(stream))) /\ queue # <<>>
           /\ Head(queue) \in Seq(ToSet(stream)) /\ FrameOf(Head(queue), stream)
           /\ queue' = Tail(queue)
           /\ stats' = IF Verdict(Head(queue)) = "rejected" THEN stats
                       ELSE [stats EXCEPT ![Verdict(Head(queue))] = @ + 1]
           /\ yielded' = IF Verdict(Head(queue)) = "frames_matched"
                           THEN Append(yielded, Head(queue)) ELSE yielded
           /\ UNCHANGED <<stream, pos, cuts>>
<1> DEFINE h == Head(queue)
           v == Verdict(h)
           T == ToSet(stream)
<1>1. /\ queue # <<>> /\ queue' = Tail(queue)
      /\ stats' = IF v = "rejected" THEN stats ELSE [stats EXCEPT ![v] = @ + 1]
      /\ yielded' = IF v = "frames_matched" THEN Append(yielded, h) ELSE yielded
      /\ stream' = stream /\ pos' = pos /\ carry' = carry /\ cuts' = cuts /\ finished' = finished
  BY DEF Examine
<1>2. /\ stats \in [Counters -> Nat] /\ queue \in Seq(Seq(T)) /\ yielded \in Seq(Seq(T))
      /\ \A k \in 1 .. Len(queue) : FrameOf(queue[k], stream)
  BY DEF FilterIInv
<1>3. v \in {"rejected", "short", "crc_bad", "frames_matched"}
  BY VerdictType
<1> HIDE DEF T, v
<1>4. /\ Len(queue) \in Nat \ {0} /\ h = queue[1] /\ h \in Seq(T)
      /\ Tail(queue) \in Seq(Seq(T)) /\ Len(Tail(queue)) = Len(queue) - 1
      /\ \A i \in 1 .. Len(Tail(queue)) : Tail(queue)[i] = queue[i + 1]
  <2>1. Len(queue) \in Nat \ {0}
    BY <1>1, <1>2, EmptySeq
  <2>2. h = queue[1]
    OBVIOUS
  <2>3. QED
    BY <1>1, <1>2, <2>1, <2>2, HeadTailProperties
<1>5. FrameOf(h, stream)
  <2>1. 1 \in 1 .. Len(queue)
    BY <1>4
  <2>2. QED
    BY <1>2, <1>4, <2>1
<1>6. \A k \in 1 .. Len(Tail(queue)) : FrameOf(Tail(queue)[k], stream)
  <2>1. ASSUME NEW k \in 1 .. Len(Tail(queue)) PROVE FrameOf(Tail(queue)[k], stream)
    <3>1. k + 1 \in 1 .. Len(queue)
      BY <1>4
    <3>2. QED
      BY <1>2, <1>4, <3>1
  <2>2. QED
    BY <2>1
<1>7. stats' \in [Counters -> Nat]
  <2>1. v # "rejected" => v \in Counters
    BY <1>3 DEF Counters
  <2>2. v # "rejected" => [stats EXCEPT ![v] = @ + 1] \in [Counters -> Nat]
    BY <1>2, <2>1, CountedType, 1 \in Nat
  <2>3. QED
    BY <1>1, <1>2, <2>2
<1> HIDE DEF h
<1>8. yielded' \in Seq(Seq(T))
  BY <1>1, <1>2, <1>4, AppendProperties
<1>9. FilterIInv'
  <2>1. ToSet(stream') = T
    BY <1>1 DEF T
  <2>2. queue' \in Seq(Seq(ToSet(stream'))) /\ yielded' \in Seq(Seq(ToSet(stream')))
    BY <1>1, <1>4, <1>8, <2>1
  <2>3. \A k \in 1 .. Len(queue') : FrameOf(queue'[k], stream')
    BY <1>1, <1>6
  <2>4. /\ stream' \in Streams /\ pos' \in 0 .. Len(stream') /\ cuts' \in SUBSET (0 .. pos')
        /\ finished' \in BOOLEAN
        /\ carry' = IF finished' THEN <<>> ELSE Carried(stream', cuts', pos')
    BY <1>1 DEF FilterIInv
  <2>5. QED
    BY <1>7, <2>2, <2>3, <2>4 DEF FilterIInv
<1>10. StreamFrames' = StreamFrames
  BY <1>1 DEF StreamFrames
<1>11. QED
  BY <1>1, <1>2, <1>4, <1>5, <1>9, <1>10 DEF T, h, v

LEMMA FilterStutters ==
    ASSUME FilterIInv, UNCHANGED filterVars
    PROVE  /\ FilterIInv' /\ StreamFrames' = StreamFrames
           /\ UNCHANGED <<stream, pos, queue, yielded, stats, cuts>>
<1>1. /\ stream' = stream /\ pos' = pos /\ carry' = carry /\ queue' = queue
      /\ yielded' = yielded /\ stats' = stats /\ cuts' = cuts /\ finished' = finished
  BY DEF filterVars
<1>2. FilterIInv'
  BY <1>1 DEF FilterIInv
<1>3. StreamFrames' = StreamFrames
  BY <1>1 DEF StreamFrames
<1>4. QED
  BY <1>1, <1>2, <1>3

\* The steps of the filter: whatever they do, the invariant stays.
LEMMA FilterIInvStep == FilterIInv /\ [FilterNext]_filterVars => FilterIInv'
<1> SUFFICES ASSUME FilterIInv, [FilterNext]_filterVars
             PROVE  FilterIInv'
  OBVIOUS
<1>1. CASE \E n \in ChunkSizes : Feed(n)
  BY <1>1, FeedIs
<1>2. CASE Examine
  BY <1>2, ExamineIs
<1>3. CASE Reset
  BY <1>3, ResetIs
<1>4. CASE Finish
  BY <1>4, FinishIs
<1>5. CASE Done \/ UNCHANGED filterVars
  <2>1. UNCHANGED filterVars
    BY <1>5 DEF Done
  <2>2. QED
    BY <2>1, FilterStutters
<1>6. QED
  BY <1>1, <1>2, <1>3, <1>4, <1>5 DEF FilterNext

LEMMA FilterInitIInv == FilterInit => FilterIInv
  BY FilterInitHolds

LEMMA FilterIInvHolds == FilterSpec => []FilterIInv
<1>1. QED
  BY FilterInitIInv, FilterIInvStep, PTL DEF FilterSpec

LEMMA IInvGivesType == FilterIInv => FilterTypeOK
<1> SUFFICES ASSUME FilterIInv
             PROVE  FilterTypeOK
  OBVIOUS
<1>1. stream \in Seq(ToSet(stream)) /\ Len(stream) \in Nat
  BY StreamType DEF FilterIInv
<1>2. \A i \in 1 .. Len(carry) : carry[i] # Flag
  <2>1. CASE finished
    <3>1. carry = <<>> /\ Len(<<>>) = 0
      BY <2>1 DEF FilterIInv
    <3>2. QED
      BY <3>1
  <2>2. CASE ~finished
    <3>1. carry = Carried(stream, cuts, pos)
      BY <2>2 DEF FilterIInv
    <3>2. QED
      BY <1>1, <3>1, CarriedIs DEF FilterIInv
  <2>3. QED
    BY <2>1, <2>2
<1>3. \A k \in 1 .. Len(queue) : queue[k] # <<>>
  <2>1. ASSUME NEW k \in 1 .. Len(queue), queue[k] = <<>> PROVE FALSE
    <3>1. PICK i \in 1 .. Len(stream) : \E j \in i .. Len(stream) : <<>> = SubSeq(stream, i, j)
      BY <2>1 DEF FilterIInv, FrameOf
    <3>2. PICK j \in i .. Len(stream) : <<>> = SubSeq(stream, i, j)
      BY <3>1
    <3>3. i \in Int /\ j \in Int /\ i <= j /\ \A m \in i .. j : m \in 1 .. Len(stream)
      BY <1>1
    <3>4. \A m \in i .. j : stream[m] \in ToSet(stream)
      BY <1>1, <3>3, ElementOfSeq
    <3>5. Len(SubSeq(stream, i, j)) = j - i + 1
      BY <3>3, <3>4, SubSeqProperties
    <3>6. Len(<<>>) = 0
      OBVIOUS
    <3>7. QED
      BY <3>2, <3>3, <3>5, <3>6
  <2>2. QED
    BY <2>1
<1>4. QED
  BY <1>2, <1>3 DEF FilterTypeOK, FilterIInv, Counters

-----------------------------------------------------------------------------
(* The counts.                                                             *)

LEMMA DiscardsFinite ==
    ASSUME FilterIInv
    PROVE  IsFiniteSet(Discards) /\ Cardinality(Discards) \in Nat
<1>1. pos \in Nat /\ cuts \in SUBSET (0 .. pos)
  BY StreamType DEF FilterIInv
<1>2. IsFiniteSet(0 .. pos)
  BY <1>1, FS_Interval
<1>3. Discards \in SUBSET (0 .. pos)
  BY <1>1 DEF Discards
<1>4. IsFiniteSet(Discards)
  BY <1>2, <1>3, FS_Subset
<1>5. QED
  BY <1>4, FS_CardinalityType

LEMMA Counted ==
    ASSUME FilterIInv
    PROVE  /\ stats \in [Counters -> Nat] /\ Len(queue) \in Nat /\ Len(yielded) \in Nat
           /\ stats["frames_seen"] \in Nat /\ stats["frames_matched"] \in Nat
           /\ stats["crc_bad"] \in Nat /\ stats["short"] \in Nat
           /\ Len(StreamFrames) \in Nat /\ Cardinality(Discards) \in Nat
<1>1. stats \in [Counters -> Nat] /\ Len(queue) \in Nat /\ Len(yielded) \in Nat
  BY LenProperties DEF FilterIInv
<1>2. Len(StreamFrames) \in Nat
  BY StreamFramesType, LenProperties
<1>3. QED
  BY <1>1, <1>2, DiscardsFinite DEF Counters

\* feed() and finish() see as many frames as they queue.
LEMMA CountsGrow ==
    ASSUME FilterIInv, CountsAddUp, FilterIInv',
           StreamFrames' = StreamFrames \o queue',
           queue = <<>>, queue' \in Seq(Seq(ToSet(stream))),
           stats' = [stats EXCEPT !.frames_seen = @ + Len(queue')],
           UNCHANGED <<stream, yielded, cuts>>
    PROVE  CountsAddUp'
<1>1. PICK n : n = Len(queue')
  OBVIOUS
<1>2. n \in Nat
  BY <1>1, LenProperties
<1>3. Len(StreamFrames') = Len(StreamFrames) + n
  <2>1. PICK X, Y : X = StreamFrames /\ Y = queue'
    OBVIOUS
  <2>2. X \in Seq(Seq(ToSet(stream)))
    BY <2>1, StreamFramesType
  <2>3. Len(X \o Y) = Len(X) + Len(Y)
    BY <2>1, <2>2, ConcatProperties
  <2>4. QED
    BY <1>1, <2>1, <2>3
<1>4. Discards' = Discards /\ yielded' = yielded /\ Len(queue) = 0
  BY DEF Discards
<1>5. /\ stats'["frames_seen"] = stats["frames_seen"] + n
      /\ stats'["frames_matched"] = stats["frames_matched"]
      /\ stats'["crc_bad"] = stats["crc_bad"] /\ stats'["short"] = stats["short"]
  BY <1>1, Counted DEF Counters
<1>6. /\ stats["frames_seen"] = Len(StreamFrames)
      /\ stats["frames_matched"] = Len(yielded)
      /\ stats["short"] >= Cardinality(Discards)
      /\ stats["frames_matched"] + stats["crc_bad"] + stats["short"] + Len(queue)
            <= stats["frames_seen"] + Cardinality(Discards)
  BY DEF CountsAddUp
<1>7. /\ stats'["frames_seen"] = Len(StreamFrames')
      /\ stats'["frames_matched"] = Len(yielded')
      /\ stats'["short"] >= Cardinality(Discards')
      /\ stats'["frames_matched"] + stats'["crc_bad"] + stats'["short"] + Len(queue')
            <= stats'["frames_seen"] + Cardinality(Discards')
  <2>1. PICK a, b, c, d, k : /\ a = stats["frames_seen"] /\ b = stats["frames_matched"]
                             /\ c = stats["crc_bad"] /\ d = stats["short"]
                             /\ k = Cardinality(Discards)
    OBVIOUS
  <2>2. a \in Nat /\ b \in Nat /\ c \in Nat /\ d \in Nat /\ k \in Nat
    BY <2>1, Counted
  <2>3. b + c + d + 0 <= a + k
    BY <1>4, <1>6, <2>1
  <2>4. b + c + d + n <= (a + n) + k
    BY <1>2, <2>2, <2>3
  <2>5. QED
    BY <1>1, <1>3, <1>4, <1>5, <1>6, <2>1, <2>4
<1>8. QED
  BY <1>7 DEF CountsAddUp

LEMMA CountsStep == FilterIInv /\ CountsAddUp /\ [FilterNext]_filterVars => CountsAddUp'
<1> SUFFICES ASSUME FilterIInv, CountsAddUp, [FilterNext]_filterVars
             PROVE  CountsAddUp'
  OBVIOUS
<1>1. /\ stats["frames_seen"] = Len(StreamFrames)
      /\ stats["frames_matched"] = Len(yielded)
      /\ stats["short"] >= Cardinality(Discards)
      /\ stats["frames_matched"] + stats["crc_bad"] + stats["short"] + Len(queue)
            <= stats["frames_seen"] + Cardinality(Discards)
  BY DEF CountsAddUp
<1>2. PICK a, b, c, d, k, m :
         /\ a = stats["frames_seen"] /\ b = stats["frames_matched"]
         /\ c = stats["crc_bad"] /\ d = stats["short"]
         /\ k = Cardinality(Discards) /\ m = Len(queue)
  OBVIOUS
<1>3. a \in Nat /\ b \in Nat /\ c \in Nat /\ d \in Nat /\ k \in Nat /\ m \in Nat
  BY <1>2, Counted
<1>4. d >= k /\ b + c + d + m <= a + k /\ b = Len(yielded) /\ a = Len(StreamFrames)
  BY <1>1, <1>2
<1>5. CASE \E n \in ChunkSizes : Feed(n)
  BY <1>5, FeedIs, CountsGrow
<1>6. CASE Examine
  <2> DEFINE v == Verdict(Head(queue))
  <2>1. /\ StreamFrames' = StreamFrames /\ queue # <<>> /\ queue' = Tail(queue)
        /\ queue \in Seq(Seq(ToSet(stream))) /\ Head(queue) \in Seq(ToSet(stream))
        /\ stats' = IF v = "rejected" THEN stats ELSE [stats EXCEPT ![v] = @ + 1]
        /\ yielded' = IF v = "frames_matched" THEN Append(yielded, Head(queue)) ELSE yielded
        /\ stream' = stream /\ cuts' = cuts
    BY <1>6, ExamineIs
  <2>2. v \in {"rejected", "short", "crc_bad", "frames_matched"}
    BY VerdictType
  <2>3. Len(queue') = m - 1 /\ m >= 1
    <3>1. Len(Tail(queue)) = Len(queue) - 1 /\ Len(queue) \in Nat \ {0}
      BY <2>1, EmptySeq, HeadTailProperties
    <3>2. QED
      BY <1>2, <2>1, <3>1
  <2>4. Discards' = Discards
    BY <2>1 DEF Discards
  <2>5. Len(Append(yielded, Head(queue))) = b + 1
    <3>1. yielded \in Seq(Seq(ToSet(stream)))
      BY DEF FilterIInv
    <3>2. QED
      BY <1>4, <2>1, <3>1, AppendProperties
  <2> HIDE DEF v
  <2>6. /\ stats'["frames_seen"] = a
        /\ stats'["frames_matched"] = IF v = "frames_matched" THEN b + 1 ELSE b
        /\ stats'["crc_bad"] = IF v = "crc_bad" THEN c + 1 ELSE c
        /\ stats'["short"] = IF v = "short" THEN d + 1 ELSE d
    BY <1>2, <2>1, <2>2, Counted DEF Counters
  <2>7. Len(yielded') = IF v = "frames_matched" THEN b + 1 ELSE b
    BY <1>4, <2>1, <2>5
  <2>8. PICK b2, c2, d2 : /\ b2 = stats'["frames_matched"] /\ c2 = stats'["crc_bad"]
                          /\ d2 = stats'["short"]
    OBVIOUS
  <2>9. d2 >= k /\ b2 + c2 + d2 + (m - 1) <= a + k
    <3>1. \/ b2 = b + 1 /\ c2 = c /\ d2 = d
          \/ b2 = b /\ c2 = c + 1 /\ d2 = d
          \/ b2 = b /\ c2 = c /\ d2 = d + 1
          \/ b2 = b /\ c2 = c /\ d2 = d
      BY <2>2, <2>6, <2>8
    <3>2. QED
      BY <1>3, <1>4, <2>3, <3>1
  <2>10. QED
    BY <1>2, <1>4, <2>1, <2>3, <2>4, <2>6, <2>7, <2>8, <2>9 DEF CountsAddUp
<1>7. CASE Reset
  <2>1. /\ StreamFrames' = StreamFrames /\ stream' = stream /\ queue' = queue
        /\ yielded' = yielded /\ cuts' = cuts \cup {pos} /\ FilterIInv'
        /\ stats' = IF pos \in StartsTo(stream, cuts, pos) THEN stats
                    ELSE [stats EXCEPT !.short = @ + 1]
    BY <1>7, ResetIs
  <2>2. CASE pos \in StartsTo(stream, cuts, pos)
    <3>1. pos = 0 \/ pos \in cuts \/ stream[pos] = Flag
      BY <2>2 DEF StartsTo, FlagsTo
    <3>2. ~(0 > 0)
      OBVIOUS
    <3>3. Discards' = Discards
      BY <2>1, <3>1, <3>2 DEF Discards
    <3>4. QED
      BY <1>1, <2>1, <2>2, <3>3 DEF CountsAddUp
  <2>3. CASE pos \notin StartsTo(stream, cuts, pos)
    <3>1. pos # 0 /\ pos \notin cuts /\ pos \notin FlagsTo(stream, pos) /\ pos \in Nat
      BY <2>3, StreamType DEF StartsTo, FilterIInv
    <3>2. pos > 0 /\ stream[pos] # Flag
      BY <3>1 DEF FlagsTo
    <3>3. Discards' = Discards \cup {pos} /\ pos \notin Discards
      BY <2>1, <3>1, <3>2 DEF Discards
    <3>4. Cardinality(Discards') = k + 1
      <4>1. Cardinality(Discards \cup {pos}) = Cardinality(Discards) + 1
        BY <3>3, DiscardsFinite, FS_AddElement
      <4>2. QED
        BY <1>2, <3>3, <4>1
    <3>5. /\ stats'["frames_seen"] = a /\ stats'["frames_matched"] = b
          /\ stats'["crc_bad"] = c /\ stats'["short"] = d + 1
      BY <1>2, <2>1, <2>3, Counted DEF Counters
    <3>6. d + 1 >= k + 1 /\ b + c + (d + 1) + m <= a + (k + 1)
      BY <1>3, <1>4
    <3>7. QED
      BY <1>2, <1>4, <2>1, <3>4, <3>5, <3>6 DEF CountsAddUp
  <2>4. QED
    BY <2>2, <2>3
<1>8. CASE Finish
  BY <1>8, FinishIs, CountsGrow
<1>9. CASE Done \/ UNCHANGED filterVars
  <2>1. UNCHANGED filterVars
    BY <1>9 DEF Done
  <2>2. /\ StreamFrames' = StreamFrames /\ stats' = stats /\ yielded' = yielded
        /\ queue' = queue /\ stream' = stream /\ cuts' = cuts
    BY <2>1, FilterStutters
  <2>3. Discards' = Discards
    BY <2>2 DEF Discards
  <2>4. QED
    BY <1>1, <2>2, <2>3 DEF CountsAddUp
<1>10. QED
  BY <1>5, <1>6, <1>7, <1>8, <1>9 DEF FilterNext

LEMMA CountsInit == FilterInit => CountsAddUp
<1> SUFFICES ASSUME FilterInit
             PROVE  CountsAddUp
  OBVIOUS
<1>1. StreamFrames = <<>> /\ Len(<<>>) = 0
  BY FilterInitHolds
<1>2. /\ stats.frames_seen = 0 /\ stats.frames_matched = 0 /\ stats.crc_bad = 0
      /\ stats.short = 0 /\ yielded = <<>> /\ queue = <<>> /\ cuts = {}
  BY DEF FilterInit
<1>3. Discards = {}
  BY <1>2 DEF Discards
<1>4. QED
  BY <1>1, <1>2, <1>3, FS_EmptySet DEF CountsAddUp

\* The counts of the report, whatever the chunks and whenever reset() is called:
\* a frame of the stream is seen once, and what is counted as matched, bad or
\* short is a frame seen or one that a reset() discarded.
THEOREM FilterCounts == FilterSpec => []CountsAddUp
<1>1. FilterInit => CountsAddUp
  BY CountsInit
<1>2. FilterIInv /\ CountsAddUp /\ [FilterNext]_filterVars => CountsAddUp'
  BY CountsStep
<1>3. FilterSpec => []FilterIInv
  BY FilterIInvHolds
<1>4. QED
  BY <1>1, <1>2, <1>3, PTL DEF FilterSpec

-----------------------------------------------------------------------------
(* What is yielded.                                                        *)

Yields == yielded \o WantedOf(queue) = WantedOf(StreamFrames)

LEMMA GoodFrames ==
    ASSUME FilterIInv, ValidFraming, NEW f, FrameOf(f, stream)
    PROVE  GoodFrame(f)
<1>1. stream \in Streams
  BY DEF FilterIInv
<1>2. stream \in Seq(ToSet(stream))
  BY <1>1, StreamType
<1>3. \A i \in 1 .. Len(stream) - 1 :
         stream[i] = Esc => stream[i + 1] \in {EscFlag, EscEsc, Flag}
  BY <1>1 DEF ValidFraming
<1>4. QED
  BY <1>2, <1>3, FramesAreGood

\* The frames that feed() and finish() queue are wanted next.
LEMMA YieldsGrow ==
    ASSUME FilterIInv, Yields,
           StreamFrames' = StreamFrames \o queue',
           queue = <<>>, queue' \in Seq(Seq(ToSet(stream))),
           UNCHANGED <<stream, yielded, cuts>>
    PROVE  Yields'
<1>1. PICK X, Y, T : X = StreamFrames /\ Y = queue' /\ T = Seq(ToSet(stream))
  OBVIOUS
<1>2. X \in Seq(T) /\ Y \in Seq(T) /\ yielded \in Seq(T)
  BY <1>1, StreamFramesType DEF FilterIInv
<1>3. WantedOf(X \o Y) = WantedOf(X) \o WantedOf(Y)
  BY <1>2, WantedJoin
<1>4. WantedOf(X) = yielded
  <2>1. yielded \o WantedOf(<<>>) = WantedOf(X)
    BY <1>1 DEF Yields
  <2>2. QED
    BY <1>2, <2>1, WantedOfNone, ConcatEmptySeq
<1>5. yielded' = yielded
  OBVIOUS
<1>6. QED
  BY <1>1, <1>3, <1>4, <1>5 DEF Yields

LEMMA YieldsStep ==
    ValidFraming /\ FilterIInv /\ Yields /\ [FilterNext]_filterVars => Yields'
<1> SUFFICES ASSUME ValidFraming, FilterIInv, Yields, [FilterNext]_filterVars
             PROVE  Yields'
  OBVIOUS
<1>1. CASE \E n \in ChunkSizes : Feed(n)
  BY <1>1, FeedIs, YieldsGrow
<1>2. CASE Examine
  <2>1. PICK h, t, T : h = Head(queue) /\ t = Tail(queue) /\ T = Seq(ToSet(stream))
    OBVIOUS
  <2>2. /\ StreamFrames' = StreamFrames /\ queue \in Seq(T) /\ queue # <<>>
        /\ h \in T /\ FrameOf(h, stream) /\ queue' = t
        /\ yielded' = IF Verdict(h) = "frames_matched" THEN Append(yielded, h) ELSE yielded
    BY <1>2, <2>1, ExamineIs
  <2>3. Verdict(h) = "frames_matched" <=> Wanted(h)
    BY <2>2, GoodFrames, VerdictIs
  <2>4. t \in Seq(T) /\ <<h>> \in Seq(T) /\ yielded \in Seq(T) /\ queue = <<h>> \o t
    <3>1. t \in Seq(T) /\ Len(t) = Len(queue) - 1
          /\ \A i \in 1 .. Len(t) : t[i] = queue[i + 1]
      BY <2>1, <2>2, HeadTailProperties
    <3>2. <<h>> \in Seq(T) /\ Len(<<h>>) = 1 /\ <<h>>[1] = h
      BY <2>2
    <3>3. yielded \in Seq(T)
      BY <2>1 DEF FilterIInv
    <3>4. PICK u : u = <<h>> \o t
      OBVIOUS
    <3>5. PICK w : w = <<h>>
      OBVIOUS
    <3>6. /\ u \in Seq(T) /\ Len(u) = 1 + Len(t)
          /\ \A i \in 1 .. 1 + Len(t) : u[i] = IF i <= 1 THEN w[i] ELSE t[i - 1]
      <4>1. w \in Seq(T) /\ Len(w) = 1 /\ u = w \o t
        BY <3>2, <3>4, <3>5
      <4>2. /\ w \o t \in Seq(T) /\ Len(w \o t) = Len(w) + Len(t)
            /\ \A i \in 1 .. Len(w) + Len(t) :
                  (w \o t)[i] = IF i <= Len(w) THEN w[i] ELSE t[i - Len(w)]
        <5>1. w \in Seq(T) /\ t \in Seq(T)
          BY <3>1, <4>1
        <5>2. QED
          BY <5>1, ConcatProperties
      <4>3. QED
        BY <4>1, <4>2
    <3>7. Len(queue) \in Nat \ {0} /\ queue[1] = h
      BY <2>1, <2>2, EmptySeq
    <3>8. Len(u) = Len(queue)
      BY <3>1, <3>6, <3>7
    <3>9. ASSUME NEW i \in 1 .. Len(queue) PROVE queue[i] = u[i]
      <4>1. i \in 1 .. 1 + Len(t)
        BY <3>1, <3>7
      <4>2. CASE i <= 1
        <5>1. i = 1
          BY <3>7, <4>2
        <5>2. u[i] = w[i]
          BY <3>6, <4>1, <4>2
        <5>3. QED
          BY <3>2, <3>5, <3>7, <5>1, <5>2
      <4>3. CASE ~(i <= 1)
        <5>1. i - 1 \in 1 .. Len(t) /\ (i - 1) + 1 = i
          BY <3>1, <3>7, <4>3
        <5>2. u[i] = t[i - 1]
          BY <3>6, <4>1, <4>3
        <5>3. QED
          BY <3>1, <5>1, <5>2
      <4>4. QED
        BY <4>2, <4>3
    <3>10. queue = u
      BY <2>2, <3>6, <3>8, <3>9, SeqEqual
    <3>11. QED
      BY <3>1, <3>2, <3>3, <3>4, <3>10
  <2>5. WantedOf(queue) = WantedOf(<<h>>) \o WantedOf(t)
    BY <2>4, WantedJoin
  <2>6. WantedOf(t) \in Seq(T)
    BY <2>4, WantedType
  <2>7. yielded \o WantedOf(queue) = WantedOf(StreamFrames)
    BY DEF Yields
  <2>8. yielded' \o WantedOf(t) = WantedOf(StreamFrames)
    <3>1. CASE Wanted(h)
      <4>1. WantedOf(<<h>>) = <<h>> /\ yielded' = yielded \o <<h>>
        <5>1. Append(yielded, h) = yielded \o <<h>>
          BY <2>2, <2>4, AppendIsConcat
        <5>2. QED
          BY <2>2, <2>3, <3>1, <5>1, WantedOfOne
      <4>2. (yielded \o <<h>>) \o WantedOf(t) = yielded \o (<<h>> \o WantedOf(t))
        BY <2>4, <2>6, ConcatAssociative
      <4>3. QED
        BY <2>5, <2>7, <4>1, <4>2
    <3>2. CASE ~Wanted(h)
      <4>1. WantedOf(<<h>>) = <<>> /\ yielded' = yielded
        BY <2>2, <2>3, <3>2, WantedOfOne
      <4>2. <<>> \o WantedOf(t) = WantedOf(t)
        BY <2>6, ConcatEmptySeq
      <4>3. QED
        BY <2>5, <2>7, <4>1, <4>2
    <3>3. QED
      BY <3>1, <3>2
  <2>9. QED
    BY <2>2, <2>8 DEF Yields
<1>3. CASE Reset
  BY <1>3, ResetIs DEF Yields
<1>4. CASE Finish
  BY <1>4, FinishIs, YieldsGrow
<1>5. CASE Done \/ UNCHANGED filterVars
  <2>1. UNCHANGED filterVars
    BY <1>5 DEF Done
  <2>2. StreamFrames' = StreamFrames /\ yielded' = yielded /\ queue' = queue
    BY <2>1, FilterStutters
  <2>3. QED
    BY <2>2 DEF Yields
<1>6. QED
  BY <1>1, <1>2, <1>3, <1>4, <1>5 DEF FilterNext

LEMMA YieldsInit == FilterInit => Yields
<1> SUFFICES ASSUME FilterInit
             PROVE  Yields
  OBVIOUS
<1>1. StreamFrames = <<>> /\ yielded = <<>> /\ queue = <<>>
  BY FilterInitHolds DEF FilterInit
<1>2. <<>> \o <<>> = <<>>
  BY EmptySeq, ConcatEmptySeq
<1>3. QED
  BY <1>1, <1>2, WantedOfNone DEF Yields

\* On every stream of which each Esc begins a pair or is cut off by a flag, cut
\* into any chunks, with reset() at any time: what FrameFilter yields is exactly
\* the wanted frames of the stream as a whole, in order.
THEOREM FilterYieldsTheWanted == ValidFraming => (FilterSpec => []YieldsTheWanted)
<1>1. ASSUME ValidFraming
      PROVE  FilterSpec => []YieldsTheWanted
  <2>1. FilterInit => Yields
    BY YieldsInit
  <2>2. FilterIInv /\ Yields /\ [FilterNext]_filterVars => Yields'
    BY <1>1, YieldsStep
  <2>3. FilterSpec => []FilterIInv
    BY FilterIInvHolds
  <2>4. FilterIInv /\ Yields => YieldsTheWanted
    BY IInvGivesType DEF Yields, YieldsTheWanted
  <2>5. QED
    BY <2>1, <2>2, <2>3, <2>4, PTL DEF FilterSpec
<1>2. QED
  BY <1>1

\* peek() of the first escaped bytes of such a frame is peek() of the whole.
THEOREM FilterPeekIsExact == ValidFraming => (FilterSpec => []PeekIsExact)
<1>1. ASSUME ValidFraming
      PROVE  FilterSpec => []PeekIsExact
  <2>1. FilterIInv => PeekIsExact
    <3> SUFFICES ASSUME FilterIInv, NEW k \in 1 .. Len(queue)
                 PROVE  Peek(queue[k]) = PeekAt(Unescaped(queue[k]))
      BY DEF PeekIsExact
    <3>1. FrameOf(queue[k], stream)
      BY DEF FilterIInv
    <3>2. GoodFrame(queue[k])
      BY <1>1, <3>1, GoodFrames
    <3>3. QED
      BY <3>2, PeekExact
  <2>2. FilterSpec => []FilterIInv
    BY FilterIInvHolds
  <2>3. QED
    BY <2>1, <2>2, PTL
<1>2. QED
  BY <1>1

=============================================================================
