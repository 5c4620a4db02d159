--------------------------- MODULE Selections_proofs ---------------------------
(***************************************************************************)
(* What the operators of Selections return, for every set of places.       *)
(***************************************************************************)
EXTENDS Selections, FiniteSetTheorems, SequenceTheorems, WellFoundedInduction, TLAPS

-----------------------------------------------------------------------------
(* The places of a set in their order.                                     *)

\* e lists m integers in their order.
Rises(e, m) == e \in [1 .. m -> Int] /\ \A i, j \in 1 .. m : i < j => e[i] < e[j]

Listed(e, m) == {e[k] : k \in 1 .. m}

\* The first k - 1 of them are those below the k-th.
LEMMA CountBelow ==
    ASSUME NEW m \in Nat, NEW e, Rises(e, m), NEW k \in 1 .. m
    PROVE  Cardinality({y \in Listed(e, m) : y < e[k]}) = k - 1
<1> DEFINE B == {y \in Listed(e, m) : y < e[k]}
           f == [j \in 1 .. k - 1 |-> e[j]]
<1>1. e \in [1 .. m -> Int] /\ \A i, j \in 1 .. m : i < j => e[i] < e[j]
  BY DEF Rises
<1>2. k \in Nat /\ k - 1 \in Nat /\ \A j \in 1 .. k - 1 : j \in 1 .. m /\ j < k
  OBVIOUS
<1>3. \A j \in 1 .. m : e[j] < e[k] => j \in 1 .. k - 1
  <2>1. ASSUME NEW j \in 1 .. m, e[j] < e[k], ~(j < k) PROVE FALSE
    <3>1. j = k \/ k < j
      BY <2>1
    <3>2. e[j] \in Int /\ e[k] \in Int /\ (k < j => e[k] < e[j])
      BY <1>1
    <3>3. QED
      BY <2>1, <3>1, <3>2
  <2>2. QED
    BY <2>1
<1>4. \A j \in 1 .. k - 1 : e[j] \in B
  BY <1>1, <1>2 DEF Listed
<1>5. \A y \in B : \E j \in 1 .. k - 1 : e[j] = y
  BY <1>3 DEF Listed
<1>6. \A i, j \in 1 .. k - 1 : e[i] = e[j] => i = j
  <2>1. ASSUME NEW i \in 1 .. k - 1, NEW j \in 1 .. k - 1, e[i] = e[j], i # j
        PROVE  FALSE
    <3>1. i < j \/ j < i
      BY <2>1
    <3>2. e[i] \in Int /\ e[j] \in Int /\ (i < j => e[i] < e[j]) /\ (j < i => e[j] < e[i])
      BY <1>1, <1>2
    <3>3. QED
      BY <2>1, <3>1, <3>2
  <2>2. QED
    BY <2>1
<1> HIDE DEF B
<1>7. f \in Bijection(1 .. k - 1, B)
  BY <1>4, <1>5, <1>6 DEF Bijection, Injection, Surjection, IsInjective
<1>8. IsFiniteSet(1 .. k - 1) /\ Cardinality(1 .. k - 1) = k - 1
  BY <1>2, FS_Interval
<1> HIDE DEF f
<1>9. Cardinality(B) = Cardinality(1 .. k - 1)
  BY <1>7, <1>8, FS_Bijection DEF ExistsBijection
<1>10. QED
  BY <1>8, <1>9 DEF B

\* A listing tells the size of the set, and its k-th.
LEMMA ListedIs ==
    ASSUME NEW m \in Nat, NEW e, Rises(e, m)
    PROVE  /\ IsFiniteSet(Listed(e, m)) /\ Cardinality(Listed(e, m)) = m
           /\ \A k \in 1 .. m : Nth(Listed(e, m), k) = e[k]
<1> DEFINE I == Listed(e, m)
           f == [k \in 1 .. m |-> e[k]]
<1>1. e \in [1 .. m -> Int] /\ \A i, j \in 1 .. m : i < j => e[i] < e[j]
  BY DEF Rises
<1>2. \A i, j \in 1 .. m : e[i] = e[j] => i = j
  <2>1. ASSUME NEW i \in 1 .. m, NEW j \in 1 .. m, e[i] = e[j], i # j
        PROVE  FALSE
    <3>1. i < j \/ j < i
      BY <2>1
    <3>2. e[i] \in Int /\ e[j] \in Int /\ (i < j => e[i] < e[j]) /\ (j < i => e[j] < e[i])
      BY <1>1
    <3>3. QED
      BY <2>1, <3>1, <3>2
  <2>2. QED
    BY <2>1
<1>3. f \in Bijection(1 .. m, I)
  BY <1>2 DEF Bijection, Injection, Surjection, IsInjective, Listed
<1>4. IsFiniteSet(1 .. m) /\ Cardinality(1 .. m) = m
  BY FS_Interval
<1> HIDE DEF f
<1>5. IsFiniteSet(I) /\ Cardinality(I) = m
  BY <1>3, <1>4, FS_Bijection DEF ExistsBijection
<1>6. ASSUME NEW k \in 1 .. m
      PROVE  Nth(I, k) = e[k]
  <2>1. e[k] \in I /\ Cardinality({y \in I : y < e[k]}) = k - 1
    BY CountBelow DEF Listed
  <2>2. ASSUME NEW x \in I, Cardinality({y \in I : y < x}) = k - 1
        PROVE  x = e[k]
    <3>1. PICK j \in 1 .. m : x = e[j]
      BY DEF Listed
    <3>2. Cardinality({y \in I : y < x}) = j - 1
      BY <3>1, CountBelow
    <3>3. j = k
      BY <2>2, <3>2
    <3>4. QED
      BY <3>1, <3>3
  <2> HIDE DEF I
  <2>3. QED
    BY <2>1, <2>2 DEF Nth
<1>7. QED
  BY <1>5, <1>6

\* Every finite set of integers has a listing.
LEMMA ListingExists ==
    ASSUME NEW I \in SUBSET Int, IsFiniteSet(I)
    PROVE  /\ Cardinality(I) \in Nat
           /\ Rises([k \in 1 .. Cardinality(I) |-> Nth(I, k)], Cardinality(I))
           /\ I = Listed([k \in 1 .. Cardinality(I) |-> Nth(I, k)], Cardinality(I))
<1> DEFINE n == Cardinality(I)
           Below(x) == {y \in I : y < x}
           rank == [x \in I |-> 1 + Cardinality(Below(x))]
<1>1. n \in Nat
  BY FS_CardinalityType
<1>2. ASSUME NEW x \in I
      PROVE  /\ IsFiniteSet(Below(x)) /\ Cardinality(Below(x)) \in 0 .. n - 1
  <2>1. Below(x) \in SUBSET (I \ {x})
    OBVIOUS
  <2>2. IsFiniteSet(I \ {x}) /\ Cardinality(I \ {x}) = n - 1
    BY FS_RemoveElement
  <2>3. IsFiniteSet(Below(x)) /\ Cardinality(Below(x)) <= Cardinality(I \ {x})
    BY <2>1, <2>2, FS_Subset
  <2>4. Cardinality(Below(x)) \in Nat
    BY <2>3, FS_CardinalityType
  <2> HIDE DEF n, Below
  <2>5. QED
    BY <1>1, <2>2, <2>3, <2>4
<1>3. ASSUME NEW x \in I, NEW y \in I, x < y
      PROVE  rank[x] < rank[y]
  <2>1. Below(x) \cup {x} \in SUBSET Below(y) /\ x \notin Below(x)
    <3>1. \A z \in I : z < x => z < y
      BY <1>3
    <3>2. ~(x < x)
      BY x \in Int
    <3>3. QED
      BY <1>3, <3>1, <3>2
  <2>2. Cardinality(Below(x) \cup {x}) = Cardinality(Below(x)) + 1
    BY <1>2, <2>1, FS_AddElement
  <2>3. Cardinality(Below(x) \cup {x}) <= Cardinality(Below(y))
    BY <1>2, <2>1, FS_Subset
  <2>4. rank[x] = 1 + Cardinality(Below(x)) /\ rank[y] = 1 + Cardinality(Below(y))
    OBVIOUS
  <2>5. Cardinality(Below(x)) \in Int /\ Cardinality(Below(y)) \in Int
    BY <1>2
  <2> HIDE DEF rank, Below
  <2>6. QED
    BY <2>2, <2>3, <2>4, <2>5
<1>4. rank \in [I -> 1 .. n]
  <2>1. ASSUME NEW x \in I PROVE 1 + Cardinality(Below(x)) \in 1 .. n
    <3>1. Cardinality(Below(x)) \in 0 .. n - 1
      BY <1>2
    <3> HIDE DEF n, Below
    <3>2. QED
      BY <1>1, <3>1
  <2>2. QED
    BY <2>1
<1>5. \A x, y \in I : rank[x] = rank[y] => x = y
  <2>1. ASSUME NEW x \in I, NEW y \in I, rank[x] = rank[y], x # y PROVE FALSE
    <3>1. x \in Int /\ y \in Int
      OBVIOUS
    <3>2. x < y \/ y < x
      BY <2>1, <3>1
    <3>3. rank[x] < rank[y] \/ rank[y] < rank[x]
      BY <1>3, <3>2
    <3>4. rank[x] \in Int
      BY <1>4
    <3> HIDE DEF rank
    <3>5. QED
      BY <2>1, <3>3, <3>4
  <2>2. QED
    BY <2>1
<1>6. rank \in Surjection(I, 1 .. n)
  <2> HIDE DEF rank, n
  <2>1. rank \in Injection(I, 1 .. n)
    BY <1>4, <1>5 DEF Injection, IsInjective
  <2>2. IsFiniteSet(1 .. n) /\ Cardinality(1 .. n) = n
    BY <1>1, FS_Interval
  <2>3. QED
    BY <2>1, <2>2, FS_Surjection, FS_Injection DEF n
<1>7. ASSUME NEW k \in 1 .. n
      PROVE  Nth(I, k) \in I /\ rank[Nth(I, k)] = k
  <2>1. PICK x \in I : rank[x] = k
    BY <1>6, <1>7 DEF Surjection
  <2>2. 1 + Cardinality(Below(x)) = k /\ Cardinality(Below(x)) \in Int
    BY <1>2, <2>1
  <2>3. Cardinality(Below(x)) = k - 1
    <3> HIDE DEF Below, rank, n
    <3>1. QED
      BY <2>2
  <2>4. Nth(I, k) \in I /\ Cardinality(Below(Nth(I, k))) = k - 1
    BY <2>3 DEF Nth
  <2>5. rank[Nth(I, k)] = 1 + (k - 1)
    BY <2>4
  <2> HIDE DEF rank, n
  <2>6. QED
    BY <1>1, <1>7, <2>4, <2>5
<1> DEFINE e == [k \in 1 .. n |-> Nth(I, k)]
<1> HIDE DEF rank, n
<1>8. Rises(e, n)
  <2>1. ASSUME NEW i \in 1 .. n, NEW j \in 1 .. n, i < j, ~(e[i] < e[j])
        PROVE  FALSE
    <3>1. e[i] \in I /\ e[j] \in I /\ rank[e[i]] = i /\ rank[e[j]] = j
      BY <1>7
    <3>2. e[i] = e[j] \/ e[j] < e[i]
      <4>1. e[i] \in Int /\ e[j] \in Int
        BY <3>1
      <4> HIDE DEF e
      <4>2. QED
        BY <2>1, <4>1
    <3>3. rank[e[j]] < rank[e[i]] \/ i = j
      BY <1>3, <3>1, <3>2
    <3>4. QED
      BY <1>1, <2>1, <3>1, <3>3
  <2>2. e \in [1 .. n -> Int]
    BY <1>7
  <2>3. QED
    BY <2>1, <2>2 DEF Rises
<1>9. I = Listed(e, n)
  <2>1. ASSUME NEW x \in I
        PROVE  x \in Listed(e, n)
    <3>1. rank[x] \in 1 .. n
      BY <1>4
    <3>2. e[rank[x]] = Nth(I, rank[x]) /\ e[rank[x]] \in I /\ rank[e[rank[x]]] = rank[x]
      BY <1>7, <3>1
    <3>3. e[rank[x]] = x
      BY <1>5, <3>2
    <3>4. QED
      BY <3>1, <3>3 DEF Listed
  <2>2. \A x \in Listed(e, n) : x \in I
    BY <1>7 DEF Listed
  <2>3. QED
    BY <2>1, <2>2
<1>10. QED
  BY <1>1, <1>8, <1>9 DEF n, e

-----------------------------------------------------------------------------
(* What is picked from a function or a sequence.                           *)

LEMMA FunctionIsSeq ==
    ASSUME NEW m \in Nat, NEW T, NEW f \in [1 .. m -> T]
    PROVE  f \in Seq(T) /\ Len(f) = m
<1>1. f \in Seq(T)
  OBVIOUS
<1>2. Len(f) \in Nat /\ DOMAIN f = 1 .. Len(f)
  BY <1>1, LenProperties
<1>3. QED
  BY <1>1, <1>2

\* With the listing at hand it is the elements listed.
LEMMA PickedIs ==
    ASSUME NEW m \in Nat, NEW e, Rises(e, m)
    PROVE  \A f : Picked(f, Listed(e, m)) = [k \in 1 .. m |-> f[e[k]]]
  BY ListedIs DEF Picked

LEMMA PickedListing ==
    ASSUME NEW I \in SUBSET Int, IsFiniteSet(I)
    PROVE  \E e : /\ Rises(e, Cardinality(I)) /\ I = Listed(e, Cardinality(I))
                  /\ \A f : Picked(f, I) = [k \in 1 .. Cardinality(I) |-> f[e[k]]]
<1> DEFINE n == Cardinality(I)
           e == [k \in 1 .. n |-> Nth(I, k)]
<1>1. n \in Nat /\ Rises(e, n) /\ I = Listed(e, n)
  BY ListingExists
<1> HIDE DEF e, n
<1>2. \A f : Picked(f, I) = [k \in 1 .. n |-> f[e[k]]]
  BY <1>1, PickedIs
<1>3. QED
  BY <1>1, <1>2 DEF n

LEMMA PickedType ==
    ASSUME NEW I \in SUBSET Int, IsFiniteSet(I), NEW T, NEW f, \A i \in I : f[i] \in T
    PROVE  /\ Picked(f, I) \in Seq(T) /\ Len(Picked(f, I)) = Cardinality(I)
           /\ Cardinality(I) \in Nat
           /\ \A k \in 1 .. Cardinality(I) :
                 Nth(I, k) \in I /\ Picked(f, I)[k] = f[Nth(I, k)]
<1>1. Cardinality(I) \in Nat
  BY FS_CardinalityType
<1> DEFINE n == Cardinality(I)
           e == [k \in 1 .. n |-> Nth(I, k)]
<1>2. Rises(e, n) /\ I = Listed(e, n)
  BY ListingExists
<1>3. \A k \in 1 .. n : Nth(I, k) \in I
  <2>1. \A k \in 1 .. n : e[k] \in Listed(e, n)
    BY DEF Listed
  <2>2. QED
    BY <1>2, <2>1
<1>4. Picked(f, I) = [k \in 1 .. n |-> f[Nth(I, k)]]
  BY DEF Picked
<1>5. Picked(f, I) \in [1 .. n -> T]
  BY <1>3, <1>4
<1>. n \in Nat
  BY <1>1
<1> HIDE DEF n, e
<1>6. Picked(f, I) \in Seq(T) /\ Len(Picked(f, I)) = n
  BY n \in Nat, Picked(f, I) \in [1 .. n -> T], FunctionIsSeq
<1>7. QED
  BY <1>1, <1>3, <1>4, <1>6 DEF n

LEMMA PickedSame ==
    ASSUME NEW I \in SUBSET Int, IsFiniteSet(I), NEW f, NEW g, \A i \in I : f[i] = g[i]
    PROVE  Picked(f, I) = Picked(g, I)
<1>1. \A k \in 1 .. Cardinality(I) : Nth(I, k) \in I
  <2>1. \A i \in I : f[i] \in {f[j] : j \in I}
    OBVIOUS
  <2>2. QED
    BY <2>1, PickedType
<1>2. QED
  BY <1>1 DEF Picked

LEMMA NothingPicked == \A f : Picked(f, {}) = <<>>
  BY FS_EmptySet DEF Picked

LEMMA OnePicked ==
    ASSUME NEW i \in Int, NEW f
    PROVE  Picked(f, {i}) = <<f[i]>>
<1> DEFINE e == [k \in 1 .. 1 |-> i]
<1>1. Rises(e, 1) /\ Listed(e, 1) = {i}
  BY DEF Rises, Listed
<1> HIDE DEF e
<1>2. \A g : Picked(g, Listed(e, 1)) = [k \in 1 .. 1 |-> g[e[k]]]
  BY <1>1, PickedIs, 1 \in Nat
<1>3. Picked(f, {i}) = [k \in 1 .. 1 |-> f[e[k]]]
  BY <1>1, <1>2
<1>4. QED
  BY <1>3 DEF e

\* What lies below is picked first.
LEMMA PickedJoin ==
    ASSUME NEW A \in SUBSET Int, NEW B \in SUBSET Int, IsFiniteSet(A), IsFiniteSet(B),
           \A a \in A, b \in B : a < b, NEW f
    PROVE  Picked(f, A \cup B) = Picked(f, A) \o Picked(f, B)
<1>0. PICK T : \A i \in A \cup B : f[i] \in T
  <2>1. \A i \in A \cup B : f[i] \in {f[j] : j \in A \cup B}
    OBVIOUS
  <2>2. QED
    BY <2>1
<1> DEFINE m == Cardinality(A)
           n == Cardinality(B)
<1>1. m \in Nat /\ n \in Nat
  BY FS_CardinalityType
<1>2. PICK d : Rises(d, m) /\ A = Listed(d, m) /\ Picked(f, A) = [k \in 1 .. m |-> f[d[k]]]
  BY PickedListing
<1>3. PICK e : Rises(e, n) /\ B = Listed(e, n) /\ Picked(f, B) = [k \in 1 .. n |-> f[e[k]]]
  BY PickedListing
<1>4. /\ Picked(f, A) \in Seq(T) /\ Len(Picked(f, A)) = m
      /\ Picked(f, B) \in Seq(T) /\ Len(Picked(f, B)) = n
  BY <1>0, PickedType
<1> HIDE DEF m, n
<1> DEFINE h == [k \in 1 .. m + n |-> IF k <= m THEN d[k] ELSE e[k - m]]
<1>5. /\ \A k \in 1 .. m : h[k] = d[k] /\ d[k] \in A /\ d[k] \in Int
      /\ \A k \in m + 1 .. m + n : k - m \in 1 .. n /\ h[k] = e[k - m] /\ e[k - m] \in B
      /\ \A k \in 1 .. n : e[k] \in Int
  BY <1>1, <1>2, <1>3 DEF Listed, Rises
<1>6. Rises(h, m + n)
  <2>1. h \in [1 .. m + n -> Int]
    <3>1. \A k \in 1 .. m + n : k \in 1 .. m \/ k \in m + 1 .. m + n
      BY <1>1
    <3>2. \A k \in 1 .. m + n : h[k] \in Int
      BY <1>5, <3>1
    <3>3. QED
      BY <3>2
  <2>2. ASSUME NEW i \in 1 .. m + n, NEW j \in 1 .. m + n, i < j
        PROVE  h[i] < h[j]
    <3> HIDE DEF h
    <3>1. CASE j <= m
      <4>1. i \in 1 .. m /\ j \in 1 .. m
        BY <1>1, <2>2, <3>1
      <4>2. QED
        BY <1>2, <1>5, <2>2, <4>1 DEF Rises
    <3>2. CASE i <= m /\ ~(j <= m)
      <4>1. i \in 1 .. m /\ j \in m + 1 .. m + n
        BY <1>1, <3>2
      <4>2. QED
        BY <1>5, <4>1
    <3>3. CASE ~(i <= m)
      <4>1. i \in m + 1 .. m + n /\ j \in m + 1 .. m + n /\ i - m < j - m
        BY <1>1, <2>2, <3>3
      <4>2. QED
        BY <1>3, <1>5, <4>1 DEF Rises
    <3>4. QED
      BY <3>1, <3>2, <3>3
  <2>3. QED
    BY <2>1, <2>2 DEF Rises
<1>7. Listed(h, m + n) = A \cup B
  <2> HIDE DEF h
  <2>1. ASSUME NEW x \in A PROVE x \in Listed(h, m + n)
    <3>1. PICK k \in 1 .. m : x = d[k]
      BY <1>2 DEF Listed
    <3>2. k \in 1 .. m + n /\ x = h[k]
      BY <1>1, <1>5, <3>1
    <3>3. QED
      BY <3>2 DEF Listed
  <2>2. ASSUME NEW x \in B PROVE x \in Listed(h, m + n)
    <3>1. PICK k \in 1 .. n : x = e[k]
      BY <1>3 DEF Listed
    <3>2. k + m \in m + 1 .. m + n /\ (k + m) - m = k /\ k + m \in 1 .. m + n
      BY <1>1
    <3>3. x = h[k + m]
      BY <1>5, <3>1, <3>2
    <3>4. QED
      BY <3>2, <3>3 DEF Listed
  <2>3. ASSUME NEW k \in 1 .. m + n PROVE h[k] \in A \cup B
    <3>1. k \in 1 .. m \/ k \in m + 1 .. m + n
      BY <1>1
    <3>2. QED
      BY <1>5, <3>1
  <2>4. QED
    BY <2>1, <2>2, <2>3 DEF Listed
<1>. m + n \in Nat
  BY <1>1
<1>8. Picked(f, A \cup B) = [k \in 1 .. m + n |-> f[h[k]]]
  <2> HIDE DEF h
  <2>1. \A g : Picked(g, Listed(h, m + n)) = [k \in 1 .. m + n |-> g[h[k]]]
    BY <1>6, PickedIs
  <2>2. QED
    BY <1>7, <2>1
<1> DEFINE s == Picked(f, A)
           t == Picked(f, B)
           u == Picked(f, A \cup B)
<1>9. u \in Seq(T) /\ Len(u) = m + n
  <2>1. \A k \in 1 .. m + n : h[k] \in A \cup B
    BY <1>7 DEF Listed
  <2>2. u \in [1 .. m + n -> T]
    BY <1>0, <1>8, <2>1
  <2> HIDE DEF u, h
  <2>3. QED
    BY m + n \in Nat, u \in [1 .. m + n -> T], FunctionIsSeq
<1>10. /\ s \o t \in Seq(T) /\ Len(s \o t) = m + n
       /\ \A k \in 1 .. m + n : (s \o t)[k] = IF k <= m THEN s[k] ELSE t[k - m]
  BY <1>4, ConcatProperties
<1>11. ASSUME NEW k \in 1 .. m + n PROVE u[k] = (s \o t)[k]
  <2>1. u[k] = f[h[k]]
    BY <1>8
  <2>2. CASE k <= m
    <3>1. k \in 1 .. m
      BY <1>1, <2>2
    <3>2. s[k] = f[d[k]]
      BY <1>2, <3>1
    <3>3. QED
      BY <1>5, <1>10, <2>1, <2>2, <3>1, <3>2
  <2>3. CASE ~(k <= m)
    <3>1. k \in m + 1 .. m + n /\ k - m \in 1 .. n
      BY <1>1, <2>3
    <3>2. t[k - m] = f[e[k - m]]
      BY <1>3, <3>1
    <3>3. QED
      BY <1>5, <1>10, <2>1, <2>3, <3>1, <3>2
  <2>4. QED
    BY <2>2, <2>3
<1> HIDE DEF s, t, u
<1>12. u = s \o t
  BY <1>9, <1>10, <1>11, SeqEqual
<1>13. QED
  BY <1>12 DEF s, t, u

\* Moving all places by c.
Moved(c, I) == {c + i : i \in I}

LEMMA PickedShift ==
    ASSUME NEW I \in SUBSET Int, IsFiniteSet(I), NEW c \in Int, NEW f, NEW g,
           \A i \in I : f[c + i] = g[i]
    PROVE  /\ Picked(f, Moved(c, I)) = Picked(g, I)
           /\ IsFiniteSet(Moved(c, I)) /\ Cardinality(Moved(c, I)) = Cardinality(I)
<1> DEFINE m == Cardinality(I)
           J == Moved(c, I)
<1>1. m \in Nat
  BY FS_CardinalityType
<1>2. PICK e : Rises(e, m) /\ I = Listed(e, m) /\ Picked(g, I) = [k \in 1 .. m |-> g[e[k]]]
  BY PickedListing
<1> HIDE DEF m
<1> DEFINE d == [k \in 1 .. m |-> c + e[k]]
<1>3. Rises(d, m) /\ Listed(d, m) = J
  BY <1>2 DEF Rises, Listed, Moved
<1>4. Picked(f, J) = [k \in 1 .. m |-> f[d[k]]] /\ IsFiniteSet(J) /\ Cardinality(J) = m
  <2> HIDE DEF d, J
  <2>1. QED
    BY <1>1, <1>3, PickedIs, ListedIs
<1>5. \A k \in 1 .. m : f[d[k]] = g[e[k]]
  BY <1>2 DEF Listed
<1>6. QED
  BY <1>2, <1>4, <1>5 DEF m

\* Picking again from what was picked.
LEMMA PickedTwice ==
    ASSUME NEW I \in SUBSET Int, IsFiniteSet(I), NEW J \in SUBSET (1 .. Cardinality(I)), NEW f
    PROVE  Picked(Picked(f, I), J) = Picked(f, {Nth(I, k) : k \in J})
<1> DEFINE m == Cardinality(I)
           p == Cardinality(J)
           e == [k \in 1 .. m |-> Nth(I, k)]
<1>1. m \in Nat /\ Rises(e, m) /\ I = Listed(e, m)
  BY ListingExists
<1>2. IsFiniteSet(J) /\ J \in SUBSET Int
  <2>1. IsFiniteSet(1 .. m)
    BY <1>1, FS_Interval
  <2>2. J \in SUBSET (1 .. m)
    OBVIOUS
  <2>3. IsFiniteSet(J)
    BY <2>1, <2>2, FS_Subset
  <2>4. QED
    BY <2>2, <2>3
<1>3. p \in Nat
  BY <1>2, FS_CardinalityType
<1>4. PICK d : /\ Rises(d, p) /\ J = Listed(d, p)
               /\ \A g : Picked(g, J) = [k \in 1 .. p |-> g[d[k]]]
  BY <1>2, PickedListing
<1>5. \A k \in 1 .. p : d[k] \in J /\ d[k] \in 1 .. m
  BY <1>4 DEF Listed
<1> DEFINE h == [k \in 1 .. p |-> e[d[k]]]
<1>6. Picked(f, I) = [k \in 1 .. m |-> f[e[k]]]
  BY DEF Picked
<1>7. {Nth(I, k) : k \in J} = {e[k] : k \in J}
  OBVIOUS
<1> HIDE DEF e, m, p
<1>8. Rises(h, p)
  BY <1>1, <1>4, <1>5 DEF Rises
<1>9. Listed(h, p) = {e[k] : k \in J}
  BY <1>4, <1>5 DEF Listed
<1>10. Picked(f, Listed(h, p)) = [k \in 1 .. p |-> f[h[k]]]
  BY <1>3, <1>8, PickedIs
<1>11. Picked(Picked(f, I), J) = [k \in 1 .. p |-> f[e[d[k]]]]
  <2>1. Picked(Picked(f, I), J) = [k \in 1 .. p |-> Picked(f, I)[d[k]]]
    BY <1>4
  <2>2. \A k \in 1 .. p : Picked(f, I)[d[k]] = f[e[d[k]]]
    BY <1>5, <1>6
  <2>3. QED
    BY <2>1, <2>2
<1>12. QED
  BY <1>7, <1>9, <1>10, <1>11

\* The places in their order, and what comes after a place.
LEMMA PlacesInOrder ==
    ASSUME NEW I \in SUBSET Int, IsFiniteSet(I)
    PROVE  /\ Cardinality(I) \in Nat
           /\ \A k \in 1 .. Cardinality(I) : Nth(I, k) \in I /\ Nth(I, k) \in Int
           /\ \A i, j \in 1 .. Cardinality(I) : i < j => Nth(I, i) < Nth(I, j)
           /\ \A x \in I : \E k \in 1 .. Cardinality(I) : Nth(I, k) = x
<1> DEFINE n == Cardinality(I)
           e == [k \in 1 .. n |-> Nth(I, k)]
<1>1. n \in Nat /\ Rises(e, n) /\ I = Listed(e, n)
  BY ListingExists
<1>2. \A k \in 1 .. n : e[k] = Nth(I, k)
  OBVIOUS
<1> HIDE DEF e, n
<1>3. /\ \A k \in 1 .. n : e[k] \in Int /\ e[k] \in I
      /\ \A i, j \in 1 .. n : i < j => e[i] < e[j]
      /\ \A x \in I : \E k \in 1 .. n : e[k] = x
  BY <1>1 DEF Rises, Listed
<1>4. QED
  BY <1>1, <1>2, <1>3 DEF n

LEMMA NextPlace ==
    ASSUME NEW I \in SUBSET Int, IsFiniteSet(I), NEW k \in 1 .. Cardinality(I),
           Nth(I, k) + 1 \in I
    PROVE  k + 1 \in 1 .. Cardinality(I) /\ Nth(I, k + 1) = Nth(I, k) + 1
<1> DEFINE n == Cardinality(I)
           e(i) == Nth(I, i)
<1>1. /\ n \in Nat
      /\ \A i \in 1 .. n : e(i) \in Int
      /\ \A i, j \in 1 .. n : i < j => e(i) < e(j)
      /\ \A x \in I : \E j \in 1 .. n : e(j) = x
  BY PlacesInOrder
<1>2. k \in 1 .. n /\ e(k) + 1 \in I
  OBVIOUS
<1> HIDE DEF n, e
<1>3. PICK j \in 1 .. n : e(j) = e(k) + 1
  BY <1>1, <1>2
<1>4. k < j
  <2>1. ASSUME j < k PROVE FALSE
    <3>1. e(j) < e(k) /\ e(k) \in Int
      BY <1>1, <1>2, <2>1
    <3>2. QED
      BY <1>3, <3>1
  <2>2. ASSUME j = k PROVE FALSE
    <3>1. e(k) = e(k) + 1 /\ e(k) \in Int
      BY <1>1, <1>2, <1>3, <2>2
    <3>2. QED
      BY <3>1
  <2>3. QED
    BY <1>1, <1>2, <2>1, <2>2
<1>5. k + 1 \in 1 .. n
  BY <1>1, <1>2, <1>4
<1>6. ASSUME k + 1 < j PROVE FALSE
  <2>1. e(k) < e(k + 1) /\ e(k + 1) < e(j) /\ e(k) \in Int /\ e(k + 1) \in Int
    <3>1. k < k + 1
      BY <1>2
    <3>2. QED
      BY <1>1, <1>2, <1>5, <1>6, <3>1
  <2>2. QED
    BY <1>3, <2>1
<1>7. j = k + 1
  BY <1>1, <1>2, <1>4, <1>6
<1>8. QED
  BY <1>3, <1>5, <1>7 DEF n, e

-----------------------------------------------------------------------------
(* The places before a place.                                              *)

\* A set of naturals that is not empty has a least element.
LEMMA LeastNatural ==
    ASSUME NEW T, T \subseteq Nat, T # {}
    PROVE  \E x \in T : \A y \in T : x <= y
<1> DEFINE R == OpToRel(<, Nat)
<1>1. PICK x \in T : \A y \in T : <<y, x>> \notin R
  <2> HIDE DEF R
  <2>1. IsWellFoundedOn(R, Nat)
    BY NatLessThanWellFounded DEF R
  <2>2. QED
    BY <2>1, WFMin
<1>2. \A y \in T : ~(y < x)
  BY <1>1 DEF OpToRel
<1>3. QED
  BY <1>2

\* The place a frame starts after.
LEMMA LastBeforeIs ==
    ASSUME NEW B \in SUBSET Nat, 0 \in B, NEW e \in Nat, 0 < e
    PROVE  /\ LastBefore(B, e) \in B /\ LastBefore(B, e) < e
           /\ \A c \in B : c < e => c <= LastBefore(B, e)
<1> DEFINE T == {n \in Nat : e - n \in B /\ e - n < e}
<1>1. e \in T
  <2>1. e - e = 0
    OBVIOUS
  <2>2. QED
    BY <2>1
<1>2. PICK n \in T : \A k \in T : n <= k
  <2>1. T \subseteq Nat /\ T # {}
    BY <1>1
  <2> HIDE DEF T
  <2>2. QED
    BY <2>1, LeastNatural
<1>3. e - n \in B /\ e - n < e /\ n \in Nat
  OBVIOUS
<1>4. ASSUME NEW c \in B, c < e
      PROVE  c <= e - n
  <2>1. c \in Nat /\ e - c \in Nat /\ e - (e - c) = c
    BY <1>4
  <2>2. e - c \in T
    BY <1>4, <2>1
  <2>3. n <= e - c
    BY <1>2, <2>2
  <2> HIDE DEF T
  <2>4. QED
    BY <1>3, <2>1, <2>3
<1> HIDE DEF T
<1>5. \E b \in B : b < e /\ \A c \in B : c < e => c <= b
  BY <1>3, <1>4
<1>6. QED
  BY <1>5 DEF LastBefore

LEMMA LastBeforeOnly ==
    ASSUME NEW B \in SUBSET Nat, NEW e \in Nat, NEW b \in B, b < e,
           \A c \in B : c < e => c <= b
    PROVE  LastBefore(B, e) = b
<1>1. \A d \in B : (d < e /\ \A c \in B : c < e => c <= d) => d = b
  <2>1. ASSUME NEW d \in B, d < e, \A c \in B : c < e => c <= d
        PROVE  d = b
    <3>1. b <= d /\ d <= b /\ b \in Nat /\ d \in Nat
      BY <2>1
    <3>2. QED
      BY <3>1
  <2>2. QED
    BY <2>1
<1>2. QED
  BY <1>1 DEF LastBefore

=============================================================================
