---------------------------- MODULE MasksetChecks -----------------------------
(***************************************************************************)
(* What the functions of Masksets promise, over every small input.         *)
(***************************************************************************)
EXTENDS Masksets

SmallSets == UNION {[1 .. n -> (0 .. MaxSsid + 1) \X Levels16] : n \in 0 .. 2}

Valid == {p \in SmallSets : Validated(p) # ValueError}

\* Neighbours suffice: what validate_pairs() lets through the modem takes, and
\* it refuses nothing else.
ASSUME ValidIsAscending == \A p \in SmallSets : p \in Valid <=> InRange(p) /\ Ascending(p)

\* "sorts and de-duplicates so the result is always accepted": in order, with
\* every ssid of the groups, and of one that is repeated what came last.
ASSUME MergedIsAscending ==
    \A p, q \in SmallSets :
        LET m == Merged(p \o q)
        IN  /\ Ascending(m)
            /\ SsidsOf(m) = SsidsOf(p) \cup SsidsOf(q)
            /\ Ascending(q) => Arms(q) \subseteq Arms(m)
            /\ Ascending(p) /\ SsidsOf(p) \cap SsidsOf(q) = {} => Arms(p) \subseteq Arms(m)

\* The union of valid profiles is accepted, and arms what any of them does; it
\* is refused for the number of its pairs alone.
ASSUME UnionArmsAll ==
    \A p, q \in Valid :
        /\ UnionOf({p, q}) = ValueError
               <=> Cardinality(SsidsOf(p) \cup SsidsOf(q)) > MaxPairs
        /\ \A u \in UnionOf({p, q}) : Ascending(u) /\ Arms(u) = Arms(p) \cup Arms(q)

\* "re-arms exactly what was observed", as far as a level can say it.
ASSUME DerivedArmsSeen ==
    \A seen \in SUBSET ((0 .. MaxSsid) \X (0 .. LevelBits)) :
        LET kept == {k \in seen : Expressible(k)}
        IN  /\ Derived(seen) = ValueError <=> Cardinality({k[1] : k \in kept}) > MaxPairs
            /\ \A d \in Derived(seen) : Ascending(d) /\ Arms(d) = kept

\* Every window of a sweep is a SET that the modem takes.
ASSUME SweepIsAccepted ==
    \A first, last \in -1 .. MaxSsid, size \in 1 .. MaxPairs, l \in Levels16 :
        \A w \in SweepWindows(first, last, size) :
            /\ SweepPairs(w, l) # ValueError
            /\ \A pairs \in SweepPairs(w, l) : Ascending(pairs)

\* A GET is read, edited and sent back: the SET has the width of a SET, reads
\* back as what was edited, and the edit arms or clears the ids it names alone.
\* An id of another modem is refused.  Of the bits the first and the last ones
\* of the ids and of the bytes are tried.
Samples(num) == {0, 7, 8, num - 1, 8 * SetWidth(num) - 1}

ASSUME EditsAreExact ==
    \A num \in 1 .. 17 : \A width \in {GetWidth(num), SetWidth(num)} :
        \A bits \in SUBSET (Samples(num) \cap 0 .. 8 * width - 1), ids \in SUBSET Samples(num) :
            \A m \in Parse([status |-> 0, num |-> num, width |-> width, bits |-> bits]) :
                /\ WithIds(m, ids) = ValueError <=> \E id \in ids : id >= num
                /\ \A e \in WithIds(m, ids) :
                    /\ Parse(BuildSet(e)) = {e}
                    /\ SetIds(e) = SetIds(m) \cup ids
                /\ \A e \in WithoutIds(m, ids) :
                    /\ Parse(BuildSet(e)) = {e}
                    /\ SetIds(e) = SetIds(m) \ ids

=============================================================================
