------------------------------- MODULE Masksets -------------------------------
(***************************************************************************)
(* The pure half of the masks: QSH-trace masksets (qsh_maskset.py, and the *)
(* merge in diag_cmd.py) and event masks (EventMask in diag_cmd.py).       *)
(*                                                                         *)
(* A word of bits is the set of the bits that are 1.  A maskset is the     *)
(* sequence of its pairs, <<ssid, level>>, as it goes to the modem.        *)
(***************************************************************************)
EXTENDS Integers, Sequences, FiniteSets

CONSTANTS
    MaxPairs,       \* QSH_TRACE_MAX_PAIRS
    LevelBits,      \* the bits of a level: 16
    MaxSsid         \* the largest ssid: 2^16 - 1

ASSUME MasksetAssumption ==
    MaxPairs \in Nat \ {0} /\ LevelBits \in Nat /\ MaxSsid \in Nat

\* A function that may raise gives the set of its one result, or of none.
ValueError == {}

-----------------------------------------------------------------------------
(* The windows of a sweep.                                                 *)

LesserOf(a, b)  == IF a < b THEN a ELSE b
GreaterOf(a, b) == IF a > b THEN a ELSE b

\* range(first, last + 1, size).
Starts(first, last, size) == {lo \in first .. last : (lo - first) % size = 0}

Window(lo, last, size) == lo .. LesserOf(lo + size, last + 1) - 1

SweepWindows(first, last, size) ==
    LET from == GreaterOf(first, 1)
    IN  {Window(lo, last, size) : lo \in Starts(from, last, size)}

-----------------------------------------------------------------------------
(* Masksets.                                                               *)

Levels16 == SUBSET (0 .. LevelBits - 1)

\* What the modem takes.
Ascending(pairs) == \A i, j \in DOMAIN pairs : i < j => pairs[i][1] < pairs[j][1]

\* _check().
InRange(pairs) ==
    /\ Len(pairs) <= MaxPairs
    /\ \A i \in DOMAIN pairs : pairs[i][1] \in 1 .. MaxSsid /\ pairs[i][2] \in Levels16

Checked(pairs) == IF InRange(pairs) THEN {pairs} ELSE ValueError

\* validate_pairs() compares neighbours.
Validated(pairs) ==
    IF /\ InRange(pairs)
       /\ \A i \in 2 .. Len(pairs) : pairs[i - 1][1] < pairs[i][1]
    THEN {pairs} ELSE ValueError

\* sorted(d.items()) of a dictionary of ssids: as many keys are below a key as
\* stand before it.
SortedItems(d) ==
    [i \in 1 .. Cardinality(DOMAIN d) |->
        LET s == CHOOSE s \in DOMAIN d : Cardinality({t \in DOMAIN d : t < s}) = i - 1
        IN  <<s, d[s]>>]

SweepPairs(ssids, level) == Checked(SortedItems([s \in ssids |-> level]))

SsidsOf(pairs) == {pairs[i][1] : i \in DOMAIN pairs}

LastPlace(pairs, s) ==
    CHOOSE i \in DOMAIN pairs :
        pairs[i][1] = s /\ \A j \in DOMAIN pairs : pairs[j][1] = s => j <= i

\* merge_qsh_trace_pairs(), of the groups one after the other: of a repeated
\* ssid the last pair wins.  Nothing is checked.
Merged(pairs) == SortedItems([s \in SsidsOf(pairs) |-> pairs[LastPlace(pairs, s)][2]])

\* union_maskset(), of profiles that validate_pairs() lets through.
UnionOf(profiles) ==
    Checked(SortedItems([s \in UNION {SsidsOf(p) : p \in profiles} |->
        UNION {p[LastPlace(p, s)][2] : p \in {q \in profiles : s \in SsidsOf(q)}}]))

\* derive_pairs(), of the <<subsystem, sub-stream>> keys that were seen.
Expressible(key) == key[1] # 0 /\ key[2] < LevelBits

Derived(seen) ==
    LET kept == {k \in seen : Expressible(k)}
    IN  Checked(SortedItems([s \in {k[1] : k \in kept} |->
                                {b \in 0 .. LevelBits - 1 : <<s, b>> \in kept}]))

\* The keys that a maskset arms.
Arms(pairs) == UNION {{<<pairs[i][1], b>> : b \in pairs[i][2]} : i \in DOMAIN pairs}

-----------------------------------------------------------------------------
(* Event masks.  A body carries bits in bytes, of which the last may be    *)
(* padding; a request of SET has a byte more when the number of events is  *)
(* a multiple of eight.                                                    *)

GetWidth(num) == (num + 7) \div 8
SetWidth(num) == num \div 8 + 1

Bodies(num, width) ==
    [status : Nat, num : {num}, width : {width}, bits : SUBSET (0 .. 8 * width - 1)]

\* parse_event_mask_reply().
Parse(body) ==
    IF body.num = 0 \/ body.width \notin {GetWidth(body.num), SetWidth(body.num)}
    THEN ValueError
    ELSE {[num |-> body.num, status |-> body.status,
           bits |-> body.bits \cap 0 .. 8 * GetWidth(body.num) - 1]}

\* EventMask.set_ids(), with_ids(), without_ids(): an id past the last is refused.
SetIds(mask) == {id \in 0 .. mask.num - 1 : id \in mask.bits}

Edited(mask, ids, bits) ==
    IF ids \subseteq 0 .. mask.num - 1 THEN {[mask EXCEPT !.bits = bits]} ELSE ValueError

WithIds(mask, ids)    == Edited(mask, ids, mask.bits \cup ids)
WithoutIds(mask, ids) == Edited(mask, ids, mask.bits \ ids)

\* build_event_mask_set().
BuildSet(mask) ==
    [status |-> 0, num |-> mask.num, width |-> SetWidth(mask.num), bits |-> mask.bits]

=============================================================================
