---------------------------- MODULE InterfaceProbe ----------------------------
(***************************************************************************)
(* DiagClient.from_libusb(): which of a device's interfaces becomes the    *)
(* client's, by asking each in turn or by its descriptor alone.            *)
(***************************************************************************)
EXTENDS Integers, Sequences, FiniteSets

CONSTANTS
    Desc,           \* the interfaces: number -> [vendor, sub, proto, ein, eout]
    ArgChoices      \* the arguments: [iface, ein, eout, probe, readable]

None == -1          \* an argument not given, an endpoint not there

Interfaces == DOMAIN Desc

ASSUME ProbeAssumption ==
    /\ Interfaces \subseteq Nat
    /\ \A i \in Interfaces :
          /\ {Desc[i].vendor, Desc[i].sub} \subseteq BOOLEAN
          /\ {Desc[i].proto, Desc[i].ein, Desc[i].eout} \subseteq Nat \cup {None}

VARIABLES
    args,           \* `readable`: the device gives its configuration
    speaker,        \* the interface that speaks DIAG, or None
    stage,             \* where from_libusb() is; "over" when there is a client
    untried,        \* candidates left: <<number, IN endpoint, OUT endpoint>>
    claimed,        \* interfaces the process holds
    detached,       \* interfaces whose kernel driver it has detached
    missed          \* the speaker's answer came too late for its probe

probeVars == <<args, speaker, stage, untried, claimed, detached, missed>>

ProbeInit ==
    /\ args \in ArgChoices /\ speaker \in Interfaces \cup {None}
    /\ stage = "start" /\ untried = {}
    /\ claimed = {} /\ detached = {} /\ missed = FALSE

-----------------------------------------------------------------------------
(* _diag_iface_candidates() and _resolve_diag_endpoints().                 *)

Pin(given, found) == IF given # None THEN given ELSE found

Explicit == None \notin {args.iface, args.ein, args.eout}

\* _DIAG_IFACE_PROTOCOL_RANK, and the demotion of another subclass.
Rank(i) ==
    (CASE Desc[i].proto = 48 -> 0 [] Desc[i].proto = 255 -> 1 [] OTHER -> 2)
        + (IF Desc[i].sub THEN 0 ELSE 3)

Better(i, j) == Rank(i) < Rank(j) \/ (Rank(i) = Rank(j) /\ i < j)

\* A tuple with the arguments that were given, whatever the scan has found.
Pinned(i, ein, eout) == <<i, Pin(args.ein, ein), Pin(args.eout, eout)>>

Candidates ==
    IF Explicit \/ ~args.probe \/ ~args.readable THEN {}
    ELSE {Pinned(i, Desc[i].ein, Desc[i].eout) :
             i \in {i \in Interfaces : /\ args.iface \in {None, i} /\ Desc[i].vendor
                                       /\ None \notin {Desc[i].ein, Desc[i].eout}}}

\* The first ff/ff/0x30 interface, or the one that was asked for; its endpoints,
\* or the defaults of the M3100.
ByDescriptor ==
    LET shaped == {i \in Interfaces : /\ args.readable /\ args.iface \in {None, i}
                                      /\ Desc[i].vendor /\ Desc[i].sub /\ Desc[i].proto = 48}
        asked  == {i \in Interfaces : args.readable /\ args.iface = i}
        fit    == IF shaped # {} THEN shaped ELSE asked
        first  == CHOOSE i \in fit : \A j \in fit : i <= j
    IN  IF fit = {} THEN Pinned(Pin(args.iface, 3), 132, 2)
        ELSE LET ep(found, default) == IF found = None THEN default ELSE found
             IN  Pinned(first, ep(Desc[first].ein, 132), ep(Desc[first].eout, 2))

-----------------------------------------------------------------------------
(* from_libusb() and _select_diag_candidate().                             *)

ProbeAt(from, to) == stage = from /\ stage' = to

Choose ==
    /\ ProbeAt("start", CASE Cardinality(Candidates) = 0 -> "descriptor"
                          [] Cardinality(Candidates) = 1 -> "sole"
                          [] OTHER -> "try")
    /\ untried' = IF Candidates = {} THEN {ByDescriptor} ELSE Candidates
    /\ UNCHANGED <<args, speaker, claimed, detached, missed>>

\* They are tried in the order of their ranks.
Chosen == CHOOSE c \in untried : \A d \in untried : c = d \/ Better(c[1], d[1])

Iface == Chosen[1]

Opening == stage \in {"try", "sole", "descriptor"}

\* The driver is detached, the interface claimed, its transport made.
Open ==
    /\ Opening /\ Iface \in Interfaces
    /\ stage' = IF stage = "try" THEN "probe" ELSE "done"
    /\ claimed' = claimed \cup {Iface} /\ detached' = detached \cup {Iface}
    /\ UNCHANGED <<args, speaker, untried, missed>>

\* On to the next candidate, or to the descriptor when there is none.
GoOn ==
    LET rest == untried \ {Chosen}
    IN  /\ stage' = IF rest = {} THEN "descriptor" ELSE "try"
        /\ untried' = IF rest = {} THEN {ByDescriptor} ELSE rest

\* Another process has it, or there is none of this number: of a candidate of
\* several a miss, else the caller's.  The driver may be detached by then.
OpenFails ==
    /\ Opening
    /\ IF stage = "try" THEN GoOn ELSE stage' = "raised" /\ UNCHANGED untried
    /\ detached' \in {detached} \cup {detached \cup {i} : i \in {Iface} \cap Interfaces}
    /\ UNCHANGED <<args, speaker, claimed, missed>>

\* Any answer to DIAG_VERNO_F will do, a rejection too.
Answers ==
    /\ ProbeAt("probe", "done") /\ speaker = Iface
    /\ UNCHANGED <<args, speaker, untried, claimed, detached, missed>>

\* It stays mute, the endpoint raises, or the answer comes too late.
Mute ==
    /\ ProbeAt("probe", "lost")
    /\ missed' \in {missed, missed \/ speaker = Iface}
    /\ UNCHANGED <<args, speaker, untried, claimed, detached>>

\* Mutant: the transport of a loser is left open.
LeaveLoser ==
    /\ stage = "lost" /\ GoOn
    /\ UNCHANGED <<args, speaker, claimed, detached, missed>>

\* close() calls the release_fn bound to this candidate.
CloseLoser ==
    /\ stage = "lost" /\ GoOn
    /\ claimed' = claimed \ {Iface}
    /\ UNCHANGED <<args, speaker, detached, missed>>

ProbeStep == Choose \/ Open \/ OpenFails \/ Answers \/ Mute \/ CloseLoser

-----------------------------------------------------------------------------
(* Properties.                                                             *)

\* Through misses, mute interfaces and the fallback that opens a loser again,
\* the process holds one interface at most: that of the client it returns, or
\* none when it raises.  No argument that was given is overridden, by the scan
\* or the fallback, and no interface loses its driver that was not tried.
HoldsOnlyTheChosen ==
    /\ Cardinality(claimed) <= 1 /\ claimed \subseteq detached
    /\ stage \in {"try", "descriptor", "raised"} => claimed = {}
    /\ stage = "done" =>
          /\ claimed = {Iface}
          /\ args.iface \in {None, Iface}
          /\ args.ein \in {None, Chosen[2]} /\ args.eout \in {None, Chosen[3]}
    /\ detached \subseteq {i \in Interfaces : args.iface \in {None, i}}

=============================================================================
