---------------------------- MODULE DiagClient_proofs ----------------------------
(***************************************************************************)
(* Proofs about the two programs over DiagLink.  CaptureSession, for every *)
(* set of log groups, every choice of wanted ones, any number of SPCs, and *)
(* whatever an earlier program left in the modem; and ClientOpening, for   *)
(* any interfaces and arguments, and for any number of calls, drained      *)
(* frames and frames on the wire.                                          *)
(***************************************************************************)
EXTENDS CaptureSession, ClientOpening, FiniteSetTheorems, WellFoundedInduction,
        SequenceTheorems, TLAPS

\* A set of natural numbers that has a member has a least one.
LEMMA LeastExists ==
    ASSUME NEW T, T \subseteq Nat, T # {}
    PROVE  \E x \in T : \A y \in T : x <= y
<1> DEFINE R == OpToRel(<, Nat)
<1>1. PICK x \in T : \A y \in T : <<y, x>> \notin R
  <2> HIDE DEF R
  <2>1. IsWellFoundedOn(R, Nat)
    BY NatLessThanWellFounded DEF R
  <2>2. QED
    BY <2>1, WFMin
<1>2. \A y \in T : ~(y < x)
  BY <1>1 DEF OpToRel
<1>3. QED
  BY <1>2

-----------------------------------------------------------------------------
(* What travels between the client and the modem.                          *)

Requests == {Spc, Ranges} \cup {SetMask(g, m) : g \in Groups, m \in Masks}

SpcReplies == {Frame("SPC", "", <<"accepted">>), Frame("SPC", "", <<"refused">>)}

LogReplies ==
    {Frame("LOG_CONFIG", sub, <<status>>) :
        sub \in {"RETRIEVE_RANGES", "SET_MASK"}, status \in {"success", "failed"}}

Replies == SpcReplies \cup LogReplies \cup {Rejection(r) : r \in Requests}

Frames == Noise \cup Replies

\* A SET_MASK request, or a reply to one.
IsSet(x) == x.op = "LOG_CONFIG" /\ x.sub = "SET_MASK"

NoSet(s) == \A i \in 1 .. Len(s) : ~IsSet(s[i])

Quiet(s) == \A i \in 1 .. Len(s) : s[i] \in Noise

LinkTypeOK ==
    /\ toModem \in Seq(Requests)
    /\ toHost \in Seq(Frames) /\ pend \in Seq(Frames)

-----------------------------------------------------------------------------
(* The inductive invariant.  A SET_MASK reply names neither its group nor  *)
(* its request, so what makes an answer the answer to the request at hand  *)
(* is the order of the link.  Up to the first RETRIEVE_RANGES reply a      *)
(* SET_MASK on the link is an earlier program's, and it is ahead of        *)
(* everything this program has sent; with that reply it is gone.  From     *)
(* then on the only SET_MASK on the link is the one subscribe_logs waits   *)
(* for, and its success follows the change of the mask.                    *)

NoneInFlight == NoSet(toModem) /\ NoSet(toHost) /\ NoSet(pend)

OldFirst ==
    /\ \A i \in 1 .. Len(toModem) :
          IsSet(toModem[i]) => i = 1 /\ Quiet(toHost) /\ Quiet(pend)
    /\ \A i \in 1 .. Len(toHost) :
          IsSet(toHost[i]) => Quiet(pend) /\ \A j \in 1 .. i - 1 : toHost[j] \in Noise
    /\ \A i \in 1 .. Len(pend) :
          IsSet(pend[i]) => \A j \in 1 .. i - 1 : pend[j] \in Noise

\* The mask of the group at hand, and the request that sets it.
Mine == MaskFor(phase, group)

Done(f) == f.body # <<"failed">> => mask[group] = Mine

OnlyMine ==
    /\ \A i \in 1 .. Len(toModem) :
          IsSet(toModem[i]) => /\ i = Len(toModem) /\ toModem[i] = SetMask(group, Mine)
                               /\ NoSet(toHost) /\ NoSet(pend)
    /\ \A i \in 1 .. Len(toHost) :
          IsSet(toHost[i]) => /\ NoSet(pend) /\ Done(toHost[i])
                              /\ \A j \in 1 .. Len(toHost) : IsSet(toHost[j]) => j = i
    /\ \A i \in 1 .. Len(pend) :
          IsSet(pend[i]) => /\ Done(pend[i])
                            /\ \A j \in 1 .. Len(pend) : IsSet(pend[j]) => j = i

\* What subscribe_logs goes on with.
Accepted == pc = "ready" /\ answer.op = "LOG_CONFIG"

InFlight ==
    /\ at = "spc" \/ (at = "ranges" /\ phase = "clear" /\ pc = "wait") => OldFirst
    /\ at = "ranges" /\ (phase # "clear" \/ Accepted) => NoneInFlight
    /\ at = "set" /\ pc = "wait" => OnlyMine
    /\ at = "set" /\ Accepted => NoneInFlight
    /\ at \in {"capture", "exit"} => NoneInFlight

Asked ==
    pc = "wait" => CASE at = "spc"    -> req = Spc
                     [] at = "ranges" -> req = Ranges
                     [] at = "set"    -> req = SetMask(group, Mine)
                     [] OTHER         -> FALSE

\* What _send_recv came back with: nothing, a rejection, or a reply of the
\* sub-operation that was asked for.
Answered ==
    at \in {"ranges", "set"} /\ pc = "ready" =>
        \/ answer \in {Eof, NoReply} \/ answer.op = "BAD_CMD"
        \/ /\ answer.op = "LOG_CONFIG"
           /\ answer.sub = IF at = "ranges" THEN "RETRIEVE_RANGES" ELSE "SET_MASK"

MasksSet ==
    /\ at = "set" =>
          /\ group \in Groups
          /\ pc = "wait" \/ Accepted =>
                \A g \in Groups : g < group => mask[g] = MaskFor(phase, g)
          /\ Accepted /\ answer.body # <<"failed">> => mask[group] = Mine
    /\ at = "capture" => \A g \in Groups : mask[g] = MaskFor("arm", g)
    /\ at = "exit" => \A g \in Groups : mask[g] = "empty"

SIInv ==
    /\ SessionTypeOK /\ LinkTypeOK
    /\ InFlight /\ Asked /\ Answered /\ MasksSet
    /\ why # "Unexpected op"

-----------------------------------------------------------------------------
(* The messages.                                                           *)

LEMMA NoiseIsNoReply ==
    ASSUME NEW f \in Noise
    PROVE  f.op \notin {"SPC", "LOG_CONFIG", "BAD_CMD"} /\ ~IsSet(f)
<1>1. f \in {Record, Foreign, Status, Junk}
  BY SurroundingsAssumption
<1>2. /\ Record.op = "LOG" /\ Foreign.op = "LOG"
      /\ Status.op = "STATUS" /\ Junk.op = "junk"
  BY DEF Record, Foreign, Status, Junk, Frame
<1>3. f.op \in {"LOG", "STATUS", "junk"}
  BY <1>1, <1>2
<1>4. QED
  BY <1>3 DEF IsSet

LEMMA RequestTypes ==
    /\ Spc \in Requests /\ Ranges \in Requests
    /\ \A g \in Groups, m \in Masks : SetMask(g, m) \in Requests
<1> DEFINE S == {SetMask(g, m) : g \in Groups, m \in Masks}
<1>1. \A g \in Groups, m \in Masks : SetMask(g, m) \in S
  OBVIOUS
<1>2. Requests = {Spc, Ranges} \cup S
  BY DEF Requests
<1> HIDE DEF S
<1>3. QED
  BY <1>1, <1>2

LEMMA RequestKinds ==
    ASSUME NEW r \in Requests
    PROVE  /\ r \in {Spc, Ranges} => ~IsSet(r)
           /\ \A g \in Groups, m \in Masks : r = SetMask(g, m) =>
                 IsSet(r) /\ r.body[1] = g /\ r.body[2] = m
           /\ ~IsSet(Rejection(r))
<1>1. ~IsSet(Spc) /\ ~IsSet(Ranges)
  BY DEF Spc, Ranges, Request, IsSet
<1>2. ASSUME NEW g \in Groups, NEW m \in Masks
      PROVE  /\ IsSet(SetMask(g, m))
             /\ SetMask(g, m).body[1] = g /\ SetMask(g, m).body[2] = m
  BY DEF SetMask, Request, IsSet
<1>3. Rejection(r).op = "BAD_CMD"
  BY DEF Rejection, Frame
<1>4. QED
  BY <1>1, <1>2, <1>3 DEF IsSet

LEMMA ReplyKinds ==
    /\ \A f \in SpcReplies : f \in Replies /\ f.op = "SPC"
    /\ \A sub \in {"RETRIEVE_RANGES", "SET_MASK"}, status \in {"success", "failed"} :
          /\ Frame("LOG_CONFIG", sub, <<status>>) \in Replies
          /\ Frame("LOG_CONFIG", sub, <<status>>).op = "LOG_CONFIG"
          /\ Frame("LOG_CONFIG", sub, <<status>>).sub = sub
          /\ Frame("LOG_CONFIG", sub, <<status>>).body = <<status>>
    /\ \A r \in Requests : Rejection(r) \in Replies /\ Rejection(r).op = "BAD_CMD"
    /\ \A f \in Replies : f.op \in {"SPC", "LOG_CONFIG", "BAD_CMD"}
<1>1. \A f \in SpcReplies : f.op = "SPC"
  <2>1. /\ Frame("SPC", "", <<"accepted">>).op = "SPC"
        /\ Frame("SPC", "", <<"refused">>).op = "SPC"
    BY DEF Frame
  <2>2. QED
    BY <2>1 DEF SpcReplies
<1>2. \A r : Rejection(r).op = "BAD_CMD"
  BY DEF Rejection, Frame
<1>3. \A sub, body : /\ Frame("LOG_CONFIG", sub, body).op = "LOG_CONFIG"
                     /\ Frame("LOG_CONFIG", sub, body).sub = sub
                     /\ Frame("LOG_CONFIG", sub, body).body = body
  BY DEF Frame
<1>4. \A sub \in {"RETRIEVE_RANGES", "SET_MASK"}, status \in {"success", "failed"} :
          Frame("LOG_CONFIG", sub, <<status>>) \in LogReplies
  BY DEF LogReplies
<1>5. \A f \in LogReplies : f.op = "LOG_CONFIG"
  BY <1>3 DEF LogReplies
<1>6. QED
  BY <1>1, <1>2, <1>3, <1>4, <1>5 DEF Replies

LEMMA MineIsMask ==
    /\ MaskFor(phase, group) \in Masks
    /\ \A ph, g : MaskFor(ph, g) \in Masks
  BY DEF MaskFor, Masks

-----------------------------------------------------------------------------
(* What each movement on the link keeps of the three regimes.              *)

SameGoal == UNCHANGED <<phase, group, mask>>

LEMMA FillMoves ==
    ASSUME LinkTypeOK, pend = <<>>, pend' = toHost, toHost' = <<>>, toModem' = toModem,
           SameGoal
    PROVE  /\ LinkTypeOK'
           /\ OldFirst => OldFirst'
           /\ NoneInFlight => NoneInFlight'
           /\ OnlyMine => OnlyMine'
<1>1. Len(<<>>) = 0 /\ <<>> \in Seq(Frames) /\ toHost \in Seq(Frames)
  BY DEF LinkTypeOK
<1>2. Mine' = Mine /\ mask'[group'] = mask[group]
  BY DEF SameGoal, Mine
<1>3. Quiet(<<>>) /\ NoSet(<<>>) /\ 1 .. Len(toHost') = {}
  BY <1>1 DEF Quiet, NoSet
<1>4. LinkTypeOK'
  BY <1>1 DEF LinkTypeOK
<1>5. OldFirst => OldFirst'
  BY <1>1, <1>3 DEF OldFirst, Quiet
<1>6. NoneInFlight => NoneInFlight'
  BY <1>1 DEF NoneInFlight, NoSet
<1>7. OnlyMine => OnlyMine'
  BY <1>2, <1>3 DEF OnlyMine, NoSet, Done, SameGoal
<1>8. QED
  BY <1>4, <1>5, <1>6, <1>7

\* The client takes one frame.  With the first that is no noise the old
\* requests are gone, and with the reply to a SET_MASK that request is.
LEMMA DropMoves ==
    ASSUME LinkTypeOK, pend # <<>>, pend' = Tail(pend), UNCHANGED <<toHost, toModem>>,
           SameGoal
    PROVE  /\ LinkTypeOK'
           /\ OldFirst => OldFirst'
           /\ NoneInFlight => NoneInFlight'
           /\ OnlyMine => OnlyMine'
           /\ OldFirst /\ Head(pend) \notin Noise /\ ~IsSet(Head(pend)) => NoneInFlight'
           /\ OnlyMine /\ IsSet(Head(pend)) => NoneInFlight' /\ Done(Head(pend))
<1>1. /\ pend \in Seq(Frames) /\ pend' \in Seq(Frames) /\ Len(pend') = Len(pend) - 1
      /\ \A i \in 1 .. Len(pend') : pend'[i] = pend[i + 1]
  BY HeadTailProperties DEF LinkTypeOK
<1>2. Len(pend) \in Nat /\ Len(pend) >= 1 /\ Head(pend) = pend[1]
  BY <1>1
<1>3. \A i \in 1 .. Len(pend') : i + 1 \in 1 .. Len(pend) /\ i \in 1 .. Len(pend)
  BY <1>1, <1>2
<1>4. Mine' = Mine /\ mask'[group'] = mask[group]
  BY DEF SameGoal, Mine
<1>5. Quiet(pend) => Quiet(pend')
  BY <1>1, <1>3 DEF Quiet
<1>6. NoSet(pend) => NoSet(pend')
  BY <1>1, <1>3 DEF NoSet
<1>7. LinkTypeOK'
  BY <1>1 DEF LinkTypeOK
<1>8. OldFirst => OldFirst'
  <2> SUFFICES ASSUME OldFirst PROVE OldFirst'
    OBVIOUS
  <2>1. \A i \in 1 .. Len(pend') :
            IsSet(pend'[i]) => \A j \in 1 .. i - 1 : pend'[j] \in Noise
    <3> SUFFICES ASSUME NEW i \in 1 .. Len(pend'), IsSet(pend'[i]), NEW j \in 1 .. i - 1
                 PROVE  pend'[j] \in Noise
      OBVIOUS
    <3>1. j \in 1 .. Len(pend') /\ j + 1 \in 1 .. (i + 1) - 1
      BY <1>1, <1>2
    <3>2. IsSet(pend[i + 1]) /\ i + 1 \in 1 .. Len(pend)
      BY <1>1, <1>3
    <3>3. pend[j + 1] \in Noise
      BY <3>1, <3>2 DEF OldFirst
    <3>4. QED
      BY <1>1, <3>1, <3>3
  <2>2. QED
    BY <1>5, <2>1 DEF OldFirst, Quiet
<1>9. NoneInFlight => NoneInFlight'
  BY <1>6 DEF NoneInFlight, NoSet
<1>10. OnlyMine => OnlyMine'
  <2> SUFFICES ASSUME OnlyMine PROVE OnlyMine'
    OBVIOUS
  <2>1. ASSUME NEW i \in 1 .. Len(pend'), IsSet(pend'[i])
        PROVE  /\ pend'[i].body # <<"failed">> => mask'[group'] = Mine'
               /\ \A j \in 1 .. Len(pend') : IsSet(pend'[j]) => j = i
    <3>1. IsSet(pend[i + 1]) /\ i + 1 \in 1 .. Len(pend) /\ pend'[i] = pend[i + 1]
      BY <1>1, <1>3, <2>1
    <3>2. Done(pend[i + 1]) /\ \A j \in 1 .. Len(pend) : IsSet(pend[j]) => j = i + 1
      BY <3>1 DEF OnlyMine
    <3>3. pend'[i].body # <<"failed">> => mask'[group'] = Mine'
      BY <1>4, <3>1, <3>2 DEF Done
    <3>4. ASSUME NEW j \in 1 .. Len(pend'), IsSet(pend'[j]) PROVE j = i
      <4>1. j + 1 \in 1 .. Len(pend) /\ IsSet(pend[j + 1])
        BY <1>1, <1>3, <3>4
      <4>2. j + 1 = i + 1
        BY <3>2, <4>1
      <4>3. QED
        BY <4>2
    <3>5. QED
      BY <3>3, <3>4
  <2>2. ASSUME NEW i \in 1 .. Len(toModem), IsSet(toModem[i])
        PROVE  /\ i = Len(toModem) /\ toModem[i] = SetMask(group, Mine)
               /\ NoSet(toHost) /\ NoSet(pend')
    BY <1>6, <2>2 DEF OnlyMine
  <2>3. ASSUME NEW i \in 1 .. Len(toHost), IsSet(toHost[i])
        PROVE  /\ NoSet(pend') /\ Done(toHost[i])
               /\ \A j \in 1 .. Len(toHost) : IsSet(toHost[j]) => j = i
    BY <1>6, <2>3 DEF OnlyMine
  <2>4. group' = group /\ toHost' = toHost /\ toModem' = toModem
    BY DEF SameGoal
  <2>5. NoSet(pend') = NoSet(pend)' /\ NoSet(toHost)' = NoSet(toHost)
    BY <2>4 DEF NoSet
  <2>6. QED
    BY <1>4, <2>1, <2>2, <2>3, <2>4, <2>5 DEF OnlyMine, Done
<1>11. OldFirst /\ Head(pend) \notin Noise /\ ~IsSet(Head(pend)) => NoneInFlight'
  <2> SUFFICES ASSUME OldFirst, Head(pend) \notin Noise, ~IsSet(Head(pend))
               PROVE  NoneInFlight'
    OBVIOUS
  <2>1. ~Quiet(pend) /\ pend[1] \notin Noise
    BY <1>2 DEF Quiet
  <2>2. NoSet(toModem) /\ NoSet(toHost)
    BY <2>1 DEF OldFirst, NoSet
  <2>3. ASSUME NEW i \in 1 .. Len(pend), IsSet(pend[i]) PROVE FALSE
    <3>1. i # 1
      BY <1>2, <2>3
    <3>2. 1 \in 1 .. i - 1
      BY <3>1
    <3>3. QED
      BY <2>1, <2>3, <3>2 DEF OldFirst
  <2>4. NoSet(pend)
    BY <2>3 DEF NoSet
  <2>5. QED
    BY <1>6, <2>2, <2>4 DEF NoneInFlight, NoSet
<1>12. OnlyMine /\ IsSet(Head(pend)) => NoneInFlight' /\ Done(Head(pend))
  <2> SUFFICES ASSUME OnlyMine, IsSet(Head(pend))
               PROVE  NoneInFlight' /\ Done(Head(pend))
    OBVIOUS
  <2>1. IsSet(pend[1]) /\ 1 \in 1 .. Len(pend)
    BY <1>2
  <2>2. ~NoSet(pend)
    BY <2>1 DEF NoSet
  <2>3. NoSet(toModem) /\ NoSet(toHost)
    BY <2>2 DEF OnlyMine, NoSet
  <2>4. \A j \in 1 .. Len(pend) : IsSet(pend[j]) => j = 1
    BY <2>1 DEF OnlyMine
  <2>5. NoSet(pend')
    <3> SUFFICES ASSUME NEW i \in 1 .. Len(pend'), IsSet(pend'[i]) PROVE FALSE
      BY DEF NoSet
    <3>1. i + 1 = 1
      BY <1>1, <1>3, <2>4
    <3>2. QED
      BY <3>1
  <2>6. QED
    BY <1>2, <2>1, <2>3, <2>5 DEF NoneInFlight, NoSet, OnlyMine
<1>13. QED
  BY <1>7, <1>8, <1>9, <1>10, <1>11, <1>12

\* A frame nobody asked for arrives.
LEMMA NoiseMoves ==
    ASSUME LinkTypeOK, NEW f \in Noise, toHost' = Append(toHost, f),
           UNCHANGED <<pend, toModem>>, SameGoal
    PROVE  /\ LinkTypeOK'
           /\ OldFirst => OldFirst'
           /\ NoneInFlight => NoneInFlight'
           /\ OnlyMine => OnlyMine'
<1>1. toHost \in Seq(Frames) /\ f \in Frames /\ f \in Noise /\ ~IsSet(f)
  BY NoiseIsNoReply DEF LinkTypeOK, Frames
<1>2. /\ toHost' \in Seq(Frames) /\ Len(toHost') = Len(toHost) + 1
      /\ \A i \in 1 .. Len(toHost) : toHost'[i] = toHost[i]
      /\ toHost'[Len(toHost) + 1] = f
  BY <1>1, AppendProperties
<1>3. \A i \in 1 .. Len(toHost') : i \in 1 .. Len(toHost) \/ i = Len(toHost) + 1
  BY <1>1, <1>2
<1>4. Mine' = Mine /\ mask'[group'] = mask[group] /\ group' = group
  BY DEF SameGoal, Mine
<1>5. Quiet(toHost) => Quiet(toHost')
  BY <1>1, <1>2, <1>3 DEF Quiet
<1>6. NoSet(toHost) => NoSet(toHost')
  BY <1>1, <1>2, <1>3 DEF NoSet
<1>7. \A i \in 1 .. Len(toHost') : IsSet(toHost'[i]) =>
          i \in 1 .. Len(toHost) /\ IsSet(toHost[i]) /\ toHost'[i] = toHost[i]
  BY <1>1, <1>2, <1>3
<1>8. LinkTypeOK'
  BY <1>2 DEF LinkTypeOK
<1>9. OldFirst => OldFirst'
  <2> SUFFICES ASSUME OldFirst PROVE OldFirst'
    OBVIOUS
  <2>1. ASSUME NEW i \in 1 .. Len(toHost'), IsSet(toHost'[i])
        PROVE  Quiet(pend) /\ \A j \in 1 .. i - 1 : toHost'[j] \in Noise
    <3>1. i \in 1 .. Len(toHost) /\ IsSet(toHost[i])
      BY <1>7, <2>1
    <3>2. Quiet(pend) /\ \A j \in 1 .. i - 1 : toHost[j] \in Noise
      BY <3>1 DEF OldFirst
    <3>3. \A j \in 1 .. i - 1 : j \in 1 .. Len(toHost)
      BY <1>1, <3>1
    <3>4. QED
      BY <1>2, <3>2, <3>3
  <2>2. QED
    BY <1>5, <2>1 DEF OldFirst, Quiet
<1>10. NoneInFlight => NoneInFlight'
  BY <1>6 DEF NoneInFlight, NoSet
<1>11. OnlyMine => OnlyMine'
  <2> SUFFICES ASSUME OnlyMine PROVE OnlyMine'
    OBVIOUS
  <2>1. ASSUME NEW i \in 1 .. Len(toHost'), IsSet(toHost'[i])
        PROVE  /\ NoSet(pend)
               /\ toHost'[i].body # <<"failed">> => mask'[group'] = Mine'
               /\ \A j \in 1 .. Len(toHost') : IsSet(toHost'[j]) => j = i
    <3>1. i \in 1 .. Len(toHost) /\ IsSet(toHost[i]) /\ toHost'[i] = toHost[i]
      BY <1>7, <2>1
    <3>2. /\ NoSet(pend) /\ Done(toHost[i])
          /\ \A j \in 1 .. Len(toHost) : IsSet(toHost[j]) => j = i
      BY <3>1 DEF OnlyMine
    <3>3. QED
      BY <1>4, <1>7, <3>1, <3>2 DEF Done
  <2>2. ASSUME NEW i \in 1 .. Len(toModem), IsSet(toModem[i])
        PROVE  /\ i = Len(toModem) /\ toModem[i] = SetMask(group, Mine)
               /\ NoSet(toHost') /\ NoSet(pend)
    BY <1>6, <2>2 DEF OnlyMine
  <2>3. ASSUME NEW i \in 1 .. Len(pend), IsSet(pend[i])
        PROVE  Done(pend[i]) /\ \A j \in 1 .. Len(pend) : IsSet(pend[j]) => j = i
    BY <2>3 DEF OnlyMine
  <2>4. NoSet(pend)' = NoSet(pend) /\ NoSet(toHost)' = NoSet(toHost')
    BY DEF NoSet
  <2>5. QED
    BY <1>4, <2>1, <2>2, <2>3, <2>4 DEF OnlyMine, Done
<1>12. QED
  BY <1>8, <1>9, <1>10, <1>11

\* The modem takes a request and answers it with one frame or none: a SET_MASK
\* frame only for a SET_MASK, and then a success means the mask is set.
ModemDid ==
    /\ toModem # <<>> /\ toModem' = Tail(toModem)
    /\ UNCHANGED <<pend, phase, group>>
    /\ LET r == Head(toModem)
       IN  /\ mask' = mask \/ (IsSet(r) /\ mask' = [mask EXCEPT ![r.body[1]] = r.body[2]])
           /\ \/ toHost' = toHost
              \/ \E f \in Replies :
                    /\ toHost' = Append(toHost, f)
                    /\ IsSet(f) => /\ IsSet(r)
                                   /\ f.body # <<"failed">> => mask'[r.body[1]] = r.body[2]

LEMMA ModemMoves ==
    ASSUME LinkTypeOK, mask \in [Groups -> Masks], ModemDid
    PROVE  /\ LinkTypeOK' /\ mask' \in [Groups -> Masks]
           /\ OldFirst => OldFirst'
           /\ NoneInFlight => NoneInFlight' /\ mask' = mask
           /\ OnlyMine => OnlyMine' /\ \A g \in Groups : g # group => mask'[g] = mask[g]
<1> DEFINE r == Head(toModem)
<1>1. /\ toModem \in Seq(Requests) /\ toModem # <<>> /\ toModem' = Tail(toModem)
      /\ toHost \in Seq(Frames) /\ pend' = pend /\ phase' = phase /\ group' = group
  BY DEF LinkTypeOK, ModemDid
<1>2. /\ r \in Requests /\ toModem' \in Seq(Requests) /\ Len(toModem') = Len(toModem) - 1
      /\ \A i \in 1 .. Len(toModem') : toModem'[i] = toModem[i + 1]
  BY <1>1, HeadTailProperties
<1>3. Len(toModem) \in Nat /\ Len(toModem) >= 1 /\ r = toModem[1]
  BY <1>1
<1>4. \A i \in 1 .. Len(toModem') : i + 1 \in 1 .. Len(toModem)
  BY <1>2, <1>3
<1>5. Mine' = Mine
  BY <1>1 DEF Mine
<1>6. mask' = mask \/ (IsSet(r) /\ mask' = [mask EXCEPT ![r.body[1]] = r.body[2]])
  BY DEF ModemDid
<1>7. IsSet(r) => \E g \in Groups, m \in Masks : r = SetMask(g, m)
  <2>1. r \in {Spc, Ranges} => ~IsSet(r)
    BY <1>2, RequestKinds
  <2>2. r \in {Spc, Ranges} \cup {SetMask(g, m) : g \in Groups, m \in Masks}
    BY <1>2 DEF Requests
  <2>3. QED
    BY <2>1, <2>2
<1>8. IsSet(r) => r.body[1] \in Groups /\ r.body[2] \in Masks
  BY <1>2, <1>7, RequestKinds
<1> HIDE DEF r
<1>9. mask' \in [Groups -> Masks]
  BY <1>6, <1>8
<1>10. \/ toHost' = toHost
       \/ \E f \in Replies :
             /\ toHost' = Append(toHost, f)
             /\ IsSet(f) => /\ IsSet(r)
                            /\ f.body # <<"failed">> => mask'[r.body[1]] = r.body[2]
  BY DEF ModemDid, r
<1>11. /\ toHost' \in Seq(Frames)
       /\ \A i \in 1 .. Len(toHost') :
             \/ i \in 1 .. Len(toHost) /\ toHost'[i] = toHost[i]
             \/ /\ i = Len(toHost) + 1
                /\ IsSet(toHost'[i]) =>
                      /\ IsSet(r)
                      /\ toHost'[i].body # <<"failed">> => mask'[r.body[1]] = r.body[2]
  <2>1. CASE toHost' = toHost
    BY <1>1, <2>1
  <2>2. ASSUME NEW f \in Replies, toHost' = Append(toHost, f),
               IsSet(f) => /\ IsSet(r)
                           /\ f.body # <<"failed">> => mask'[r.body[1]] = r.body[2]
        PROVE  /\ toHost' \in Seq(Frames)
               /\ \A i \in 1 .. Len(toHost') :
                     \/ i \in 1 .. Len(toHost) /\ toHost'[i] = toHost[i]
                     \/ /\ i = Len(toHost) + 1
                        /\ IsSet(toHost'[i]) =>
                              /\ IsSet(r)
                              /\ toHost'[i].body # <<"failed">> => mask'[r.body[1]] = r.body[2]
    <3>1. f \in Frames
      BY DEF Frames
    <3>2. /\ toHost' \in Seq(Frames) /\ Len(toHost') = Len(toHost) + 1
          /\ \A i \in 1 .. Len(toHost) : toHost'[i] = toHost[i]
          /\ toHost'[Len(toHost) + 1] = f
      BY <1>1, <2>2, <3>1, AppendProperties
    <3>3. \A i \in 1 .. Len(toHost') : i \in 1 .. Len(toHost) \/ i = Len(toHost) + 1
      BY <1>1, <3>2
    <3>4. QED
      BY <2>2, <3>2, <3>3
  <2>3. QED
    BY <1>10, <2>1, <2>2
<1>12. LinkTypeOK'
  BY <1>1, <1>2, <1>11 DEF LinkTypeOK
<1>13. OldFirst => OldFirst'
  <2> SUFFICES ASSUME OldFirst PROVE OldFirst'
    OBVIOUS
  <2>1. \A i \in 1 .. Len(toModem') : ~IsSet(toModem'[i])
    <3> SUFFICES ASSUME NEW i \in 1 .. Len(toModem'), IsSet(toModem[i + 1]) PROVE FALSE
      BY <1>2
    <3>1. i + 1 = 1
      BY <1>4 DEF OldFirst
    <3>2. QED
      BY <3>1
  <2>2. IsSet(r) => Quiet(toHost) /\ Quiet(pend)
    BY <1>3 DEF OldFirst
  <2>3. ASSUME NEW i \in 1 .. Len(toHost'), IsSet(toHost'[i])
        PROVE  Quiet(pend) /\ \A j \in 1 .. i - 1 : toHost'[j] \in Noise
    <3>1. CASE i \in 1 .. Len(toHost) /\ toHost'[i] = toHost[i]
      <4>1. Quiet(pend) /\ \A j \in 1 .. i - 1 : toHost[j] \in Noise
        BY <2>3, <3>1 DEF OldFirst
      <4>2. \A j \in 1 .. i - 1 : j \in 1 .. Len(toHost') /\ j # Len(toHost) + 1
        BY <1>1, <3>1
      <4>3. QED
        BY <1>11, <4>1, <4>2
    <3>2. CASE i = Len(toHost) + 1 /\ IsSet(r)
      <4>1. Quiet(toHost) /\ Quiet(pend)
        BY <2>2, <3>2
      <4>2. \A j \in 1 .. i - 1 : j \in 1 .. Len(toHost') /\ j \in 1 .. Len(toHost)
                                  /\ j # Len(toHost) + 1
        BY <1>1, <3>2
      <4>3. QED
        BY <1>11, <4>1, <4>2 DEF Quiet
    <3>3. QED
      BY <1>11, <2>3, <3>1, <3>2
  <2>4. QED
    BY <1>1, <2>1, <2>3 DEF OldFirst, Quiet
<1>14. NoneInFlight => NoneInFlight' /\ mask' = mask
  <2> SUFFICES ASSUME NoneInFlight PROVE NoneInFlight' /\ mask' = mask
    OBVIOUS
  <2>1. ~IsSet(r)
    BY <1>3 DEF NoneInFlight, NoSet
  <2>2. NoSet(toModem')
    BY <1>2, <1>4 DEF NoneInFlight, NoSet
  <2>3. NoSet(toHost')
    BY <1>11, <2>1 DEF NoneInFlight, NoSet
  <2>4. QED
    BY <1>1, <1>6, <2>1, <2>2, <2>3 DEF NoneInFlight, NoSet
<1>15. OnlyMine => OnlyMine' /\ \A g \in Groups : g # group => mask'[g] = mask[g]
  <2> SUFFICES ASSUME OnlyMine
               PROVE  OnlyMine' /\ \A g \in Groups : g # group => mask'[g] = mask[g]
    OBVIOUS
  <2>1. CASE IsSet(r)
    <3>1. Len(toModem) = 1 /\ r = SetMask(group, Mine) /\ NoSet(toHost) /\ NoSet(pend)
      <4>1. 1 \in 1 .. Len(toModem) /\ IsSet(toModem[1])
        BY <1>3, <2>1
      <4>2. 1 = Len(toModem) /\ toModem[1] = SetMask(group, Mine) /\ NoSet(toHost) /\ NoSet(pend)
        BY <4>1 DEF OnlyMine
      <4>3. QED
        BY <1>3, <4>2
    <3>2. r.body[1] = group /\ r.body[2] = Mine
      BY <3>1 DEF SetMask, Request
    <3>3. \A g \in Groups : g # group => mask'[g] = mask[g]
      BY <1>6, <3>2
    <3>4. 1 .. Len(toModem') = {}
      BY <1>2, <3>1
    <3>5. ASSUME NEW i \in 1 .. Len(toHost'), IsSet(toHost'[i])
          PROVE  /\ NoSet(pend) /\ i = Len(toHost) + 1
                 /\ toHost'[i].body # <<"failed">> => mask'[group] = Mine
      BY <1>11, <3>1, <3>2, <3>5 DEF NoSet
    <3>6. NoSet(pend)' = NoSet(pend)
      BY <1>1 DEF NoSet
    <3>7. \A i \in 1 .. Len(pend) : ~IsSet(pend[i])
      BY <3>1 DEF NoSet
    <3>8. OnlyMine'
      BY <1>1, <1>5, <3>4, <3>5, <3>6, <3>7 DEF OnlyMine, Done
    <3>9. QED
      BY <3>3, <3>8
  <2>2. CASE ~IsSet(r)
    <3>1. mask' = mask
      BY <1>6, <2>2
    <3>2. \A i \in 1 .. Len(toHost') : IsSet(toHost'[i]) =>
              i \in 1 .. Len(toHost) /\ toHost'[i] = toHost[i]
      BY <1>11, <2>2
    <3>3. NoSet(toHost) => NoSet(toHost')
      BY <3>2 DEF NoSet
    <3>4. ASSUME NEW i \in 1 .. Len(toModem'), IsSet(toModem'[i])
          PROVE  /\ i = Len(toModem') /\ toModem'[i] = SetMask(group, Mine)
                 /\ NoSet(toHost') /\ NoSet(pend)
      <4>1. i + 1 \in 1 .. Len(toModem) /\ IsSet(toModem[i + 1])
        BY <1>2, <1>4, <3>4
      <4>2. /\ i + 1 = Len(toModem) /\ toModem[i + 1] = SetMask(group, Mine)
            /\ NoSet(toHost) /\ NoSet(pend)
        BY <4>1 DEF OnlyMine
      <4>3. QED
        BY <1>2, <1>3, <3>3, <4>2
    <3>5. ASSUME NEW i \in 1 .. Len(toHost'), IsSet(toHost'[i])
          PROVE  /\ NoSet(pend) /\ Done(toHost'[i])
                 /\ \A j \in 1 .. Len(toHost') : IsSet(toHost'[j]) => j = i
      <4>1. i \in 1 .. Len(toHost) /\ toHost'[i] = toHost[i] /\ IsSet(toHost[i])
        BY <3>2, <3>5
      <4>2. /\ NoSet(pend) /\ Done(toHost[i])
            /\ \A j \in 1 .. Len(toHost) : IsSet(toHost[j]) => j = i
        BY <4>1 DEF OnlyMine
      <4>3. QED
        BY <3>2, <4>1, <4>2
    <3>6. ASSUME NEW i \in 1 .. Len(pend), IsSet(pend[i])
          PROVE  Done(pend[i]) /\ \A j \in 1 .. Len(pend) : IsSet(pend[j]) => j = i
      BY <3>6 DEF OnlyMine
    <3>7. NoSet(pend)' = NoSet(pend) /\ NoSet(toHost)' = NoSet(toHost')
      BY <1>1 DEF NoSet
    <3>8. OnlyMine'
      BY <1>1, <1>5, <3>1, <3>4, <3>5, <3>6, <3>7 DEF OnlyMine, Done
    <3>9. QED
      BY <3>1, <3>8
  <2>3. QED
    BY <2>1, <2>2
<1>16. QED
  BY <1>9, <1>12, <1>13, <1>14, <1>15

\* What the actions of the modem do.
LEMMA ModemStepDoes ==
    ASSUME LinkTypeOK, mask \in [Groups -> Masks], ModemStep
    PROVE  /\ ModemDid
           /\ UNCHANGED <<dead, pc, req, late, answer, at, tries, over, inRecv, written, why>>
<1>1. /\ toHost \o <<>> = toHost
      /\ \A f \in Frames : toHost \o <<f>> = Append(toHost, f)
  <2>1. toHost \in Seq(Frames)
    BY DEF LinkTypeOK
  <2>2. toHost \o <<>> = toHost
    BY <2>1, ConcatEmptySeq
  <2>3. ASSUME NEW f \in Frames PROVE toHost \o <<f>> = Append(toHost, f)
    BY <2>1, AppendIsConcat
  <2>4. QED
    BY <2>2, <2>3
<1>2. ASSUME NEW r \in Requests, ModemTakes(r), UNCHANGED <<main, phase, group>>,
             mask' = mask \/ (IsSet(r) /\ mask' = [mask EXCEPT ![r.body[1]] = r.body[2]]),
             \/ ModemAnswers(<<>>)
             \/ \E f \in Replies :
                   /\ ModemAnswers(<<f>>)
                   /\ IsSet(f) => /\ IsSet(r)
                                  /\ f.body # <<"failed">> => mask'[r.body[1]] = r.body[2]
      PROVE  /\ ModemDid
             /\ UNCHANGED <<dead, pc, req, late, answer, at, tries, over, inRecv, written, why>>
  <2>1. /\ toModem # <<>> /\ r = Head(toModem) /\ toModem' = Tail(toModem)
        /\ UNCHANGED <<pend, dead, pc, req, late, answer>>
    BY <1>2 DEF ModemTakes, ModemAnswers
  <2>2. \/ toHost' = toHost
        \/ \E f \in Replies :
              /\ toHost' = Append(toHost, f)
              /\ IsSet(f) => /\ IsSet(r)
                             /\ f.body # <<"failed">> => mask'[r.body[1]] = r.body[2]
    BY <1>1, <1>2 DEF ModemAnswers, Frames
  <2>3. QED
    BY <1>2, <2>1, <2>2 DEF ModemDid, main
<1>3. \A sub \in {"RETRIEVE_RANGES", "SET_MASK"}, status \in {"success", "failed"} :
          /\ Frame("LOG_CONFIG", sub, <<status>>) \in Replies
          /\ Frame("LOG_CONFIG", sub, <<status>>).sub = sub
          /\ Frame("LOG_CONFIG", sub, <<status>>).body = <<status>>
  BY ReplyKinds
<1>4. CASE ModemUnlocks
  <2>1. PICK frames \in {<<Frame("SPC", "", <<"accepted">>)>>, <<Frame("SPC", "", <<"refused">>)>>,
                         <<Rejection(Spc)>>, <<>>} : ModemAnswers(frames)
    BY <1>4 DEF ModemUnlocks
  <2>2. ModemTakes(Spc) /\ UNCHANGED <<main, mask>>
    BY <1>4 DEF ModemUnlocks
  <2>3. Spc \in Requests
    BY RequestTypes
  <2>4. \A f \in SpcReplies \cup {Rejection(Spc)} : f \in Replies /\ ~IsSet(f)
    BY <2>3, ReplyKinds DEF IsSet
  <2>5. \/ ModemAnswers(<<>>)
        \/ \E f \in SpcReplies \cup {Rejection(Spc)} : ModemAnswers(<<f>>)
    BY <2>1 DEF SpcReplies
  <2>6. QED
    BY <1>2, <2>2, <2>3, <2>4, <2>5 DEF main
<1>5. CASE ModemReports
  <2>1. Ranges.op = "LOG_CONFIG" /\ Ranges.sub = "RETRIEVE_RANGES" /\ Ranges \in Requests
    BY DEF Ranges, Request, Requests
  <2>2. PICK f \in {Frame("LOG_CONFIG", "RETRIEVE_RANGES", <<"success">>),
                    Frame("LOG_CONFIG", "RETRIEVE_RANGES", <<"failed">>), Rejection(Ranges)} :
            ModemAnswers(<<f>>)
    BY <1>5, <2>1 DEF ModemReports
  <2>3. ModemTakes(Ranges) /\ UNCHANGED <<main, mask>>
    BY <1>5 DEF ModemReports
  <2>4. f \in Replies /\ ~IsSet(f)
    <3>1. Rejection(Ranges) \in Replies /\ ~IsSet(Rejection(Ranges))
      BY <2>1, ReplyKinds DEF IsSet
    <3>2. QED
      BY <1>3, <2>2, <3>1 DEF IsSet
  <2>5. QED
    BY <1>2, <2>1, <2>2, <2>3, <2>4 DEF main
<1>6. CASE ModemSetsMask
  <2>1. PICK g \in Groups, m \in Masks :
            /\ ModemTakes(SetMask(g, m))
            /\ \/ /\ ModemAnswers(<<Frame("LOG_CONFIG", "SET_MASK", <<"success">>)>>)
                  /\ mask' = [mask EXCEPT ![g] = m]
               \/ /\ ModemAnswers(<<Frame("LOG_CONFIG", "SET_MASK", <<"failed">>)>>)
                  /\ UNCHANGED mask
               \/ /\ ModemAnswers(<<Rejection(SetMask(g, m))>>)
                  /\ UNCHANGED mask
            /\ UNCHANGED main
    BY <1>6 DEF ModemSetsMask
  <2> DEFINE r == SetMask(g, m)
  <2>2. r \in Requests /\ IsSet(r) /\ r.body[1] = g /\ r.body[2] = m
        /\ r.op = "LOG_CONFIG" /\ r.sub = "SET_MASK"
    <3>1. r \in Requests
      BY DEF Requests
    <3>2. QED
      BY <3>1, RequestKinds DEF IsSet
  <2>3. Rejection(r) \in Replies /\ ~IsSet(Rejection(r))
    BY <2>2, ReplyKinds DEF IsSet
  <2>4. Frame("LOG_CONFIG", "SET_MASK", <<"failed">>).body = <<"failed">>
    BY DEF Frame
  <2> HIDE DEF r
  <2>5. CASE /\ ModemAnswers(<<Frame("LOG_CONFIG", "SET_MASK", <<"success">>)>>)
             /\ mask' = [mask EXCEPT ![r.body[1]] = r.body[2]]
    <3>1. mask'[r.body[1]] = r.body[2]
      BY <2>2, <2>5
    <3>2. QED
      BY <1>2, <1>3, <2>1, <2>2, <2>5, <3>1 DEF main, r
  <2>6. CASE /\ ModemAnswers(<<Frame("LOG_CONFIG", "SET_MASK", <<"failed">>)>>)
             /\ UNCHANGED mask
    BY <1>2, <1>3, <2>1, <2>2, <2>4, <2>6 DEF main, r
  <2>7. CASE ModemAnswers(<<Rejection(r)>>) /\ UNCHANGED mask
    BY <1>2, <2>1, <2>2, <2>3, <2>7 DEF main, r
  <2>8. QED
    BY <2>1, <2>2, <2>5, <2>6, <2>7 DEF r
<1>7. QED
  BY <1>4, <1>5, <1>6 DEF ModemStep

\* A movement on the link while main() and _send_recv stay where they are.
LEMMA LinkMovesKeep ==
    ASSUME SIInv, UNCHANGED <<main, pc, req, answer>>,
           LinkTypeOK', mask' \in [Groups -> Masks],
           OldFirst => OldFirst',
           NoneInFlight => NoneInFlight' /\ mask' = mask,
           OnlyMine => OnlyMine' /\ \A g \in Groups : g # group => mask'[g] = mask[g]
    PROVE  SIInv'
<1>1. UNCHANGED <<at, phase, group, tries, over, inRecv, written, why, pc, req, answer>>
  BY DEF main
<1>2. Mine' = Mine /\ Accepted' = Accepted
  BY <1>1 DEF Mine, Accepted
<1>3. SessionTypeOK'
  BY <1>1 DEF SIInv, SessionTypeOK
<1>4. InFlight'
  BY <1>1, <1>2 DEF SIInv, InFlight
<1>5. Asked' /\ Answered' /\ why' # "Unexpected op"
  BY <1>1, <1>2 DEF SIInv, Asked, Answered
<1>6. MasksSet'
  <2>1. ASSUME at = "set"
        PROVE  /\ group \in Groups
               /\ pc = "wait" \/ Accepted =>
                     \A g \in Groups : g < group => mask'[g] = MaskFor(phase, g)
               /\ Accepted /\ answer.body # <<"failed">> => mask'[group] = Mine
    <3>1. CASE pc = "wait"
      <4>1. OnlyMine /\ ~Accepted
        BY <2>1, <3>1 DEF SIInv, InFlight, Accepted
      <4>2. \A g \in Groups : g < group => g # group
        <5>1. group \in Groups
          BY <2>1 DEF SIInv, MasksSet
        <5>2. QED
          BY <5>1, SessionAssumption
      <4>3. QED
        BY <2>1, <3>1, <4>1, <4>2 DEF SIInv, MasksSet
    <3>2. CASE Accepted
      BY <2>1, <3>2 DEF SIInv, InFlight, MasksSet
    <3>3. QED
      BY <2>1, <3>1, <3>2 DEF SIInv, MasksSet
  <2>2. at \in {"capture", "exit"} => mask' = mask
    BY DEF SIInv, InFlight
  <2>3. QED
    BY <1>1, <1>2, <2>1, <2>2 DEF SIInv, MasksSet
<1>7. QED
  BY <1>3, <1>4, <1>5, <1>6 DEF SIInv

LEMMA SurroundingsKeep ==
    ASSUME SIInv,
           \/ (TimeoutPasses \/ Unsolicited \/ Hangup) /\ UNCHANGED <<main, mask>>
           \/ ModemStep
    PROVE  SIInv'
<1>1. LinkTypeOK /\ mask \in [Groups -> Masks]
  BY DEF SIInv, SessionTypeOK
<1>2. CASE ModemStep
  <2>1. ModemDid /\ UNCHANGED <<main, pc, req, answer>>
    BY <1>1, <1>2, ModemStepDoes DEF main, ModemDid
  <2>2. QED
    BY <1>1, <2>1, ModemMoves, LinkMovesKeep
<1>3. CASE Unsolicited /\ UNCHANGED <<main, mask>>
  <2>1. PICK f \in Noise : toHost' = Append(toHost, f)
    BY <1>3 DEF Unsolicited
  <2>2. UNCHANGED <<pend, toModem, pc, req, answer>> /\ SameGoal
    BY <1>3 DEF Unsolicited, SameGoal, main
  <2>3. /\ LinkTypeOK' /\ (OldFirst => OldFirst') /\ (NoneInFlight => NoneInFlight')
        /\ (OnlyMine => OnlyMine')
    BY <1>1, <2>1, <2>2, NoiseMoves
  <2>4. QED
    BY <1>1, <1>3, <2>2, <2>3, LinkMovesKeep
<1>4. CASE (TimeoutPasses \/ Hangup) /\ UNCHANGED <<main, mask>>
  <2>1. UNCHANGED <<toModem, toHost, pend, pc, req, answer, phase, group, mask, main>>
    BY <1>4 DEF TimeoutPasses, Hangup, main
  <2>2. LinkTypeOK' /\ (OldFirst => OldFirst') /\ (NoneInFlight => NoneInFlight')
    BY <1>1, <2>1 DEF LinkTypeOK, OldFirst, NoneInFlight, Quiet, NoSet
  <2>3. OnlyMine => OnlyMine'
    BY <2>1 DEF OnlyMine, NoSet, Done, Mine
  <2>4. QED
    BY <1>1, <2>1, <2>2, <2>3, LinkMovesKeep
<1>5. QED
  BY <1>2, <1>3, <1>4

-----------------------------------------------------------------------------
(* _send_recv.                                                             *)

LEMMA FillKeeps == SIInv /\ Fill /\ UNCHANGED <<main, mask>> => SIInv'
<1> SUFFICES ASSUME SIInv, Fill, UNCHANGED <<main, mask>> PROVE SIInv'
  OBVIOUS
<1>1. /\ pend = <<>> /\ pend' = toHost /\ toHost' = <<>> /\ toModem' = toModem
      /\ UNCHANGED <<pc, req, answer>> /\ SameGoal
  BY DEF Fill, SameGoal, main
<1>2. LinkTypeOK /\ mask \in [Groups -> Masks]
  BY DEF SIInv, SessionTypeOK
<1>3. /\ LinkTypeOK' /\ (OldFirst => OldFirst') /\ (NoneInFlight => NoneInFlight')
      /\ (OnlyMine => OnlyMine')
  BY <1>1, <1>2, FillMoves
<1>4. QED
  BY <1>1, <1>2, <1>3, LinkMovesKeep

\* It comes back with nothing: the caller will raise, or try the next SPC.
LEMMA NothingKeeps ==
    ASSUME SIInv, GiveUp \/ ReadEof, UNCHANGED <<main, mask>>
    PROVE  SIInv'
<1>1. /\ UNCHANGED <<toModem, toHost, pend, at, phase, group, tries, inRecv, why, mask>>
      /\ pc = "wait" /\ pc' = "ready" /\ answer' \in {NoReply, Eof}
  BY DEF GiveUp, ReadEof, Answer, main
<1>2. ~Accepted'
  <2>1. NoReply.op = "none" /\ Eof.op = "eof"
    BY DEF NoReply, Eof, Frame
  <2>2. answer'.op # "LOG_CONFIG"
    BY <1>1, <2>1
  <2>3. QED
    BY <2>2 DEF Accepted
<1>3. LinkTypeOK' /\ (OldFirst => OldFirst') /\ (NoneInFlight => NoneInFlight')
  BY <1>1 DEF SIInv, LinkTypeOK, OldFirst, NoneInFlight, Quiet, NoSet
<1>4. SessionTypeOK' /\ Asked' /\ Answered' /\ why' # "Unexpected op"
  BY <1>1 DEF SIInv, SessionTypeOK, Asked, Answered
<1>5. InFlight'
  BY <1>1, <1>2, <1>3 DEF SIInv, InFlight
<1>6. MasksSet'
  BY <1>1, <1>2 DEF SIInv, MasksSet
<1>7. QED
  BY <1>3, <1>4, <1>5, <1>6 DEF SIInv

\* One frame of the buffer: what subscribe_logs asked for, a rejection, or a
\* frame that is passed over.
LEMMA DispatchKeeps ==
    ASSUME SIInv, Dispatch, UNCHANGED <<main, mask>>
    PROVE  SIInv'
<1> DEFINE f == Head(pend)
<1>1. /\ pend # <<>> /\ pend' = Tail(pend) /\ UNCHANGED <<toHost, toModem, req>>
      /\ UNCHANGED <<at, phase, group, tries, inRecv, why, mask, main>> /\ SameGoal
      /\ pc = "wait"
  BY DEF Dispatch, SameGoal, main
<1>2. LinkTypeOK /\ mask \in [Groups -> Masks]
  BY DEF SIInv, SessionTypeOK
<1>3. /\ LinkTypeOK' /\ (OldFirst => OldFirst') /\ (NoneInFlight => NoneInFlight')
      /\ (OnlyMine => OnlyMine')
      /\ OldFirst /\ f \notin Noise /\ ~IsSet(f) => NoneInFlight'
      /\ OnlyMine /\ IsSet(f) => NoneInFlight' /\ Done(f)
  BY <1>1, <1>2, DropMoves
<1>4. CASE ~(Matches(f) \/ f.op = "BAD_CMD")
  <2>1. UNCHANGED <<pc, answer>>
    BY <1>4 DEF Dispatch
  <2>2. QED
    BY <1>1, <1>2, <1>3, <2>1, LinkMovesKeep
<1>5. CASE Matches(f) \/ f.op = "BAD_CMD"
  <2>1. pc' = "ready" /\ answer' = f
    BY <1>5 DEF Dispatch, Answer
  <2> HIDE DEF f
  <2>2. at \in {"spc", "ranges", "set"}
    BY <1>1 DEF SIInv, Asked
  <2>3. at = "ranges" /\ f.op # "BAD_CMD" =>
            f.op = "LOG_CONFIG" /\ f.sub = "RETRIEVE_RANGES" /\ f \notin Noise /\ ~IsSet(f)
    <3>1. at = "ranges" => req = Ranges
      BY <1>1 DEF SIInv, Asked
    <3>2. Ranges.op = "LOG_CONFIG" /\ Ranges.sub = "RETRIEVE_RANGES" /\ Ranges.match = TRUE
      BY DEF Ranges, Request
    <3>3. QED
      BY <1>5, <3>1, <3>2, NoiseIsNoReply DEF Matches, IsSet
  <2>4. at = "set" /\ f.op # "BAD_CMD" => IsSet(f)
    <3>1. at = "set" => req = SetMask(group, Mine)
      BY <1>1 DEF SIInv, Asked
    <3>2. /\ SetMask(group, Mine).op = "LOG_CONFIG" /\ SetMask(group, Mine).sub = "SET_MASK"
          /\ SetMask(group, Mine).match = TRUE
      BY DEF SetMask, Request
    <3>3. QED
      BY <1>5, <3>1, <3>2 DEF Matches, IsSet
  <2>5. SessionTypeOK'
    BY <1>1, <2>1 DEF SIInv, SessionTypeOK
  <2>6. Answered'
    BY <1>1, <2>1, <2>3, <2>4 DEF SIInv, Answered, IsSet
  <2>7. Accepted' => f.op = "LOG_CONFIG"
    BY <2>1 DEF Accepted
  <2>8. InFlight'
    <3>1. at = "spc" => OldFirst'
      BY <1>3 DEF SIInv, InFlight
    <3>2. at = "ranges" /\ phase # "clear" => NoneInFlight'
      BY <1>3 DEF SIInv, InFlight
    <3>3. at = "ranges" /\ phase = "clear" /\ Accepted' => NoneInFlight'
      BY <1>1, <1>3, <2>3, <2>7 DEF SIInv, InFlight
    <3>4. at = "set" /\ Accepted' => NoneInFlight'
      BY <1>1, <1>3, <2>4, <2>7 DEF SIInv, InFlight
    <3>5. QED
      BY <1>1, <2>1, <2>2, <3>1, <3>2, <3>3, <3>4 DEF InFlight
  <2>9. MasksSet'
    <3>1. at = "set" => /\ group \in Groups
                        /\ \A g \in Groups : g < group => mask[g] = MaskFor(phase, g)
      BY <1>1 DEF SIInv, MasksSet
    <3>2. at = "set" /\ Accepted' /\ f.body # <<"failed">> => mask[group] = Mine
      BY <1>1, <1>3, <2>4, <2>7 DEF SIInv, InFlight, Done
    <3>3. Mine' = Mine
      BY <1>1 DEF Mine
    <3>4. QED
      BY <1>1, <2>1, <2>2, <3>1, <3>2, <3>3 DEF MasksSet
  <2>10. Asked' /\ why' # "Unexpected op"
    BY <1>1, <2>1 DEF SIInv, Asked
  <2>11. QED
    BY <1>3, <2>5, <2>6, <2>8, <2>9, <2>10 DEF SIInv
<1>6. QED
  BY <1>4, <1>5

-----------------------------------------------------------------------------
(* main().                                                                 *)

\* A request goes out at the end of the link.
LEMMA SendMoves ==
    ASSUME LinkTypeOK, NEW r \in Requests, SendRecv(r)
    PROVE  /\ LinkTypeOK'
           /\ OldFirst /\ ~IsSet(r) => OldFirst'
           /\ NoneInFlight /\ ~IsSet(r) => NoneInFlight' /\ OldFirst'
           /\ NoneInFlight /\ r = SetMask(group, Mine)' => OnlyMine'
           /\ pc' = "wait" /\ req' = r
<1>1. /\ toModem \in Seq(Requests) /\ toModem' = Append(toModem, r)
      /\ UNCHANGED <<toHost, pend>> /\ pc' = "wait" /\ req' = r
  BY DEF LinkTypeOK, SendRecv
<1>2. /\ toModem' \in Seq(Requests) /\ Len(toModem') = Len(toModem) + 1
      /\ \A i \in 1 .. Len(toModem) : toModem'[i] = toModem[i]
      /\ toModem'[Len(toModem) + 1] = r
  BY <1>1, AppendProperties
<1>3. \A i \in 1 .. Len(toModem') : i \in 1 .. Len(toModem) \/ i = Len(toModem) + 1
  BY <1>1, <1>2
<1>4. LinkTypeOK'
  BY <1>1, <1>2 DEF LinkTypeOK
<1>5. ~IsSet(r) => \A i \in 1 .. Len(toModem') :
                      IsSet(toModem'[i]) => i \in 1 .. Len(toModem) /\ IsSet(toModem[i])
  BY <1>2, <1>3
<1>6. OldFirst /\ ~IsSet(r) => OldFirst'
  BY <1>1, <1>5 DEF OldFirst, Quiet
<1>7. NoneInFlight /\ ~IsSet(r) => NoneInFlight' /\ OldFirst'
  BY <1>1, <1>5 DEF NoneInFlight, OldFirst, Quiet, NoSet
<1>8. NoneInFlight /\ r = SetMask(group, Mine)' => OnlyMine'
  BY <1>1, <1>2, <1>3 DEF NoneInFlight, OnlyMine, NoSet
<1>9. QED
  BY <1>1, <1>4, <1>6, <1>7, <1>8

\* subscribe_logs never meets the reply of another sub-operation, and goes on
\* only from a success.
LEMMA FaultSays ==
    ASSUME SIInv, at \in {"ranges", "set"}, pc = "ready"
    PROVE  LET fault == Fault(IF at = "ranges" THEN "RETRIEVE_RANGES" ELSE "SET_MASK")
           IN  /\ fault # "Unexpected op"
               /\ fault = "nothing" => Accepted /\ answer.body # <<"failed">>
<1> DEFINE expected == IF at = "ranges" THEN "RETRIEVE_RANGES" ELSE "SET_MASK"
<1>1. \/ answer \in {Eof, NoReply} \/ answer.op = "BAD_CMD"
      \/ answer.op = "LOG_CONFIG" /\ answer.sub = expected
  BY DEF SIInv, Answered
<1>2. Eof.op = "eof" /\ NoReply.op = "none"
  BY DEF Eof, NoReply, Frame
<1> HIDE DEF expected
<1>3. CASE answer = Eof
  <2>1. Fault(expected) = "EOFError"
    BY <1>2, <1>3 DEF Fault, Eof, NoReply, Frame
  <2>2. QED
    BY <2>1 DEF expected
<1>4. CASE answer = NoReply
  <2>1. Fault(expected) = "Timed out"
    BY <1>2, <1>4 DEF Fault, Eof, NoReply, Frame
  <2>2. QED
    BY <2>1 DEF expected
<1>5. CASE answer.op = "BAD_CMD"
  <2>1. answer # Eof /\ answer # NoReply
    BY <1>2, <1>5
  <2>2. Fault(expected) = "Rejected"
    BY <1>5, <2>1 DEF Fault
  <2>3. QED
    BY <2>2 DEF expected
<1>6. CASE answer.op = "LOG_CONFIG" /\ answer.sub = expected
  <2>1. answer # Eof /\ answer # NoReply
    BY <1>2, <1>6
  <2>2. Fault(expected) = IF answer.body = <<"failed">> THEN "failed" ELSE "nothing"
    BY <1>6, <2>1 DEF Fault
  <2>3. QED
    BY <1>6, <2>2 DEF expected, Accepted
<1>7. QED
  BY <1>1, <1>3, <1>4, <1>5, <1>6

\* subscribe_logs starts with its RETRIEVE_RANGES.
LEMMA SubscribeKeeps ==
    ASSUME SIInv, SendRecv(Ranges), at' = "ranges", phase' \in {"clear", "arm", "final"},
           ~inRecv', UNCHANGED <<group, tries, why, mask>>,
           NoneInFlight \/ (at = "spc" /\ phase' = "clear")
    PROVE  SIInv'
<1>1. Ranges \in Requests /\ ~IsSet(Ranges)
  BY RequestTypes, RequestKinds
<1>2. /\ LinkTypeOK' /\ (OldFirst => OldFirst')
      /\ (NoneInFlight => NoneInFlight' /\ OldFirst')
      /\ pc' = "wait" /\ req' = Ranges
  BY <1>1, SendMoves DEF SIInv
<1>3. ~Accepted'
  BY <1>2 DEF Accepted
<1>4. InFlight'
  BY <1>2, <1>3 DEF SIInv, InFlight
<1>5. SessionTypeOK'
  BY <1>2 DEF SIInv, SessionTypeOK
<1>6. Asked' /\ Answered' /\ MasksSet'
  BY <1>2 DEF Asked, Answered, MasksSet
<1>7. QED
  BY <1>2, <1>4, <1>5, <1>6 DEF SIInv

\* main() raises.
LEMMA RaiseKeeps ==
    ASSUME SIInv, at' = "raised", why' # "Unexpected op", pc = "ready",
           at # "capture",
           UNCHANGED <<toModem, toHost, pend, pc, req, answer,
                       phase, group, tries, inRecv, mask>>
    PROVE  SIInv'
<1>1. SessionTypeOK'
  BY DEF SIInv, SessionTypeOK
<1>2. LinkTypeOK'
  BY DEF SIInv, LinkTypeOK
<1>3. InFlight'
  BY DEF InFlight
<1>4. Asked' /\ Answered'
  BY DEF Asked, Answered
<1>5. MasksSet'
  BY DEF MasksSet
<1>6. QED
  BY <1>1, <1>2, <1>3, <1>4, <1>5 DEF SIInv

LEMMA SpcKeeps == SIInv /\ (TrySpc \/ AfterSpc \/ SpcEof) => SIInv'
<1> SUFFICES ASSUME SIInv, TrySpc \/ AfterSpc \/ SpcEof PROVE SIInv'
  OBVIOUS
<1>1. CASE TrySpc
  <2>1. /\ at = "spc" /\ SendRecv(Spc) /\ tries' = tries + 1 /\ tries < SpcTries
        /\ UNCHANGED <<at, phase, group, over, inRecv, written, why, mask>>
    BY <1>1 DEF TrySpc
  <2>2. Spc \in Requests /\ ~IsSet(Spc)
    BY RequestTypes, RequestKinds
  <2>3. LinkTypeOK' /\ (OldFirst => OldFirst') /\ pc' = "wait" /\ req' = Spc
    BY <2>1, <2>2, SendMoves DEF SIInv
  <2>4. SessionTypeOK'
    <3>1. tries \in 0 .. SpcTries /\ SpcTries \in Nat
      BY SessionAssumption DEF SIInv, SessionTypeOK
    <3>2. tries' \in 0 .. SpcTries
      BY <2>1, <3>1
    <3>3. QED
      BY <2>1, <2>3, <3>2 DEF SIInv, SessionTypeOK
  <2>5. InFlight' /\ Asked' /\ Answered' /\ MasksSet'
    BY <2>1, <2>3 DEF SIInv, InFlight, Asked, Answered, MasksSet
  <2>6. QED
    BY <2>1, <2>3, <2>4, <2>5 DEF SIInv
<1>2. CASE AfterSpc
  <2>1. /\ at = "spc" /\ SendRecv(Ranges) /\ at' = "ranges" /\ phase' = "clear"
        /\ UNCHANGED <<group, tries, inRecv, why, mask>>
    BY <1>2 DEF AfterSpc, Subscribe
  <2>2. ~inRecv'
    BY <2>1 DEF SIInv, SessionTypeOK
  <2>3. QED
    BY <2>1, <2>2, SubscribeKeeps
<1>3. CASE SpcEof
  <2>1. /\ at' = "raised" /\ why' = "EOFError" /\ at = "spc"
        /\ UNCHANGED <<link, phase, group, tries, over, inRecv, written, mask>>
    BY <1>3 DEF SpcEof, Raise
  <2>2. UNCHANGED <<toModem, toHost, pend, pc, req, answer>>
    BY <2>1 DEF link
  <2>3. pc = "ready"
    BY <1>3 DEF SpcEof
  <2>4. QED
    BY <2>1, <2>2, <2>3, RaiseKeeps
<1>4. QED
  BY <1>1, <1>2, <1>3

LEMMA LeastIsLeast ==
    ASSUME NEW S, S \subseteq Groups, S # {}
    PROVE  Least(S) \in S /\ \A h \in S : Least(S) <= h
<1>1. \E g \in S : \A h \in S : g <= h
  BY SessionAssumption, LeastExists
<1>2. QED
  BY <1>1 DEF Least

\* The groups before the next one hold the masks subscribe_logs wants.
LEMMA BehindAreSet ==
    ASSUME SIInv, at \in {"ranges", "set"}, Accepted, answer.body # <<"failed">>
    PROVE  /\ NoneInFlight
           /\ \A g \in Groups : g \notin Remaining => mask[g] = MaskFor(phase, g)
<1>1. NoneInFlight
  BY DEF SIInv, InFlight
<1>2. ASSUME NEW g \in Groups, g \notin Remaining
      PROVE  mask[g] = MaskFor(phase, g)
  <2>1. at = "set" /\ ~(g > group)
    BY <1>2 DEF Remaining
  <2>2. /\ group \in Groups /\ mask[group] = Mine
        /\ \A h \in Groups : h < group => mask[h] = MaskFor(phase, h)
    BY <2>1 DEF SIInv, MasksSet
  <2>3. g < group \/ g = group
    BY <2>1, <2>2, SessionAssumption
  <2>4. QED
    BY <2>2, <2>3 DEF Mine
<1>3. QED
  BY <1>1, <1>2

LEMMA SetGroupKeeps ==
    ASSUME SIInv, at \in {"ranges", "set"}, Accepted, answer.body # <<"failed">>,
           Remaining # {}, SetGroup(Least(Remaining)), UNCHANGED mask
    PROVE  SIInv'
<1> DEFINE g == Least(Remaining)
<1>1. g \in Remaining /\ \A h \in Remaining : g <= h
  BY LeastIsLeast DEF Remaining
<1>2. /\ SendRecv(SetMask(g, MaskFor(phase, g))) /\ at' = "set" /\ group' = g
      /\ UNCHANGED <<phase, tries, over, inRecv, written, why, mask>>
  BY DEF SetGroup
<1> HIDE DEF g
<1>3. g \in Groups /\ Mine' = MaskFor(phase, g)
  BY <1>1, <1>2 DEF Remaining, Mine
<1>4. SetMask(g, MaskFor(phase, g)) \in Requests
  BY <1>3, RequestTypes, MineIsMask
<1>5. NoneInFlight
  BY BehindAreSet
<1>6. SetMask(g, MaskFor(phase, g)) = SetMask(group, Mine)'
  BY <1>2, <1>3
<1>7. /\ LinkTypeOK' /\ OnlyMine' /\ pc' = "wait"
      /\ req' = SetMask(g, MaskFor(phase, g))
  BY <1>2, <1>4, <1>5, <1>6, SendMoves DEF SIInv
<1>8. ~Accepted'
  BY <1>7 DEF Accepted
<1>9. \A h \in Groups : h < g => mask[h] = MaskFor(phase, h)
  <2>1. \A h \in Groups : h < g => h \notin Remaining
    BY <1>1, <1>3, SessionAssumption
  <2>2. QED
    BY <2>1, BehindAreSet
<1>10. ~inRecv
  BY DEF SIInv, SessionTypeOK
<1>11. SessionTypeOK'
  BY <1>2, <1>3, <1>7, <1>10 DEF SIInv, SessionTypeOK
<1>12. InFlight'
  BY <1>2, <1>7, <1>8 DEF InFlight
<1>13. Asked' /\ Answered'
  BY <1>2, <1>3, <1>7 DEF Asked, Answered
<1>14. MasksSet'
  BY <1>2, <1>3, <1>8, <1>9 DEF MasksSet
<1>15. QED
  BY <1>2, <1>7, <1>11, <1>12, <1>13, <1>14 DEF SIInv

LEMMA SubscribedKeeps ==
    ASSUME SIInv, at \in {"ranges", "set"}, Accepted, answer.body # <<"failed">>,
           Remaining = {}, Subscribed, UNCHANGED mask
    PROVE  SIInv'
<1>1. NoneInFlight /\ \A g \in Groups : mask[g] = MaskFor(phase, g)
  BY BehindAreSet
<1>2. phase \in {"clear", "arm", "final"} /\ ~inRecv
  BY DEF SIInv, SessionTypeOK
<1>3. CASE phase = "clear"
  <2>1. Subscribe("arm")
    BY <1>3 DEF Subscribed
  <2>2. QED
    BY <1>1, <1>2, <2>1, SubscribeKeeps DEF Subscribe
<1>4. CASE phase \in {"arm", "final"}
  <2>1. /\ at' = IF phase = "arm" THEN "capture" ELSE "exit"
        /\ UNCHANGED <<link, phase, group, tries, over, inRecv, written, why, mask>>
    BY <1>4 DEF Subscribed
  <2>2. UNCHANGED <<toModem, toHost, pend, pc, req, answer>> /\ pc = "ready"
    BY <2>1 DEF link, Accepted
  <2>3. LinkTypeOK' /\ NoneInFlight'
    BY <1>1, <2>2 DEF SIInv, LinkTypeOK, NoneInFlight, NoSet
  <2>4. \A g \in Groups : phase = "final" => mask[g] = "empty"
    BY <1>1 DEF MaskFor
  <2>5. SessionTypeOK'
    BY <1>2, <1>4, <2>1, <2>2 DEF SIInv, SessionTypeOK
  <2>6. InFlight' /\ Asked' /\ Answered'
    BY <1>4, <2>1, <2>2, <2>3 DEF InFlight, Asked, Answered
  <2>7. MasksSet'
    BY <1>1, <1>4, <2>1, <2>4 DEF MasksSet
  <2>8. QED
    BY <2>1, <2>3, <2>5, <2>6, <2>7 DEF SIInv
<1>5. QED
  BY <1>2, <1>3, <1>4

LEMMA GroupKeeps == SIInv /\ NextGroup => SIInv'
<1> SUFFICES ASSUME SIInv, NextGroup PROVE SIInv'
  OBVIOUS
<1> DEFINE fault == Fault(IF at = "ranges" THEN "RETRIEVE_RANGES" ELSE "SET_MASK")
<1>1. at \in {"ranges", "set"} /\ pc = "ready" /\ UNCHANGED mask
  BY DEF NextGroup
<1>2. /\ fault # "Unexpected op"
      /\ fault = "nothing" => Accepted /\ answer.body # <<"failed">>
  BY <1>1, FaultSays
<1>3. IF fault # "nothing" THEN Raise(fault)
      ELSE IF Remaining # {} THEN SetGroup(Least(Remaining)) ELSE Subscribed
  BY DEF NextGroup
<1> HIDE DEF fault
<1>4. CASE fault # "nothing"
  <2>1. /\ at' = "raised" /\ why' = fault
        /\ UNCHANGED <<link, phase, group, tries, over, inRecv, written>>
    BY <1>3, <1>4 DEF Raise
  <2>2. UNCHANGED <<toModem, toHost, pend, pc, req, answer>>
    BY <2>1 DEF link
  <2>3. QED
    BY <1>1, <1>2, <2>1, <2>2, RaiseKeeps
<1>5. CASE fault = "nothing" /\ Remaining # {}
  BY <1>1, <1>2, <1>3, <1>5, SetGroupKeeps
<1>6. CASE fault = "nothing" /\ Remaining = {}
  BY <1>1, <1>2, <1>3, <1>6, SubscribedKeeps
<1>7. QED
  BY <1>4, <1>5, <1>6

-----------------------------------------------------------------------------
(* The capture loop.  No request is on the link.                           *)

LEMMA CaptureKeeps == SIInv /\ (CaptureOver \/ LoopSelects) => SIInv'
<1> SUFFICES ASSUME SIInv, CaptureOver \/ LoopSelects PROVE SIInv'
  OBVIOUS
<1>1. /\ at = "capture"
      /\ UNCHANGED <<link, at, phase, group, tries, why, mask>>
  BY DEF CaptureOver, LoopSelects
<1>2. UNCHANGED <<toModem, toHost, pend, pc, req, answer>>
  BY <1>1 DEF link
<1>3. LinkTypeOK' /\ NoneInFlight'
  BY <1>1, <1>2 DEF SIInv, InFlight, LinkTypeOK, NoneInFlight, NoSet
<1>4. SessionTypeOK'
  BY <1>1, <1>2 DEF SIInv, SessionTypeOK
<1>5. InFlight' /\ Asked' /\ Answered'
  BY <1>1, <1>2, <1>3 DEF SIInv, SessionTypeOK, InFlight, Asked, Answered
<1>6. MasksSet'
  BY <1>1 DEF SIInv, MasksSet
<1>7. QED
  BY <1>1, <1>3, <1>4, <1>5, <1>6 DEF SIInv

LEMMA RecvKeeps == SIInv /\ (RecvFills \/ RecvFrame) => SIInv'
<1> SUFFICES ASSUME SIInv, RecvFills \/ RecvFrame PROVE SIInv'
  OBVIOUS
<1>1. /\ at = "capture" /\ pc = "ready"
      /\ UNCHANGED <<toModem, pc, req, answer, at, phase, group, tries, why, mask>>
  BY DEF RecvFills, RecvFrame, main, SIInv, SessionTypeOK
<1>2. LinkTypeOK /\ NoneInFlight /\ SameGoal
  BY <1>1 DEF SIInv, InFlight, SameGoal
<1>3. LinkTypeOK' /\ NoneInFlight'
  <2>1. CASE RecvFills
    <3>1. pend = <<>> /\ pend' = toHost /\ toHost' = <<>>
      BY <2>1 DEF RecvFills
    <3>2. QED
      BY <1>1, <1>2, <3>1, FillMoves
  <2>2. CASE RecvFrame
    <3>1. pend # <<>> /\ pend' = Tail(pend) /\ UNCHANGED <<toHost, toModem>>
      BY <2>2 DEF RecvFrame
    <3>2. QED
      BY <1>2, <3>1, DropMoves
  <2>3. QED
    BY <2>1, <2>2
<1>4. SessionTypeOK'
  BY <1>1 DEF SIInv, SessionTypeOK
<1>5. InFlight' /\ Asked' /\ Answered'
  BY <1>1, <1>3 DEF InFlight, Asked, Answered
<1>6. MasksSet'
  BY <1>1 DEF SIInv, MasksSet
<1>7. QED
  BY <1>1, <1>3, <1>4, <1>5, <1>6 DEF SIInv

LEMMA LoopEndKeeps == SIInv /\ (LoopEnds \/ RecvEof) => SIInv'
<1> SUFFICES ASSUME SIInv, LoopEnds \/ RecvEof PROVE SIInv'
  OBVIOUS
<1>1. /\ at = "capture" /\ SendRecv(Ranges) /\ at' = "ranges" /\ phase' = "final"
      /\ UNCHANGED <<group, tries, why, mask>> /\ ~inRecv'
  BY DEF LoopEnds, RecvEof, Subscribe
<1>2. NoneInFlight
  BY <1>1 DEF SIInv, InFlight
<1>3. QED
  BY <1>1, <1>2, SubscribeKeeps

-----------------------------------------------------------------------------
(* The invariant.                                                          *)

LEMMA SessionInitHolds == SessionInit => SIInv
<1> SUFFICES ASSUME SessionInit PROVE SIInv
  OBVIOUS
<1>1. /\ toHost = <<>> /\ pend = <<>> /\ pc = "ready"
      /\ toModem \in {<<>>} \cup {<<r>> : r \in Leftover}
      /\ at = "spc" /\ phase = "clear" /\ group = 0 /\ tries = 0
      /\ inRecv = FALSE /\ why = "nothing" /\ mask = [g \in Groups |-> "old"]
  BY DEF SessionInit, LinkInit
<1>2. Leftover \subseteq Requests
  BY SurroundingsAssumption DEF Requests
<1>3. toModem \in Seq(Requests) /\ Len(toModem) <= 1
  <2>1. CASE toModem = <<>>
    BY <2>1
  <2>2. CASE \E r \in Leftover : toModem = <<r>>
    BY <1>2, <2>2
  <2>3. QED
    BY <1>1, <2>1, <2>2
<1>4. LinkTypeOK
  BY <1>1, <1>3 DEF LinkTypeOK
<1>5. OldFirst
  <2>1. Len(toHost) = 0 /\ Len(pend) = 0
    BY <1>1
  <2>2. \A i \in 1 .. Len(toModem) : i = 1
    BY <1>3
  <2>3. QED
    BY <2>1, <2>2 DEF OldFirst, Quiet
<1>6. SessionTypeOK
  BY <1>1, SessionAssumption DEF SessionTypeOK, Masks
<1>7. QED
  BY <1>1, <1>4, <1>5, <1>6 DEF SIInv, InFlight, Asked, Answered, MasksSet

LEMMA SessionStepHolds == SIInv /\ [SessionNext]_sessionVars => SIInv'
<1> SUFFICES ASSUME SIInv, [SessionNext]_sessionVars PROVE SIInv'
  OBVIOUS
<1>1. CASE MainStep
  BY <1>1, SpcKeeps, GroupKeeps, CaptureKeeps, RecvKeeps, LoopEndKeeps DEF MainStep
<1>2. CASE CaptureOver
  BY <1>2, CaptureKeeps
<1>3. CASE ClientStep /\ UNCHANGED <<main, mask>>
  BY <1>3, FillKeeps, NothingKeeps, DispatchKeeps DEF ClientStep
<1>4. CASE \/ (TimeoutPasses \/ Unsolicited \/ Hangup) /\ UNCHANGED <<main, mask>>
           \/ ModemStep
  BY <1>4, SurroundingsKeep
<1>5. CASE UNCHANGED sessionVars
  <2>1. /\ UNCHANGED <<toModem, toHost, pend, pc, req, answer, main>>
        /\ UNCHANGED <<at, phase, group, tries, inRecv, why, mask>>
    BY <1>5 DEF sessionVars, link, main
  <2>2. LinkTypeOK' /\ (OldFirst => OldFirst') /\ (NoneInFlight => NoneInFlight')
    BY <2>1 DEF SIInv, LinkTypeOK, OldFirst, NoneInFlight, Quiet, NoSet
  <2>3. OnlyMine => OnlyMine'
    BY <2>1 DEF OnlyMine, NoSet, Done, Mine
  <2>4. mask' \in [Groups -> Masks]
    BY <2>1 DEF SIInv, SessionTypeOK
  <2>5. QED
    BY <2>1, <2>2, <2>3, <2>4, LinkMovesKeep
<1>6. QED
  BY <1>1, <1>2, <1>3, <1>4, <1>5 DEF SessionNext, Finished

\* Whatever an earlier program left in the modem, whatever the modem answers
\* or fails to answer and whenever a timeout passes, each movement of main(),
\* _send_recv and the modem keeps the invariant.
THEOREM SessionInvariance == SessionSpec => []SIInv
<1>1. QED
  BY SessionInitHolds, SessionStepHolds, PTL DEF SessionSpec

\* "Subscribes to a set of log codes": when the capture loop starts, every
\* group of the modem holds exactly the mask that was asked for, and no
\* subscribe_logs ever meets the reply of another sub-operation, for every set
\* of groups and wanted codes and every number of SPCs.
THEOREM CaptureIsArmed == SessionSpec => []ArmedWhenCapturing
<1>1. SIInv => ArmedWhenCapturing
  BY DEF SIInv, ArmedWhenCapturing, MasksSet
<1>2. QED
  BY <1>1, SessionInvariance, PTL

\* After a run of capture_dlf_from_diag that ends normally every group's mask
\* is empty, though masks outlive the session and the reply to each SET_MASK
\* names neither the group nor the request.
THEOREM ExitIsCleared == SessionSpec => []ClearedAtExit
<1>1. SIInv => ClearedAtExit
  BY DEF SIInv, ClearedAtExit, MasksSet
<1>2. QED
  BY <1>1, SessionInvariance, PTL

-----------------------------------------------------------------------------
(* The choice of the interface.                                            *)

\* A candidate of the scan, and one that keeps to the arguments.
Scanned(c) == c[1] \in Interfaces /\ c = Pinned(c[1], Desc[c[1]].ein, Desc[c[1]].eout)

Fits(c) ==
    /\ args.iface \in {None, c[1]}
    /\ args.ein \in {None, c[2]} /\ args.eout \in {None, c[3]}

\* Those of the scan, or the one of the descriptor.
Tried(candidates) ==
    /\ candidates # {}
    /\ \A c \in candidates : Fits(c)
    /\ (\A c \in candidates : Scanned(c)) \/ (\E c : candidates = {c})

\* The process holds an interface exactly while it looks at it or has chosen it.
ProbeInv ==
    /\ stage \in {"start", "try", "sole", "descriptor", "probe", "lost", "done", "raised", "over"}
    /\ stage \notin {"start", "over"} => Tried(untried)
    /\ claimed = IF stage \in {"probe", "lost", "done"} THEN {Iface} ELSE {}
    /\ claimed \subseteq detached
    /\ detached \subseteq {i \in Interfaces : args.iface \in {None, i}}

LEMMA PinnedFits ==
    ASSUME NEW i, NEW ein, NEW eout, args.iface \in {None, i}
    PROVE  Fits(Pinned(i, ein, eout)) /\ Pinned(i, ein, eout)[1] = i
  BY DEF Fits, Pinned, Pin

LEMMA CandidatesFit == \A c \in Candidates : Scanned(c) /\ Fits(c)
<1> DEFINE cand(i) == Pinned(i, Desc[i].ein, Desc[i].eout)
           fit == {i \in Interfaces : /\ args.iface \in {None, i} /\ Desc[i].vendor
                                      /\ None \notin {Desc[i].ein, Desc[i].eout}}
<1>1. \A c \in Candidates : \E i \in fit : c = cand(i)
  BY DEF Candidates
<1>2. \A i \in fit : Scanned(cand(i)) /\ Fits(cand(i))
  <2> SUFFICES ASSUME NEW i \in fit PROVE Scanned(cand(i)) /\ Fits(cand(i))
    OBVIOUS
  <2>1. i \in Interfaces /\ Fits(cand(i)) /\ cand(i)[1] = i
    BY PinnedFits
  <2>2. QED
    BY <2>1 DEF Scanned
<1>3. QED
  BY <1>1, <1>2

\* No argument is overridden by the fallback either.
LEMMA DescriptorFits == Fits(ByDescriptor)
<1> DEFINE shaped == {i \in Interfaces : /\ args.readable /\ args.iface \in {None, i}
                                         /\ Desc[i].vendor /\ Desc[i].sub /\ Desc[i].proto = 48}
           asked  == {i \in Interfaces : args.readable /\ args.iface = i}
           fit    == IF shaped # {} THEN shaped ELSE asked
           first  == CHOOSE i \in fit : \A j \in fit : i <= j
           ep(found, default) == IF found = None THEN default ELSE found
<1>1. ByDescriptor =
          IF fit = {} THEN Pinned(Pin(args.iface, 3), 132, 2)
          ELSE Pinned(first, ep(Desc[first].ein, 132), ep(Desc[first].eout, 2))
  BY DEF ByDescriptor
<1>2. CASE fit = {}
  <2>1. args.iface \in {None, Pin(args.iface, 3)}
    BY DEF Pin
  <2>2. Fits(Pinned(Pin(args.iface, 3), 132, 2))
    BY <2>1, PinnedFits
  <2> HIDE DEF fit
  <2>3. QED
    BY <1>1, <1>2, <2>2
<1>3. CASE fit # {}
  <2>1. fit \subseteq Nat /\ \A i \in fit : args.iface \in {None, i}
    BY ProbeAssumption
  <2> HIDE DEF fit
  <2>2. \E i \in fit : \A j \in fit : i <= j
    BY <1>3, <2>1, LeastExists
  <2>3. first \in fit
    BY <2>2
  <2> HIDE DEF first, ep
  <2>4. QED
    BY <1>1, <1>3, <2>1, <2>3, PinnedFits
<1>4. QED
  BY <1>2, <1>3

\* The ranking has a best among any of the candidates.
LEMMA ChosenIsTried ==
    ASSUME Tried(untried)
    PROVE  Chosen \in untried
<1>1. \E c \in untried : \A d \in untried : c = d \/ Better(c[1], d[1])
  <2>1. CASE \E c : untried = {c}
    BY <2>1
  <2>2. CASE \A c \in untried : Scanned(c)
    <3> DEFINE ranks == {Rank(c[1]) : c \in untried}
    <3>1. \A c \in untried : c[1] \in Nat /\ Rank(c[1]) \in Nat
      BY <2>2, ProbeAssumption DEF Scanned, Rank
    <3>2. ranks \subseteq Nat /\ ranks # {}
      BY <3>1 DEF Tried
    <3>3. PICK r \in ranks : \A q \in ranks : r <= q
      BY <3>2, LeastExists
    <3> DEFINE numbers == {c[1] : c \in {d \in untried : Rank(d[1]) = r}}
    <3>4. numbers \subseteq Nat /\ numbers # {}
      BY <3>1, <3>3
    <3>5. PICK n \in numbers : \A m \in numbers : n <= m
      BY <3>4, LeastExists
    <3>6. PICK c \in untried : c[1] = n /\ Rank(c[1]) = r
      BY <3>5
    <3>7. ASSUME NEW d \in untried PROVE c = d \/ Better(c[1], d[1])
      <4>1. Rank(c[1]) <= Rank(d[1]) /\ (Rank(d[1]) = Rank(c[1]) => c[1] <= d[1])
        BY <3>3, <3>5, <3>6
      <4>2. c[1] = d[1] => c = d
        BY <2>2 DEF Scanned
      <4>3. QED
        BY <3>1, <3>6, <4>1, <4>2 DEF Better
    <3>8. QED
      BY <3>6, <3>7
  <2>3. QED
    BY <2>1, <2>2 DEF Tried
<1>2. QED
  BY <1>1 DEF Chosen

LEMMA GoOnKeeps ==
    ASSUME Tried(untried), GoOn, UNCHANGED args
    PROVE  Tried(untried)' /\ stage' \in {"try", "descriptor"}
<1> DEFINE rest == untried \ {Chosen}
<1>1. /\ stage' = IF rest = {} THEN "descriptor" ELSE "try"
      /\ untried' = IF rest = {} THEN {ByDescriptor} ELSE rest
  BY DEF GoOn
<1>2. \A c : Fits(c)' = Fits(c)
  BY DEF Fits
<1>3. \A c : Scanned(c)' = Scanned(c)
  BY DEF Scanned, Pinned, Pin
<1>4. Chosen \in untried
  BY ChosenIsTried
<1>5. CASE rest = {}
  BY <1>1, <1>2, <1>5, DescriptorFits DEF Tried, Fits
<1>6. CASE rest # {}
  <2>1. \A c \in untried : Scanned(c) /\ Fits(c)
    BY <1>4, <1>6 DEF Tried
  <2>2. \A c \in untried' : Scanned(c)' /\ Fits(c)'
    BY <1>1, <1>2, <1>3, <1>6, <2>1
  <2>3. QED
    BY <1>1, <1>6, <2>2 DEF Tried, Scanned, Fits
<1>7. QED
  BY <1>5, <1>6

LEMMA ProbeKeeps == ProbeInv /\ ProbeStep => ProbeInv'
<1> SUFFICES ASSUME ProbeInv, ProbeStep PROVE ProbeInv'
  OBVIOUS
<1>1. UNCHANGED args
  BY DEF ProbeStep, Choose, Open, OpenFails, Answers, Mute, CloseLoser
<1>2. UNCHANGED untried => Iface' = Iface /\ (Tried(untried) => Tried(untried)')
  BY <1>1 DEF Iface, Chosen, Tried, Fits, Scanned, Pinned, Pin
<1>3. Tried(untried) /\ Iface \in Interfaces => args.iface \in {None, Iface}
  BY ChosenIsTried DEF Tried, Fits, Iface
<1>4. CASE Choose
  <2>1. /\ stage = "start" /\ stage' \in {"descriptor", "sole", "try"}
        /\ untried' = IF Candidates = {} THEN {ByDescriptor} ELSE Candidates
        /\ UNCHANGED <<claimed, detached>>
    BY <1>4 DEF Choose, ProbeAt
  <2>2. Tried(untried)'
    <3>1. \A c : Fits(c)' = Fits(c) /\ Scanned(c)' = Scanned(c)
      BY <1>1 DEF Fits, Scanned, Pinned, Pin
    <3>2. Fits(ByDescriptor) /\ \A c \in Candidates : Scanned(c) /\ Fits(c)
      BY DescriptorFits, CandidatesFit
    <3>3. CASE Candidates = {}
      BY <2>1, <3>1, <3>2, <3>3 DEF Tried
    <3>4. CASE Candidates # {}
      BY <2>1, <3>1, <3>2, <3>4 DEF Tried
    <3>5. QED
      BY <3>3, <3>4
  <2>3. QED
    BY <1>1, <2>1, <2>2 DEF ProbeInv
<1>5. CASE Open
  <2>1. /\ stage \in {"try", "sole", "descriptor"} /\ stage' \in {"probe", "done"}
        /\ Iface \in Interfaces /\ UNCHANGED untried
        /\ claimed' = claimed \cup {Iface} /\ detached' = detached \cup {Iface}
    BY <1>5 DEF Open, Opening
  <2>2. QED
    BY <1>1, <1>2, <1>3, <2>1 DEF ProbeInv
<1>6. CASE OpenFails
  <2>1. stage \in {"try", "sole", "descriptor"} /\ claimed' = {} /\ Tried(untried)
    BY <1>6 DEF OpenFails, Opening, ProbeInv
  <2>2. stage' \in {"try", "descriptor", "raised"} /\ Tried(untried)'
    <3>1. CASE stage = "try"
      BY <1>1, <1>6, <2>1, <3>1, GoOnKeeps DEF OpenFails
    <3>2. CASE stage # "try"
      BY <1>2, <1>6, <2>1, <3>2 DEF OpenFails
    <3>3. QED
      BY <3>1, <3>2
  <2>3. detached' \subseteq {i \in Interfaces : args.iface \in {None, i}}
    BY <1>3, <1>6, <2>1 DEF OpenFails, ProbeInv
  <2>4. QED
    BY <1>1, <2>1, <2>2, <2>3 DEF ProbeInv
<1>7. CASE Answers \/ Mute
  <2>1. /\ stage = "probe" /\ stage' \in {"done", "lost"}
        /\ UNCHANGED <<untried, claimed, detached>>
    BY <1>7 DEF Answers, Mute, ProbeAt
  <2>2. QED
    BY <1>1, <1>2, <2>1 DEF ProbeInv
<1>8. CASE CloseLoser
  <2>1. stage = "lost" /\ GoOn /\ claimed' = claimed \ {Iface} /\ UNCHANGED detached
    BY <1>8 DEF CloseLoser
  <2>2. claimed' = {} /\ Tried(untried)
    BY <2>1 DEF ProbeInv
  <2>3. QED
    BY <1>1, <2>1, <2>2, GoOnKeeps DEF ProbeInv
<1>9. QED
  BY <1>4, <1>5, <1>6, <1>7, <1>8 DEF ProbeStep

-----------------------------------------------------------------------------
(* The calls.  A late answer may be taken for that of a later call of the  *)
(* same kind, so what holds of an answer is what the modem has done with   *)
(* some request of its kind; and it holds on, because a request is decided *)
(* once, when it leaves the link.                                          *)

Numbered(op, k) == Request(op, "", <<k>>, FALSE)

CallRequests == {Delimiter} \cup {Numbered(op, k) : op \in Ops, k \in Nat}

Early == Frame("VERNO", "", <<0>>)

Ack(op, k) == Frame(op, "", <<k>>)

Refusal(sub, k) == Frame("BAD_CMD", sub, <<k>>)

CallReplies ==
    {Early, EmptyEcho} \cup {Ack(op, k) : op \in Ops, k \in Nat}
        \cup {Refusal(sub, k) : sub \in Ops \cup {"stale"}, k \in Nat}

CallFrames == Noise \cup CallReplies

Call4 == [op : Ops \cup {"wait"}, verdict : {"open", "ok", "timed out", "rejected"},
          hint : {"none", "gated", "stale", "no echo; gated"}]

Deeds == {"none", "ok", "rejected", "glued"}

RxOK == rx \in {"", "stale"}

CallsTypeOK ==
    /\ toModem \in Seq(CallRequests) /\ toHost \in Seq(CallFrames) /\ pend \in Seq(CallFrames)
    /\ dead = FALSE
    /\ pc \in {"ready", "wait", "resync", "logs"}
    /\ resynced \in BOOLEAN /\ RxOK
    /\ calls \in Seq(Call4)
    /\ modem \in Seq(Deeds) /\ Len(modem) = Len(calls)

\* A request is on the link but once, and undecided.
Number(r) == r.body[1]

PendingOK ==
    /\ \A i, j \in 1 .. Len(toModem) : i < j => Number(toModem[i]) < Number(toModem[j])
    /\ \A i \in 1 .. Len(toModem) :
          \/ toModem[i] = Delimiter /\ resynced
          \/ \E k \in 1 .. Len(calls) :
                calls[k].op \in Ops /\ toModem[i] = Numbered(calls[k].op, k) /\ modem[k] = "none"

\* The delimiter is ahead of every request.
DelimiterFirst ==
    resynced => /\ rx = "stale" => toModem # <<>> /\ toModem[1] = Delimiter
                /\ \A k \in 1 .. Len(modem) : modem[k] # "glued"

Clean == resynced /\ rx = ""

\* What frame f says of the calls cs, if the modem did ms of them.
Told(f, cs, ms, clean) ==
    /\ f.op \in {"NV_WRITE", "SUBSYS_CMD"} =>
          \E k \in 1 .. Len(cs) : cs[k].op = f.op /\ ms[k] = "ok"
    /\ f.op = "BAD_CMD" =>
          \/ f.sub \in Ops /\ \E k \in 1 .. Len(cs) : cs[k].op = f.sub /\ ms[k] = "rejected"
          \/ f.sub = "stale" /\ (clean \/ \E k \in 1 .. Len(cs) : ms[k] = "glued")
          \/ f = EmptyEcho /\ (clean \/ \E k \in 1 .. Len(cs) : ms[k] \in {"rejected", "glued"})

AllTold(s, cs, ms, clean) == \A i \in 1 .. Len(s) : Told(s[i], cs, ms, clean)

\* Call k has made of its answer what AckIsOwn and HintNamesCause allow.
Earned(k, cs, ms, clean) ==
    /\ cs[k].op \in {"NV_WRITE", "SUBSYS_CMD"} /\ cs[k].verdict = "ok"
          => \E j \in 1 .. k : cs[j].op = cs[k].op /\ ms[j] = "ok"
    /\ cs[k].hint = "gated" => \E j \in 1 .. k : cs[j].op = cs[k].op /\ ms[j] = "rejected"
    /\ cs[k].hint = "stale"
          => \/ \E j \in 1 .. k - 1 : cs[j].op # cs[k].op /\ ms[j] = "rejected"
             \/ \E j \in 1 .. k : ms[j] = "glued"
             \/ clean
    /\ cs[k].hint = "no echo; gated"
          => clean \/ \E j \in 1 .. k : ms[j] \in {"rejected", "glued"}

AllEarned(cs, ms, clean) == \A k \in 1 .. Len(cs) : Earned(k, cs, ms, clean)

\* The call at hand, and what it will be judged by.
AtHand ==
    /\ pc = "wait" => ~Judged
    /\ pc \in {"resync", "logs"} => Judged
    /\ ~Judged => /\ calls[Len(calls)].op \in Ops
                  /\ req = Numbered(calls[Len(calls)].op, Len(calls))
    /\ ~Judged /\ pc = "ready" =>
          \/ answer = NoReply
          \/ /\ answer.op \in {req.op, "BAD_CMD"}
             /\ Told(answer, calls, modem, Clean)

CallsInv ==
    /\ CallsTypeOK /\ PendingOK /\ DelimiterFirst /\ AtHand
    /\ AllTold(toHost, calls, modem, Clean) /\ AllTold(pend, calls, modem, Clean)
    /\ AllEarned(calls, modem, Clean)

OIInv == ProbeInv /\ CallsInv /\ (stage # "over" => CallsInit)

\* Calls are added, requests are decided, a resync takes effect: nothing that
\* was so is undone.
Grown(cs, ms, cs2, ms2) ==
    /\ Len(cs) \in Nat /\ Len(cs2) \in Nat /\ Len(cs) <= Len(cs2)
    /\ \A k \in 1 .. Len(cs) :
          cs2[k].op = cs[k].op /\ (ms[k] # "none" => ms2[k] = ms[k])

LEMMA ToldStays ==
    ASSUME NEW f, NEW cs, NEW ms, NEW cs2, NEW ms2, NEW c, NEW c2,
           Grown(cs, ms, cs2, ms2), c => c2, Told(f, cs, ms, c)
    PROVE  Told(f, cs2, ms2, c2)
<1>1. 1 .. Len(cs) \subseteq 1 .. Len(cs2)
  BY DEF Grown
<1>2. ASSUME NEW op, NEW deed \in {"ok", "rejected"},
             \E k \in 1 .. Len(cs) : cs[k].op = op /\ ms[k] = deed
      PROVE  \E k \in 1 .. Len(cs2) : cs2[k].op = op /\ ms2[k] = deed
  BY <1>1, <1>2 DEF Grown
<1>3. /\ (\E k \in 1 .. Len(cs) : ms[k] = "glued") => \E k \in 1 .. Len(cs2) : ms2[k] = "glued"
      /\ (\E k \in 1 .. Len(cs) : ms[k] \in {"rejected", "glued"})
            => \E k \in 1 .. Len(cs2) : ms2[k] \in {"rejected", "glued"}
  BY <1>1 DEF Grown
<1>4. QED
  BY <1>2, <1>3 DEF Told

LEMMA AllToldStays ==
    ASSUME NEW s, NEW cs, NEW ms, NEW cs2, NEW ms2, NEW c, NEW c2,
           Grown(cs, ms, cs2, ms2), c => c2, AllTold(s, cs, ms, c)
    PROVE  AllTold(s, cs2, ms2, c2)
  BY ToldStays DEF AllTold

LEMMA EarnedStays ==
    ASSUME NEW cs, NEW ms, NEW cs2, NEW ms2, NEW c, NEW c2, NEW k \in 1 .. Len(cs),
           Grown(cs, ms, cs2, ms2), c => c2, Earned(k, cs, ms, c), cs2[k] = cs[k]
    PROVE  Earned(k, cs2, ms2, c2)
<1>1. 1 .. k \subseteq 1 .. Len(cs) /\ 1 .. k - 1 \subseteq 1 .. Len(cs)
  BY DEF Grown
<1>2. \A j \in 1 .. k : cs2[j].op = cs[j].op /\ (ms[j] # "none" => ms2[j] = ms[j])
  BY <1>1 DEF Grown
<1>3. 1 .. k - 1 \subseteq 1 .. k
  BY DEF Grown
<1>4. QED
  BY <1>2, <1>3 DEF Earned

\* The frames of a buffer, and what becomes of them.
LEMMA ToldTail ==
    ASSUME NEW s \in Seq(CallFrames), s # <<>>, NEW cs, NEW ms, NEW c, AllTold(s, cs, ms, c)
    PROVE  /\ Tail(s) \in Seq(CallFrames) /\ AllTold(Tail(s), cs, ms, c)
           /\ Head(s) \in CallFrames /\ Told(Head(s), cs, ms, c)
<1>1. /\ Head(s) \in CallFrames /\ Tail(s) \in Seq(CallFrames)
      /\ Len(Tail(s)) = Len(s) - 1 /\ \A i \in 1 .. Len(Tail(s)) : Tail(s)[i] = s[i + 1]
  BY HeadTailProperties
<1>2. Len(s) \in Nat \ {0} /\ Head(s) = s[1]
  BY EmptySeq
<1>3. \A i \in 1 .. Len(s) - 1 : i + 1 \in 1 .. Len(s)
  BY <1>2
<1>4. QED
  BY <1>1, <1>2, <1>3 DEF AllTold

LEMMA ToldConcat ==
    ASSUME NEW s \in Seq(CallFrames), NEW t \in Seq(CallFrames), NEW cs, NEW ms, NEW c,
           AllTold(s, cs, ms, c), AllTold(t, cs, ms, c)
    PROVE  s \o t \in Seq(CallFrames) /\ AllTold(s \o t, cs, ms, c)
<1>1. /\ s \o t \in Seq(CallFrames) /\ Len(s \o t) = Len(s) + Len(t)
      /\ \A i \in 1 .. Len(s) + Len(t) :
            (s \o t)[i] = IF i <= Len(s) THEN s[i] ELSE t[i - Len(s)]
  BY ConcatProperties
<1>2. Len(s) \in Nat /\ Len(t) \in Nat
  BY LenProperties
<1>3. ASSUME NEW i \in 1 .. Len(s) + Len(t) PROVE Told((s \o t)[i], cs, ms, c)
  <2>1. CASE i <= Len(s)
    BY <1>1, <1>2, <2>1 DEF AllTold
  <2>2. CASE ~(i <= Len(s))
    <3>1. i - Len(s) \in 1 .. Len(t) /\ (s \o t)[i] = t[i - Len(s)]
      BY <1>1, <1>2, <2>2
    <3>2. QED
      BY <3>1 DEF AllTold
  <2>3. QED
    BY <2>1, <2>2
<1>4. QED
  BY <1>1, <1>3 DEF AllTold

LEMMA ToldNone ==
    ASSUME NEW cs, NEW ms, NEW c
    PROVE  <<>> \in Seq(CallFrames) /\ AllTold(<<>>, cs, ms, c)
  BY EmptySeq DEF AllTold

LEMMA ToldOne ==
    ASSUME NEW f \in CallFrames, NEW cs, NEW ms, NEW c, Told(f, cs, ms, c)
    PROVE  <<f>> \in Seq(CallFrames) /\ AllTold(<<f>>, cs, ms, c)
<1>1. <<f>> \in Seq(CallFrames) /\ Len(<<f>>) = 1 /\ <<f>>[1] = f
  OBVIOUS
<1>2. QED
  BY <1>1 DEF AllTold

-----------------------------------------------------------------------------
(* The client reads.                                                       *)

LEMMA ReadingKeeps ==
    ASSUME CallsInv, UNCHANGED <<toModem, dead, resynced, rx, calls, modem>>,
           toHost' \in Seq(CallFrames), AllTold(toHost', calls, modem, Clean),
           pend' \in Seq(CallFrames), AllTold(pend', calls, modem, Clean),
           pc' \in {"ready", "wait", "resync", "logs"}, AtHand'
    PROVE  CallsInv'
<1>1. calls' = calls /\ modem' = modem /\ Clean' = Clean
  BY DEF Clean
<1>2. CallsTypeOK'
  BY DEF CallsInv, CallsTypeOK, RxOK
<1>3. PendingOK' /\ DelimiterFirst'
  BY DEF CallsInv, PendingOK, DelimiterFirst
<1>4. QED
  BY <1>1, <1>2, <1>3 DEF CallsInv

LEMMA DrainsKeep ==
    ASSUME CallsInv, DrainFill \/ DrainFrame \/ ResyncEnds \/ WaitEnds
    PROVE  CallsInv'
<1>1. UNCHANGED <<toModem, dead, req, answer, resynced, rx, calls, modem>> /\ Clean' = Clean
  <2>1. UNCHANGED <<toModem, dead, req, answer, resynced, rx, calls, modem>>
    <3>1. CASE DrainFill
      BY <3>1 DEF DrainFill
    <3>2. CASE DrainFrame
      BY <3>2 DEF DrainFrame
    <3>3. CASE ResyncEnds
      BY <3>3 DEF ResyncEnds
    <3>4. CASE WaitEnds
      BY <3>4 DEF WaitEnds
    <3>5. QED
      BY <3>1, <3>2, <3>3, <3>4
  <2>2. QED
    BY <2>1 DEF Clean
<1>2. pc \in {"resync", "logs"} /\ pc' \in {pc, "ready"}
  BY DEF DrainFill, DrainFrame, ResyncEnds, WaitEnds, Draining
<1>3. /\ toHost \in Seq(CallFrames) /\ AllTold(toHost, calls, modem, Clean)
      /\ pend \in Seq(CallFrames) /\ AllTold(pend, calls, modem, Clean)
  BY DEF CallsInv, CallsTypeOK
<1>4. <<>> \in Seq(CallFrames) /\ AllTold(<<>>, calls, modem, Clean)
  BY ToldNone
<1>5. pend # <<>> => Tail(pend) \in Seq(CallFrames) /\ AllTold(Tail(pend), calls, modem, Clean)
  BY <1>3, ToldTail
<1>6. /\ toHost' \in {toHost, <<>>}
      /\ \/ pend' \in {pend, toHost, <<>>}
         \/ pend # <<>> /\ pend' = Tail(pend)
  BY DEF DrainFill, DrainFrame, ResyncEnds, WaitEnds
<1>7. AtHand'
  <2>1. Judged /\ Judged' = Judged
    BY <1>1, <1>2 DEF CallsInv, AtHand, Judged
  <2>2. pc' # "wait"
    BY <1>2
  <2>3. QED
    BY <2>1, <2>2 DEF AtHand
<1>8. pc' \in {"ready", "wait", "resync", "logs"}
  BY <1>2
<1>9. QED
  BY <1>1, <1>3, <1>4, <1>5, <1>6, <1>7, <1>8, ReadingKeeps

LEMMA ClientStepKeeps ==
    ASSUME CallsInv, ClientStep, UNCHANGED <<resynced, drained, rx, calls, modem>>
    PROVE  CallsInv'
<1>1. UNCHANGED <<toModem, dead, req, resynced, rx, calls, modem>> /\ Clean' = Clean
  BY DEF ClientStep, Fill, GiveUp, ReadEof, Dispatch, Clean
<1>2. /\ toHost \in Seq(CallFrames) /\ AllTold(toHost, calls, modem, Clean)
      /\ pend \in Seq(CallFrames) /\ AllTold(pend, calls, modem, Clean)
      /\ dead = FALSE /\ AtHand
  BY DEF CallsInv, CallsTypeOK
<1>3. <<>> \in Seq(CallFrames) /\ AllTold(<<>>, calls, modem, Clean)
  BY ToldNone
<1>4. pc = "wait" /\ ~Judged /\ Judged' = Judged
  BY <1>1, <1>2 DEF ClientStep, Fill, GiveUp, ReadEof, Dispatch, AtHand, Judged
<1>5. (\/ answer' = NoReply
       \/ answer'.op \in {req.op, "BAD_CMD"} /\ Told(answer', calls, modem, Clean))
         /\ pc' = "ready" => AtHand'
  BY <1>1, <1>2, <1>4 DEF AtHand
<1>6. pc' = "wait" => AtHand'
  BY <1>1, <1>2, <1>4 DEF AtHand
<1>7. CASE Fill
  <2>1. pend' = toHost /\ toHost' = <<>> /\ pc' = "wait"
    BY <1>4, <1>7 DEF Fill
  <2>2. QED
    BY <1>1, <1>2, <1>3, <1>6, <2>1, ReadingKeeps
<1>8. CASE GiveUp
  <2>1. UNCHANGED <<toHost, pend>> /\ pc' = "ready" /\ answer' = NoReply
    BY <1>8 DEF GiveUp, Answer
  <2>2. QED
    BY <1>1, <1>2, <1>5, <2>1, ReadingKeeps
<1>9. CASE Dispatch
  <2>1. /\ pend # <<>> /\ pend' = Tail(pend) /\ toHost' = toHost
        /\ \/ /\ Head(pend).op \in {req.op, "BAD_CMD"}
              /\ pc' = "ready" /\ answer' = Head(pend)
           \/ pc' = "wait"
    BY <1>4, <1>9 DEF Dispatch, Answer, Matches
  <2>2. /\ Tail(pend) \in Seq(CallFrames) /\ AllTold(Tail(pend), calls, modem, Clean)
        /\ Told(Head(pend), calls, modem, Clean)
    BY <1>2, <2>1, ToldTail
  <2>3. AtHand'
    BY <1>5, <1>6, <2>1, <2>2
  <2>4. QED
    BY <1>1, <1>2, <2>1, <2>2, <2>3, ReadingKeeps
<1>10. QED
  BY <1>2, <1>7, <1>8, <1>9 DEF ClientStep, ReadEof

LEMMA StreamKeeps ==
    ASSUME CallsInv, Stream \/ ClockTicks
    PROVE  CallsInv'
<1>1. /\ UNCHANGED <<toModem, dead, pend, pc, req, answer, resynced, rx, calls, modem>>
      /\ Clean' = Clean
  <2>1. UNCHANGED <<toModem, dead, pend, pc, req, answer, resynced, rx, calls, modem>>
    <3>1. CASE Stream
      BY <3>1 DEF Stream, Unsolicited
    <3>2. CASE ClockTicks
      BY <3>2 DEF ClockTicks
    <3>3. QED
      BY <3>1, <3>2
  <2>2. QED
    BY <2>1 DEF Clean
<1>2. /\ toHost \in Seq(CallFrames) /\ AllTold(toHost, calls, modem, Clean)
      /\ pend \in Seq(CallFrames) /\ AllTold(pend, calls, modem, Clean)
      /\ pc \in {"ready", "wait", "resync", "logs"}
  BY DEF CallsInv, CallsTypeOK
<1>3. AtHand'
  BY <1>1 DEF CallsInv, AtHand, Judged
<1>4. CASE Stream
  <2>1. PICK f \in Noise : toHost' = Append(toHost, f)
    BY <1>4 DEF Stream, Unsolicited
  <2>2. f \in CallFrames /\ Told(f, calls, modem, Clean)
    BY CallsAssumption DEF CallFrames, Told
  <2>3. <<f>> \in Seq(CallFrames) /\ AllTold(<<f>>, calls, modem, Clean)
    BY <2>2, ToldOne
  <2>4. toHost' = toHost \o <<f>>
    BY <1>2, <2>1, <2>2, AppendIsConcat
  <2>5. toHost' \in Seq(CallFrames) /\ AllTold(toHost', calls, modem, Clean)
    BY <1>2, <2>3, <2>4, ToldConcat
  <2>6. QED
    BY <1>1, <1>2, <1>3, <2>5, ReadingKeeps
<1>5. CASE ClockTicks
  <2>1. toHost' = toHost
    BY <1>5 DEF ClockTicks
  <2>2. QED
    BY <1>1, <1>2, <1>3, <2>1, ReadingKeeps
<1>6. QED
  BY <1>4, <1>5

-----------------------------------------------------------------------------
(* The client calls.                                                       *)

LEMMA RequestFacts ==
    /\ Delimiter \in CallRequests /\ Number(Delimiter) = 0
    /\ \A op \in Ops, k \in Nat :
          /\ Numbered(op, k) \in CallRequests /\ Numbered(op, k).op = op
          /\ Number(Numbered(op, k)) = k /\ Numbered(op, k).body = <<k>>
          /\ Numbered(op, k) # Delimiter
<1>1. Delimiter \in CallRequests /\ Number(Delimiter) = 0 /\ Delimiter.op = ""
  BY DEF CallRequests, Number, Request, Delimiter
<1>2. ASSUME NEW op \in Ops, NEW k \in Nat
      PROVE  /\ Numbered(op, k) \in CallRequests /\ Numbered(op, k).op = op
             /\ Number(Numbered(op, k)) = k /\ Numbered(op, k).body = <<k>>
             /\ Numbered(op, k) # Delimiter
  <2>1. Numbered(op, k) \in CallRequests
    BY DEF CallRequests
  <2>2. Numbered(op, k).op = op /\ Numbered(op, k).body = <<k>>
    BY DEF Numbered, Request
  <2>3. op # ""
    BY DEF Ops
  <2>4. Numbered(op, k) # Delimiter
    BY <1>1, <2>2, <2>3
  <2>5. Number(Numbered(op, k)) = k
    BY <2>2 DEF Number
  <2>6. QED
    BY <2>1, <2>2, <2>4, <2>5
<1>3. QED
  BY <1>1, <1>2

\* A call is made: nothing is taken back, and the call has earned nothing yet.
LEMMA CallAdded ==
    ASSUME CallsInv, NEW call \in Call4, call.op = "wait" \/ call.verdict = "open",
           call.hint = "none", Start(call), modem' = Append(modem, "none"),
           UNCHANGED <<toHost, pend, resynced, rx>>
    PROVE  /\ calls' \in Seq(Call4) /\ Len(calls') = Len(calls) + 1
           /\ calls'[Len(calls) + 1] = call
           /\ \A k \in 1 .. Len(calls) : calls'[k] = calls[k]
           /\ modem' \in Seq(Deeds) /\ Len(modem') = Len(calls) + 1
           /\ modem'[Len(calls) + 1] = "none"
           /\ \A k \in 1 .. Len(calls) : modem'[k] = modem[k]
           /\ AllTold(toHost, calls, modem, Clean)' /\ AllTold(pend, calls, modem, Clean)'
           /\ AllEarned(calls, modem, Clean)'
<1>1. /\ calls \in Seq(Call4) /\ modem \in Seq(Deeds) /\ Len(modem) = Len(calls)
      /\ "none" \in Deeds
  BY DEF CallsInv, CallsTypeOK, Deeds
<1>2. calls' = Append(calls, call)
  BY DEF Start
<1>3. /\ calls' \in Seq(Call4) /\ Len(calls') = Len(calls) + 1
      /\ calls'[Len(calls) + 1] = call
      /\ \A k \in 1 .. Len(calls) : calls'[k] = calls[k]
  BY <1>1, <1>2, AppendProperties
<1>4. /\ modem' \in Seq(Deeds) /\ Len(modem') = Len(calls) + 1
      /\ modem'[Len(calls) + 1] = "none"
      /\ \A k \in 1 .. Len(calls) : modem'[k] = modem[k]
  BY <1>1, AppendProperties
<1>5. Len(calls) \in Nat
  BY <1>1, LenProperties
<1>6. Grown(calls, modem, calls', modem')
  BY <1>3, <1>4, <1>5 DEF Grown
<1>7. Clean => Clean'
  BY DEF Clean
<1>8. AllTold(toHost', calls', modem', Clean') /\ AllTold(pend', calls', modem', Clean')
  BY <1>6, <1>7, AllToldStays DEF CallsInv
<1>9. AllEarned(calls', modem', Clean')
  <2>1. ASSUME NEW k \in 1 .. Len(calls) PROVE Earned(k, calls', modem', Clean')
    <3>1. Earned(k, calls, modem, Clean)
      BY DEF CallsInv, AllEarned
    <3>2. QED
      BY <1>3, <1>6, <1>7, <3>1, EarnedStays
  <2>2. Earned(Len(calls) + 1, calls', modem', Clean')
    BY <1>3 DEF Earned
  <2>3. \A k \in 1 .. Len(calls') : k \in 1 .. Len(calls) \/ k = Len(calls) + 1
    BY <1>3, <1>5
  <2>4. QED
    BY <2>1, <2>2, <2>3 DEF AllEarned
<1>10. QED
  BY <1>3, <1>4, <1>8, <1>9

LEMMA WaitKeeps ==
    ASSUME CallsInv, WaitForLogCodes
    PROVE  CallsInv'
<1> DEFINE call == [Call("wait") EXCEPT !.verdict = "ok"]
<1>1. /\ call \in Call4 /\ call.op = "wait" /\ call.hint = "none" /\ call.verdict = "ok"
  BY DEF Call, Call4
<1> HIDE DEF call
<1>2. /\ Start(call) /\ modem' = Append(modem, "none") /\ pc' = "logs"
      /\ UNCHANGED <<toModem, toHost, pend, dead, req, answer, resynced, rx>>
  BY DEF WaitForLogCodes, call
<1>3. /\ calls' \in Seq(Call4) /\ Len(calls') = Len(calls) + 1
      /\ calls'[Len(calls) + 1] = call
      /\ \A k \in 1 .. Len(calls) : calls'[k] = calls[k]
      /\ modem' \in Seq(Deeds) /\ Len(modem') = Len(calls) + 1
      /\ modem'[Len(calls) + 1] = "none"
      /\ \A k \in 1 .. Len(calls) : modem'[k] = modem[k]
      /\ AllTold(toHost, calls, modem, Clean)' /\ AllTold(pend, calls, modem, Clean)'
      /\ AllEarned(calls, modem, Clean)'
  BY <1>1, <1>2, CallAdded
<1>4. Len(calls) \in Nat /\ Len(modem) = Len(calls)
  BY LenProperties DEF CallsInv, CallsTypeOK
<1>5. CallsTypeOK'
  BY <1>2, <1>3 DEF CallsInv, CallsTypeOK, RxOK
<1>6. PendingOK'
  BY SMTT(30), <1>2, <1>3, <1>4 DEF CallsInv, PendingOK
<1>7. DelimiterFirst'
  BY <1>2, <1>3, <1>4 DEF CallsInv, DelimiterFirst
<1>8. AtHand'
  <2>1. Judged'
    BY <1>1, <1>3 DEF Judged
  <2>2. QED
    BY <1>2, <2>1 DEF AtHand
<1>9. QED
  BY <1>3, <1>5, <1>6, <1>7, <1>8 DEF CallsInv

\* Its number is above those of all the requests on the link.
LEMMA AskKeeps ==
    ASSUME CallsInv, NEW op \in Ops, Ask(op)
    PROVE  CallsInv'
<1> DEFINE n == Len(calls) + 1
<1>1. /\ Call(op) \in Call4 /\ Call(op).op = op /\ Call(op).hint = "none"
      /\ Call(op).verdict = "open"
  BY DEF Call, Call4
<1>2. /\ Start(Call(op)) /\ modem' = Append(modem, "none") /\ pc' = "wait"
      /\ toModem' = Append(toModem, Numbered(op, Len(calls')))
      /\ req' = Numbered(op, Len(calls'))
      /\ UNCHANGED <<toHost, pend, dead, resynced, rx>>
  BY DEF Ask, SendRecv, Numbered
<1>3. /\ calls' \in Seq(Call4) /\ Len(calls') = Len(calls) + 1
      /\ calls'[Len(calls) + 1] = Call(op)
      /\ \A k \in 1 .. Len(calls) : calls'[k] = calls[k]
      /\ modem' \in Seq(Deeds) /\ Len(modem') = Len(calls) + 1
      /\ modem'[Len(calls) + 1] = "none"
      /\ \A k \in 1 .. Len(calls) : modem'[k] = modem[k]
      /\ AllTold(toHost, calls, modem, Clean)' /\ AllTold(pend, calls, modem, Clean)'
      /\ AllEarned(calls, modem, Clean)'
  BY <1>1, <1>2, CallAdded
<1>4. Len(calls) \in Nat /\ Len(modem) = Len(calls) /\ toModem \in Seq(CallRequests)
  BY LenProperties DEF CallsInv, CallsTypeOK
<1>5. Numbered(op, n) \in CallRequests /\ Number(Numbered(op, n)) = n
  BY <1>4, RequestFacts
<1>6. /\ toModem' \in Seq(CallRequests) /\ Len(toModem') = Len(toModem) + 1
      /\ \A i \in 1 .. Len(toModem) : toModem'[i] = toModem[i]
      /\ toModem'[Len(toModem) + 1] = Numbered(op, n)
  BY <1>2, <1>3, <1>4, <1>5, AppendProperties
<1>7. Len(toModem) \in Nat
  BY <1>4, LenProperties
<1>8. CallsTypeOK'
  BY <1>2, <1>3, <1>6 DEF CallsInv, CallsTypeOK, RxOK
<1>9. PendingOK'
  <2>1. \A i \in 1 .. Len(toModem') : i \in 1 .. Len(toModem) \/ i = Len(toModem) + 1
    BY <1>6, <1>7
  <2>2. \A i \in 1 .. Len(toModem) : Number(toModem'[i]) = Number(toModem[i])
    BY <1>6 DEF Number
  <2>3. Number(toModem'[Len(toModem) + 1]) = n
    BY <1>5, <1>6 DEF Number
  <2>4. ASSUME NEW i \in 1 .. Len(toModem) PROVE Number(toModem[i]) \in 0 .. Len(calls)
    <3>1. CASE toModem[i] = Delimiter
      BY <1>4, <3>1, RequestFacts
    <3>2. CASE \E k \in 1 .. Len(calls) : calls[k].op \in Ops /\ toModem[i] = Numbered(calls[k].op, k)
      BY <1>4, <3>2, RequestFacts
    <3>3. QED
      BY <3>1, <3>2 DEF CallsInv, PendingOK
  <2>5. \A i, j \in 1 .. Len(toModem') : i < j => Number(toModem'[i]) < Number(toModem'[j])
    <3> SUFFICES ASSUME NEW i \in 1 .. Len(toModem'), NEW j \in 1 .. Len(toModem'), i < j
                 PROVE  Number(toModem'[i]) < Number(toModem'[j])
      OBVIOUS
    <3>1. i \in 1 .. Len(toModem)
      BY <1>6, <1>7
    <3>2. CASE j \in 1 .. Len(toModem)
      BY <2>2, <3>1, <3>2 DEF CallsInv, PendingOK
    <3>3. CASE j = Len(toModem) + 1
      BY <1>4, <2>2, <2>3, <2>4, <3>1, <3>3
    <3>4. QED
      BY <2>1, <3>2, <3>3
  <2>6. ASSUME NEW i \in 1 .. Len(toModem')
        PROVE  \/ toModem'[i] = Delimiter /\ resynced'
               \/ \E k \in 1 .. Len(calls') :
                     /\ calls'[k].op \in Ops /\ toModem'[i] = Numbered(calls'[k].op, k)
                     /\ modem'[k] = "none"
    <3>1. 1 .. Len(calls) \subseteq 1 .. Len(calls') /\ n \in 1 .. Len(calls')
      BY <1>3, <1>4
    <3>2. CASE i \in 1 .. Len(toModem)
      <4>1. toModem'[i] = toModem[i]
        BY <1>6, <3>2
      <4>2. CASE toModem[i] = Delimiter /\ resynced
        BY <1>2, <4>1, <4>2
      <4>3. CASE \E k \in 1 .. Len(calls) :
                    /\ calls[k].op \in Ops /\ toModem[i] = Numbered(calls[k].op, k)
                    /\ modem[k] = "none"
        <5>1. PICK k \in 1 .. Len(calls) :
                    /\ calls[k].op \in Ops /\ toModem[i] = Numbered(calls[k].op, k)
                    /\ modem[k] = "none"
          BY <4>3
        <5>2. calls'[k] = calls[k] /\ modem'[k] = "none" /\ k \in 1 .. Len(calls')
          BY <1>3, <3>1, <5>1
        <5>3. QED
          BY <4>1, <5>1, <5>2
      <4>4. QED
        BY <3>2, <4>2, <4>3 DEF CallsInv, PendingOK
    <3>3. CASE i = Len(toModem) + 1
      BY <1>1, <1>3, <1>6, <3>1, <3>3
    <3>4. QED
      BY <2>1, <3>2, <3>3
  <2>7. QED
    BY <2>5, <2>6 DEF PendingOK
<1>10. DelimiterFirst'
  <2>1. resynced /\ rx = "stale" => toModem' # <<>> /\ toModem'[1] = Delimiter
    <3>1. SUFFICES ASSUME resynced, rx = "stale"
                   PROVE  toModem' # <<>> /\ toModem'[1] = Delimiter
      OBVIOUS
    <3>2. toModem # <<>> /\ toModem[1] = Delimiter
      BY <3>1 DEF CallsInv, DelimiterFirst
    <3>3. 1 \in 1 .. Len(toModem)
      BY <1>4, <3>2, EmptySeq
    <3>4. toModem' # <<>>
      BY <1>2, <1>4, <1>5, <1>3, AppendProperties
    <3>5. QED
      BY <1>6, <3>2, <3>3, <3>4
  <2>2. resynced => \A k \in 1 .. Len(modem') : modem'[k] # "glued"
    <3>1. \A k \in 1 .. Len(modem') : k \in 1 .. Len(modem) \/ k = Len(calls) + 1
      BY <1>3, <1>4
    <3>2. QED
      BY <1>3, <1>4, <3>1 DEF CallsInv, DelimiterFirst
  <2>3. QED
    BY <1>2, <2>1, <2>2 DEF DelimiterFirst
<1>11. AtHand'
  BY <1>1, <1>2, <1>3 DEF AtHand, Judged
<1>12. QED
  BY <1>3, <1>8, <1>9, <1>10, <1>11 DEF CallsInv

LEMMA ResyncKeeps ==
    ASSUME CallsInv, Resync
    PROVE  CallsInv'
<1>1. /\ calls = <<>> /\ ~resynced /\ resynced' = TRUE /\ pc' = "resync"
      /\ toModem' = Append(toModem, Delimiter)
      /\ UNCHANGED <<toHost, pend, dead, req, answer, rx, calls, modem>>
  BY DEF Resync
<1>2. Len(calls) = 0 /\ Len(modem) = 0 /\ toModem \in Seq(CallRequests)
  BY <1>1, EmptySeq DEF CallsInv, CallsTypeOK
<1>3. toModem = <<>>
  <2>1. \A i \in 1 .. Len(toModem) : FALSE
    BY <1>1, <1>2 DEF CallsInv, PendingOK
  <2>2. Len(toModem) \in Nat /\ (toModem # <<>> => Len(toModem) \in Nat \ {0})
    BY <1>2, EmptySeq
  <2>3. QED
    BY <2>1, <2>2
<1>4. /\ toModem' \in Seq(CallRequests) /\ Len(toModem') = 1 /\ toModem' # <<>>
      /\ toModem'[1] = Delimiter
  <2>1. toModem' = <<Delimiter>>
    BY <1>1, <1>3
  <2>2. QED
    BY <2>1, RequestFacts
<1>5. CallsTypeOK'
  BY <1>1, <1>4 DEF CallsInv, CallsTypeOK, RxOK
<1>6. PendingOK'
  BY <1>1, <1>4 DEF PendingOK
<1>7. DelimiterFirst'
  BY <1>1, <1>2, <1>4 DEF DelimiterFirst
<1>8. AtHand'
  <2>1. Judged'
    BY <1>1 DEF Judged
  <2>2. QED
    BY <1>1, <2>1 DEF AtHand
<1>9. AllTold(toHost', calls', modem', Clean') /\ AllTold(pend', calls', modem', Clean')
  <2>1. Grown(calls, modem, calls', modem')
    <3>1. Len(calls) \in Nat /\ Len(calls') = Len(calls)
      BY <1>1, <1>2
    <3>2. QED
      BY <1>1, <3>1 DEF Grown
  <2>2. Clean => Clean'
    BY <1>1 DEF Clean
  <2>3. QED
    BY <1>1, <2>1, <2>2, AllToldStays DEF CallsInv
<1>10. AllEarned(calls', modem', Clean')
  BY <1>1, <1>2 DEF AllEarned
<1>11. QED
  BY <1>5, <1>6, <1>7, <1>8, <1>9, <1>10 DEF CallsInv

\* The answer tells what the call needs to earn its verdict and its hint.
LEMMA JudgeKeeps ==
    ASSUME CallsInv, Judge
    PROVE  CallsInv'
<1> DEFINE n == Len(calls)
           old == calls[n]
           new == [old EXCEPT !.verdict = Verdict(req.op), !.hint = Hint(req.op)]
<1>1. /\ calls \in Seq(Call4) /\ modem \in Seq(Deeds) /\ Len(modem) = n /\ n \in Nat
      /\ pc = "ready" /\ ~Judged /\ calls' = [calls EXCEPT ![n] = new]
      /\ UNCHANGED <<toModem, toHost, pend, dead, pc, req, resynced, rx, modem>>
  BY LenProperties DEF CallsInv, CallsTypeOK, Judge
<1>2. n \in 1 .. n /\ old \in Call4
  <2>1. calls # <<>>
    BY <1>1 DEF Judged
  <2>2. n \in Nat \ {0}
    BY <1>1, <2>1, EmptySeq
  <2>3. n \in 1 .. n
    BY <2>2
  <2>4. QED
    BY <1>1, <2>3, ElementOfSeq
<1>3. /\ old.op \in Ops /\ req.op = old.op
      /\ \/ answer = NoReply
         \/ answer.op \in {req.op, "BAD_CMD"} /\ Told(answer, calls, modem, Clean)
  <2>1. old.op \in Ops /\ req = Numbered(old.op, n)
    BY <1>1 DEF CallsInv, AtHand
  <2>2. req.op = old.op
    BY <1>1, <2>1, RequestFacts
  <2>3. QED
    BY <1>1, <2>1, <2>2 DEF CallsInv, AtHand
<1>4. new \in Call4 /\ new.op = old.op /\ new.verdict = Verdict(req.op) /\ new.hint = Hint(req.op)
  <2>1. Verdict(req.op) \in {"ok", "timed out", "rejected"} /\ Hint(req.op) \in {"none", "gated", "stale", "no echo; gated"}
    BY DEF Verdict, Hint
  <2>2. QED
    BY <1>2, <2>1 DEF Call4
<1> HIDE DEF new
<1>5. /\ calls' \in Seq(Call4) /\ Len(calls') = n
      /\ \A k \in 1 .. n : calls'[k] = IF k = n THEN new ELSE calls[k]
  BY <1>1, <1>2, <1>4, ExceptSeq
<1>6. Grown(calls, modem, calls', modem') /\ Clean' = Clean
  BY <1>1, <1>4, <1>5 DEF Grown, Clean
<1>7. AllTold(toHost', calls', modem', Clean') /\ AllTold(pend', calls', modem', Clean')
  BY <1>1, <1>6, AllToldStays DEF CallsInv
<1>8. Earned(n, calls', modem', Clean')
  <2>1. CASE answer = NoReply
    <3>1. new.verdict = "timed out" /\ new.hint = "none"
      BY <1>4, <2>1 DEF Verdict, Hint, NoReply, Frame
    <3>2. QED
      BY <1>2, <1>5, <3>1 DEF Earned
  <2>5. CASE answer = EmptyEcho
    <3>1. answer.op = "BAD_CMD" /\ answer.sub = "" /\ "" \notin Ops \cup {"stale"}
      BY <2>5 DEF EmptyEcho, Frame, Ops
    <3>2. NoReply.op = "none"
      BY DEF NoReply, Frame
    <3>3. answer # NoReply /\ "BAD_CMD" # "none"
      BY <3>1, <3>2
    <3>4. Told(answer, calls, modem, Clean)
      BY <1>3, <3>3
    <3>5. new.hint = "no echo; gated"
      BY <1>4, <2>5, <3>1 DEF Hint
    <3>6. old.op # "VERNO" => new.verdict = "rejected"
      BY <1>3, <1>4, <3>1, <3>3 DEF Verdict
    <3>7. /\ Told(answer, calls, modem, Clean)
          /\ new.hint = "no echo; gated"
          /\ old.op # "VERNO" => new.verdict = "rejected"
      BY <3>4, <3>5, <3>6
    <3>8. Clean \/ \E j \in 1 .. n : modem[j] \in {"rejected", "glued"}
      BY <3>1, <3>7 DEF Told
    <3>9. calls'[n] = new
      BY <1>2, <1>5
    <3>10. QED
      BY <1>1, <1>4, <1>6, <3>7, <3>8, <3>9 DEF Earned
  <2>2. CASE answer.op = "BAD_CMD" /\ answer # NoReply /\ answer # EmptyEcho
    <3>1. /\ Told(answer, calls, modem, Clean)
          /\ new.hint = IF answer.sub = old.op THEN "gated" ELSE "stale"
          /\ old.op # "VERNO" => new.verdict = "rejected"
      BY <1>3, <1>4, <2>2 DEF Verdict, Hint
    <3>2. /\ answer.sub = old.op => \E j \in 1 .. n : calls[j].op = old.op /\ modem[j] = "rejected"
          /\ \/ answer.sub = old.op
             \/ \E j \in 1 .. n - 1 : calls[j].op # old.op /\ modem[j] = "rejected"
             \/ \E j \in 1 .. n : modem[j] = "glued"
             \/ Clean
      <4>1. answer.sub \in Ops =>
               \E j \in 1 .. n : calls[j].op = answer.sub /\ modem[j] = "rejected"
        BY <2>2, <3>1 DEF Told, Ops
      <4>2. \A j \in 1 .. n : calls[j].op # old.op => j \in 1 .. n - 1
        BY <1>1
      <4>3. answer.sub \in Ops \/ Clean \/ \E j \in 1 .. n : modem[j] = "glued"
        BY <2>2, <3>1 DEF Told
      <4>4. QED
        BY <1>3, <4>1, <4>2, <4>3
    <3>3. \A j \in 1 .. n : calls'[j].op = calls[j].op
      BY <1>4, <1>5
    <3>4. 1 .. n - 1 \subseteq 1 .. n
      BY <1>1
    <3>5. calls'[n] = new
      BY <1>2, <1>5
    <3>6. QED
      BY <1>1, <1>4, <1>6, <3>1, <3>2, <3>3, <3>4, <3>5 DEF Earned
  <2>3. CASE answer.op = old.op /\ answer.op # "BAD_CMD" /\ answer # NoReply
    <3>1. new.hint = "none" /\ Told(answer, calls, modem, Clean)
      BY <1>3, <1>4, <2>3 DEF Hint
    <3>2. answer.op \in {"NV_WRITE", "SUBSYS_CMD"} =>
             \E j \in 1 .. n : calls[j].op = answer.op /\ modem[j] = "ok"
      BY <3>1 DEF Told
    <3>3. \A j \in 1 .. n : calls'[j].op = calls[j].op
      BY <1>4, <1>5
    <3>4. calls'[n] = new
      BY <1>2, <1>5
    <3>5. QED
      BY <1>1, <1>4, <2>3, <3>1, <3>2, <3>3, <3>4 DEF Earned
  <2>4. QED
    BY <1>3, <2>1, <2>2, <2>3, <2>5
<1>9. AllEarned(calls', modem', Clean')
  <2>1. ASSUME NEW k \in 1 .. n, k # n PROVE Earned(k, calls', modem', Clean')
    <3>1. Earned(k, calls, modem, Clean)
      BY DEF CallsInv, AllEarned
    <3>2. QED
      BY <1>5, <1>6, <2>1, <3>1, EarnedStays
  <2>2. QED
    BY <1>5, <1>8, <2>1 DEF AllEarned
<1>10. CallsTypeOK'
  BY <1>1, <1>5 DEF CallsInv, CallsTypeOK, RxOK
<1>11. PendingOK'
  <2>1. \A k \in 1 .. n : calls'[k].op = calls[k].op
    BY <1>4, <1>5
  <2>2. QED
    BY ZenonT(30), <1>1, <1>5, <2>1 DEF CallsInv, PendingOK
<1>12. DelimiterFirst'
  BY <1>1 DEF CallsInv, DelimiterFirst
<1>13. AtHand'
  <2>1. Judged'
    <3>1. calls'[Len(calls')].verdict = Verdict(req.op)
      BY <1>2, <1>4, <1>5
    <3>2. QED
      BY <3>1 DEF Judged, Verdict
  <2>2. QED
    BY <1>1, <2>1 DEF AtHand
<1>14. QED
  BY <1>7, <1>9, <1>10, <1>11, <1>12, <1>13 DEF CallsInv

-----------------------------------------------------------------------------
(* The modem.                                                              *)

\* The oldest request leaves the link; those behind it have higher numbers.
LEMMA RequestTaken ==
    ASSUME CallsInv, toModem # <<>>
    PROVE  /\ Tail(toModem) \in Seq(CallRequests)
           /\ Len(Tail(toModem)) = Len(toModem) - 1 /\ Len(toModem) \in Nat \ {0}
           /\ \A i \in 1 .. Len(Tail(toModem)) :
                 /\ Tail(toModem)[i] = toModem[i + 1] /\ i + 1 \in 1 .. Len(toModem)
                 /\ Number(Tail(toModem)[i]) > Number(Head(toModem))
           /\ Head(toModem) = toModem[1]
           /\ \/ Head(toModem) = Delimiter /\ resynced
              \/ \E k \in 1 .. Len(calls) :
                    /\ calls[k].op \in Ops /\ Head(toModem) = Numbered(calls[k].op, k)
                    /\ Head(toModem) # Delimiter /\ Head(toModem).op = calls[k].op
                    /\ Head(toModem).body = <<k>> /\ Number(Head(toModem)) = k
                    /\ modem[k] = "none"
<1>1. toModem \in Seq(CallRequests) /\ calls \in Seq(Call4) /\ PendingOK
  BY DEF CallsInv, CallsTypeOK
<1>2. /\ Tail(toModem) \in Seq(CallRequests) /\ Len(Tail(toModem)) = Len(toModem) - 1
      /\ \A i \in 1 .. Len(Tail(toModem)) : Tail(toModem)[i] = toModem[i + 1]
  BY <1>1, HeadTailProperties
<1>3. Len(toModem) \in Nat \ {0} /\ Head(toModem) = toModem[1]
  BY <1>1, EmptySeq
<1>4. 1 \in 1 .. Len(toModem) /\ \A i \in 1 .. Len(Tail(toModem)) : i + 1 \in 1 .. Len(toModem) /\ 1 < i + 1
  BY <1>2, <1>3
<1>5. ASSUME NEW i \in 1 .. Len(Tail(toModem))
      PROVE  Number(Tail(toModem)[i]) > Number(Head(toModem))
  <2>1. Number(toModem[1]) < Number(toModem[i + 1])
    BY <1>1, <1>4 DEF PendingOK
  <2>2. QED
    BY <1>2, <1>3, <2>1
<1>6. \/ Head(toModem) = Delimiter /\ resynced
      \/ \E k \in 1 .. Len(calls) :
            calls[k].op \in Ops /\ Head(toModem) = Numbered(calls[k].op, k) /\ modem[k] = "none"
  BY <1>1, <1>3, <1>4 DEF PendingOK
<1>7. \A k \in 1 .. Len(calls) : k \in Nat
  BY <1>1, LenProperties
<1>8. QED
  BY <1>2, <1>3, <1>4, <1>5, <1>6, <1>7, RequestFacts

\* Only what becomes of request n is decided now; the modem parses no glued
\* frame after a delimiter.
Decided(n, ms, ms2) ==
    /\ ms2 \in Seq(Deeds) /\ Len(ms2) = Len(ms)
    /\ \A k \in 1 .. Len(ms) : ms2[k] = ms[k] \/ (k = n /\ ms[k] = "none")

Rested == rx = ""

NoneGlued(ms) == resynced => \A k \in 1 .. Len(ms) : ms[k] # "glued"

\* What is common to the modem's steps.
LEMMA ModemKeeps ==
    ASSUME CallsInv, toModem # <<>>, NEW said \in Seq(CallFrames), ModemAnswers(said),
           UNCHANGED <<resynced, calls>>, Rested',
           Decided(Number(Head(toModem)), modem, modem'), NoneGlued(modem'),
           AllTold(said, calls', modem', Clean')
    PROVE  CallsInv'
<1>1. /\ toModem' = Tail(toModem) /\ toHost' = toHost \o said
      /\ UNCHANGED <<pend, dead, pc, req, answer>>
  BY DEF ModemAnswers
<1>2. /\ toHost \in Seq(CallFrames) /\ pend \in Seq(CallFrames)
      /\ Len(modem) = Len(calls) /\ Len(calls) \in Nat
  BY LenProperties DEF CallsInv, CallsTypeOK
<1>3. Grown(calls, modem, calls', modem')
  BY <1>2 DEF Grown, Decided
<1>4. Clean => Clean'
  BY DEF Clean, Rested
<1>5. AllTold(toHost, calls', modem', Clean') /\ AllTold(pend', calls', modem', Clean')
  BY <1>1, <1>3, <1>4, AllToldStays DEF CallsInv
<1>6. toHost' \in Seq(CallFrames) /\ AllTold(toHost', calls', modem', Clean')
  BY <1>1, <1>2, <1>5, ToldConcat
<1>7. AllEarned(calls', modem', Clean')
  <2>1. ASSUME NEW k \in 1 .. Len(calls) PROVE Earned(k, calls', modem', Clean')
    <3>1. Earned(k, calls, modem, Clean)
      BY DEF CallsInv, AllEarned
    <3>2. QED
      BY <1>3, <1>4, <3>1, EarnedStays
  <2>2. QED
    BY <2>1 DEF AllEarned
<1>8. toModem' \in Seq(CallRequests)
  BY <1>1, RequestTaken
<1>9. CallsTypeOK'
  BY <1>1, <1>2, <1>6, <1>8 DEF CallsInv, CallsTypeOK, Decided, Rested, RxOK
<1>10. PendingOK'
  <2>1. /\ Len(toModem') = Len(toModem) - 1 /\ Len(toModem) \in Nat \ {0}
        /\ \A i \in 1 .. Len(toModem') :
              /\ toModem'[i] = toModem[i + 1] /\ i + 1 \in 1 .. Len(toModem)
              /\ Number(toModem'[i]) > Number(Head(toModem))
    BY <1>1, RequestTaken DEF Number
  <2>2. ASSUME NEW i \in 1 .. Len(toModem'), NEW j \in 1 .. Len(toModem'), i < j
        PROVE  Number(toModem'[i]) < Number(toModem'[j])
    <3>1. Number(toModem[i + 1]) < Number(toModem[j + 1])
      BY <2>1, <2>2 DEF CallsInv, PendingOK
    <3>2. QED
      BY <2>1, <3>1 DEF Number
  <2>3. ASSUME NEW i \in 1 .. Len(toModem')
        PROVE  \/ toModem'[i] = Delimiter /\ resynced'
               \/ \E k \in 1 .. Len(calls') :
                     /\ calls'[k].op \in Ops /\ toModem'[i] = Numbered(calls'[k].op, k)
                     /\ modem'[k] = "none"
    <3>1. toModem'[i] = toModem[i + 1] /\ Number(toModem'[i]) > Number(Head(toModem))
      BY <2>1
    <3>2. CASE toModem[i + 1] = Delimiter /\ resynced
      BY <3>1, <3>2
    <3>3. CASE \E k \in 1 .. Len(calls) :
                  /\ calls[k].op \in Ops /\ toModem[i + 1] = Numbered(calls[k].op, k)
                  /\ modem[k] = "none"
      <4>1. PICK k \in 1 .. Len(calls) :
                  /\ calls[k].op \in Ops /\ toModem[i + 1] = Numbered(calls[k].op, k)
                  /\ modem[k] = "none"
        BY <3>3
      <4>2. Number(toModem'[i]) = k
        BY <1>2, <3>1, <4>1, RequestFacts
      <4>3. ~(k > k)
        BY <1>2
      <4>4. modem'[k] = "none"
        BY <1>2, <3>1, <4>1, <4>2, <4>3 DEF Decided
      <4>5. QED
        BY <3>1, <4>1, <4>4
    <3>4. QED
      BY <2>1, <3>2, <3>3 DEF CallsInv, PendingOK
  <2>4. QED
    BY <2>2, <2>3 DEF PendingOK
<1>11. DelimiterFirst'
  BY DEF DelimiterFirst, NoneGlued, Rested
<1>12. AtHand'
  <2>1. Judged' = Judged /\ Len(calls') = Len(calls)
    BY DEF Judged
  <2>2. Told(answer, calls, modem, Clean) => Told(answer, calls', modem', Clean')
    BY <1>3, <1>4, ToldStays
  <2>3. QED
    BY <1>1, <2>1, <2>2 DEF CallsInv, AtHand
<1>13. QED
  BY <1>5, <1>6, <1>7, <1>9, <1>10, <1>11, <1>12 DEF CallsInv

\* What the modem answers with.
LEMMA ReplyFacts ==
    /\ Refusal("stale", 0) \in CallFrames
    /\ EmptyEcho \in CallFrames /\ EmptyEcho.op = "BAD_CMD"
    /\ \A op \in Ops, k \in Nat : Ack(op, k) \in CallFrames /\ Refusal(op, k) \in CallFrames
<1>1. ASSUME NEW op \in Ops, NEW k \in Nat PROVE Ack(op, k) \in CallReplies
  BY DEF CallReplies
<1>2. ASSUME NEW sub \in Ops \cup {"stale"}, NEW k \in Nat PROVE Refusal(sub, k) \in CallReplies
  BY DEF CallReplies
<1>3. 0 \in Nat /\ "stale" \in Ops \cup {"stale"}
  OBVIOUS
<1>4. EmptyEcho \in CallReplies /\ EmptyEcho.op = "BAD_CMD"
  BY DEF CallReplies, EmptyEcho, Frame
<1>5. QED
  BY <1>1, <1>2, <1>3, <1>4 DEF CallFrames

\* The sequence of deeds with one more of them known.
LEMMA DeedDone ==
    ASSUME CallsInv, NEW k \in 1 .. Len(calls), modem[k] = "none", NEW deed \in Deeds,
           modem' = [modem EXCEPT ![k] = deed]
    PROVE  Decided(k, modem, modem') /\ modem'[k] = deed
<1>1. modem \in Seq(Deeds) /\ Len(modem) = Len(calls)
  BY DEF CallsInv, CallsTypeOK
<1>2. /\ modem' \in Seq(Deeds) /\ Len(modem') = Len(modem)
      /\ \A j \in 1 .. Len(modem) : modem'[j] = IF j = k THEN deed ELSE modem[j]
  BY <1>1, ExceptSeq
<1>3. QED
  BY <1>1, <1>2 DEF Decided

LEMMA NothingDone ==
    ASSUME CallsInv, UNCHANGED modem, NEW n
    PROVE  Decided(n, modem, modem')
  BY DEF CallsInv, CallsTypeOK, Decided

LEMMA ModemEndsStaleKeeps ==
    ASSUME CallsInv, ModemEndsStale
    PROVE  CallsInv'
<1> DEFINE echo == Frame("BAD_CMD", "stale", <<0>>)
           head == Head(toModem)
<1>1. /\ toModem # <<>> /\ rx = "stale" /\ Rested' /\ UNCHANGED <<resynced, calls>>
      /\ modem' = IF head = Delimiter THEN modem
                  ELSE [modem EXCEPT ![head.body[1]] = "glued"]
  BY DEF ModemEndsStale, ModemTakes, Rested
<1>2. PICK said \in {<<>>, <<echo>>, <<EmptyEcho>>} : ModemAnswers(said)
  BY DEF ModemEndsStale
<1>3. echo \in CallFrames /\ echo.op = "BAD_CMD" /\ echo.sub = "stale"
  <2>1. echo.op = "BAD_CMD" /\ echo.sub = "stale"
    BY DEF Frame
  <2>2. QED
    BY <2>1, ReplyFacts DEF Refusal
<1> HIDE DEF echo
<1>4. /\ Decided(Number(head), modem, modem') /\ NoneGlued(modem')
      /\ Told(echo, calls', modem', Clean') /\ Told(EmptyEcho, calls', modem', Clean')
  <2>1. CASE head = Delimiter /\ resynced
    <3>1. UNCHANGED modem /\ Clean'
      BY <1>1, <2>1 DEF Clean, Rested
    <3>2. NoneGlued(modem)
      BY DEF CallsInv, DelimiterFirst, NoneGlued
    <3>3. Decided(Number(head), modem, modem')
      BY <3>1, NothingDone
    <3>4. Told(echo, calls', modem', Clean') /\ Told(EmptyEcho, calls', modem', Clean')
      BY <1>3, <3>1, ReplyFacts DEF Told
    <3>5. QED
      BY <3>1, <3>2, <3>3, <3>4 DEF NoneGlued
  <2>2. CASE \E k \in 1 .. Len(calls) :
                /\ head # Delimiter /\ head.body = <<k>> /\ Number(head) = k
                /\ modem[k] = "none"
    <3>1. PICK k \in 1 .. Len(calls) :
                /\ head # Delimiter /\ head.body = <<k>> /\ Number(head) = k
                /\ modem[k] = "none"
      BY <2>2
    <3>2. ~resynced
      BY <1>1, <3>1, RequestTaken DEF CallsInv, DelimiterFirst
    <3>3. modem' = [modem EXCEPT ![k] = "glued"] /\ "glued" \in Deeds
      <4>1. head.body[1] = k
        BY <3>1
      <4>2. QED
        BY <1>1, <3>1, <4>1 DEF Deeds
    <3>4. Decided(k, modem, modem') /\ modem'[k] = "glued"
      BY <3>1, <3>3, DeedDone
    <3>5. NoneGlued(modem')
      BY <3>2 DEF NoneGlued
    <3>6. Told(echo, calls', modem', Clean') /\ Told(EmptyEcho, calls', modem', Clean')
      BY <1>1, <1>3, <3>4, ReplyFacts DEF Told
    <3>7. QED
      BY <3>1, <3>4, <3>5, <3>6
  <2>3. QED
    BY <1>1, <2>1, <2>2, RequestTaken
<1>5. said \in Seq(CallFrames) /\ AllTold(said, calls', modem', Clean')
  BY <1>2, <1>3, <1>4, ReplyFacts, ToldNone, ToldOne
<1>6. QED
  BY <1>1, <1>2, <1>4, <1>5, ModemKeeps

LEMMA ModemSkipsDelimiterKeeps ==
    ASSUME CallsInv, ModemSkipsDelimiter
    PROVE  CallsInv'
<1>1. /\ toModem # <<>> /\ Rested' /\ ModemAnswers(<<>>)
      /\ UNCHANGED <<resynced, calls, modem>>
  BY DEF ModemSkipsDelimiter, ModemTakes, Rested
<1>2. Decided(Number(Head(toModem)), modem, modem')
  BY <1>1, NothingDone
<1>3. NoneGlued(modem')
  BY <1>1 DEF CallsInv, DelimiterFirst, NoneGlued
<1>4. <<>> \in Seq(CallFrames) /\ AllTold(<<>>, calls', modem', Clean')
  BY ToldNone
<1>5. QED
  BY <1>1, <1>2, <1>3, <1>4, ModemKeeps

LEMMA ModemDecidesKeeps ==
    ASSUME CallsInv, ModemDecides
    PROVE  CallsInv'
<1> DEFINE r == Head(toModem)
           ack == Frame(r.op, "", r.body)
<1>1. /\ toModem # <<>> /\ r # Delimiter /\ Rested' /\ UNCHANGED <<resynced, calls>>
      /\ \/ ModemAnswers(<<ack>>) /\ modem' = [modem EXCEPT ![r.body[1]] = "ok"]
         \/ /\ \E no \in {Rejection(r), EmptyEcho} : ModemAnswers(<<no>>)
            /\ modem' = [modem EXCEPT ![r.body[1]] = "rejected"]
  BY DEF ModemDecides, ModemTakes, Rested
<1>2. PICK k \in 1 .. Len(calls) :
            /\ calls[k].op \in Ops /\ r.op = calls[k].op /\ r.body = <<k>>
            /\ Number(r) = k /\ modem[k] = "none"
  BY <1>1, RequestTaken
<1>3. k \in Nat
  <2>1. Len(calls) \in Nat
    BY LenProperties DEF CallsInv, CallsTypeOK
  <2>2. QED
    BY <2>1
<1>4. /\ ack \in CallFrames /\ ack.op = r.op
      /\ Rejection(r) \in CallFrames /\ Rejection(r).op = "BAD_CMD" /\ Rejection(r).sub = r.op
  <2>1. ack = Ack(calls[k].op, k) /\ Rejection(r) = Refusal(calls[k].op, k)
    BY <1>2 DEF Rejection, Ack, Refusal
  <2>2. ack \in CallFrames /\ Rejection(r) \in CallFrames
    BY <1>2, <1>3, <2>1, ReplyFacts
  <2>3. ack.op = r.op /\ Rejection(r).op = "BAD_CMD" /\ Rejection(r).sub = r.op
    BY DEF Rejection, Frame
  <2>4. QED
    BY <2>2, <2>3
<1> HIDE DEF ack
<1>5. ASSUME NEW deed \in {"ok", "rejected"}, modem' = [modem EXCEPT ![r.body[1]] = deed]
      PROVE  Decided(Number(r), modem, modem') /\ modem'[k] = deed /\ NoneGlued(modem')
  <2>1. modem' = [modem EXCEPT ![k] = deed] /\ deed \in Deeds /\ deed # "glued"
    <3>1. r.body[1] = k
      BY <1>2
    <3>2. QED
      BY <1>5, <3>1 DEF Deeds
  <2>2. Decided(k, modem, modem') /\ modem'[k] = deed
    BY <1>2, <2>1, DeedDone
  <2>3. NoneGlued(modem')
    <3>1. NoneGlued(modem)
      BY DEF CallsInv, DelimiterFirst, NoneGlued
    <3>2. ASSUME resynced, NEW j \in 1 .. Len(modem') PROVE modem'[j] # "glued"
      BY <2>1, <2>2, <3>1, <3>2 DEF Decided, NoneGlued
    <3>3. QED
      BY <3>2 DEF NoneGlued
  <2>4. QED
    BY <1>2, <2>2, <2>3
<1>6. r.op # "BAD_CMD"
  BY <1>2 DEF Ops
<1>7. CASE ModemAnswers(<<ack>>) /\ modem' = [modem EXCEPT ![r.body[1]] = "ok"]
  <2>1. Decided(Number(r), modem, modem') /\ modem'[k] = "ok" /\ NoneGlued(modem')
    BY <1>5, <1>7
  <2>2. Told(ack, calls', modem', Clean')
    BY <1>1, <1>2, <1>4, <1>6, <2>1 DEF Told
  <2>3. <<ack>> \in Seq(CallFrames) /\ AllTold(<<ack>>, calls', modem', Clean')
    BY <1>4, <2>2, ToldOne
  <2>4. QED
    BY <1>1, <1>7, <2>1, <2>3, ModemKeeps
<1>8. CASE /\ \E no \in {Rejection(r), EmptyEcho} : ModemAnswers(<<no>>)
           /\ modem' = [modem EXCEPT ![r.body[1]] = "rejected"]
  <2>1. Decided(Number(r), modem, modem') /\ modem'[k] = "rejected" /\ NoneGlued(modem')
    BY <1>5, <1>8
  <2>2. PICK no \in {Rejection(r), EmptyEcho} : ModemAnswers(<<no>>)
    BY <1>8
  <2>3. Told(Rejection(r), calls', modem', Clean')
    BY <1>1, <1>2, <1>4, <2>1 DEF Told
  <2>4. Told(EmptyEcho, calls', modem', Clean')
    BY <1>1, <1>2, <2>1, ReplyFacts DEF Told
  <2>5. <<no>> \in Seq(CallFrames) /\ AllTold(<<no>>, calls', modem', Clean')
    BY <1>4, <2>2, <2>3, <2>4, ReplyFacts, ToldOne
  <2>6. QED
    BY <1>1, <2>1, <2>2, <2>5, ModemKeeps
<1>9. QED
  BY <1>1, <1>7, <1>8

-----------------------------------------------------------------------------
(* The whole.                                                              *)

LEMMA CallsKeep ==
    ASSUME CallsInv, CallsNext
    PROVE  CallsInv'
<1>1. CASE Resync \/ WaitForLogCodes
  BY <1>1, ResyncKeeps, WaitKeeps
<1>2. CASE \E op \in Ops : Ask(op)
  BY <1>2, AskKeeps
<1>3. CASE CallStep
  BY <1>3, DrainsKeep, JudgeKeeps, ClientStepKeeps DEF CallStep
<1>4. CASE Stream \/ ClockTicks
  BY <1>4, StreamKeeps
<1>5. CASE ModemEndsStale \/ ModemSkipsDelimiter \/ ModemDecides
  BY <1>5, ModemEndsStaleKeeps, ModemSkipsDelimiterKeeps, ModemDecidesKeeps
<1>6. QED
  BY <1>1, <1>2, <1>3, <1>4, <1>5 DEF CallsNext

\* Before the first call; a probe's late answer may be on its way.
LEMMA NoCallsYet ==
    ASSUME CallsInit, NEW early \in {<<>>, <<Early>>}
    PROVE  /\ toModem \in Seq(CallRequests) /\ early \in Seq(CallFrames) /\ pend \in Seq(CallFrames)
           /\ calls \in Seq(Call4) /\ modem \in Seq(Deeds)
           /\ Len(toModem) = 0 /\ Len(calls) = 0 /\ Len(modem) = 0
           /\ AllTold(early, calls, modem, Clean) /\ AllTold(pend, calls, modem, Clean)
           /\ pc = "ready" /\ dead = FALSE /\ resynced = FALSE /\ RxOK /\ Judged
<1>1. /\ toModem = <<>> /\ pend = <<>> /\ calls = <<>> /\ modem = <<>>
      /\ pc = "ready" /\ dead = FALSE /\ resynced = FALSE /\ RxOK
  BY DEF CallsInit, LinkInit, RxOK
<1>2. Early \in CallFrames /\ Told(Early, calls, modem, Clean)
  <2>1. Early \in CallFrames
    BY DEF CallFrames, CallReplies
  <2>2. Early.op = "VERNO"
    BY DEF Early, Frame
  <2>3. QED
    BY <2>1, <2>2 DEF Told
<1>3. <<Early>> \in Seq(CallFrames) /\ AllTold(<<Early>>, calls, modem, Clean)
  BY <1>2, ToldOne
<1>4. /\ \A S : <<>> \in Seq(S)
      /\ Len(<<>>) = 0
  OBVIOUS
<1>5. AllTold(<<>>, calls, modem, Clean)
  BY ToldNone
<1>6. Judged
  BY <1>1 DEF Judged
<1>7. QED
  BY <1>1, <1>3, <1>4, <1>5, <1>6

LEMMA OpeningInitHolds == OpeningInit => OIInv
<1> SUFFICES ASSUME OpeningInit PROVE OIInv
  OBVIOUS
<1>1. CallsInit /\ toHost = <<>>
  BY DEF OpeningInit, CallsInit, LinkInit
<1>2. CallsInv
  <2>1. /\ toModem \in Seq(CallRequests) /\ toHost \in Seq(CallFrames) /\ pend \in Seq(CallFrames)
        /\ calls \in Seq(Call4) /\ modem \in Seq(Deeds)
        /\ Len(toModem) = 0 /\ Len(calls) = 0 /\ Len(modem) = 0
        /\ AllTold(toHost, calls, modem, Clean) /\ AllTold(pend, calls, modem, Clean)
        /\ pc = "ready" /\ dead = FALSE /\ resynced = FALSE /\ RxOK /\ Judged
    BY <1>1, NoCallsYet
  <2>2. CallsTypeOK
    BY <2>1 DEF CallsTypeOK
  <2>3. PendingOK /\ DelimiterFirst /\ AllEarned(calls, modem, Clean)
    <3>1. \A k \in 1 .. 0 : FALSE
      OBVIOUS
    <3>2. QED
      BY <2>1, <3>1 DEF PendingOK, DelimiterFirst, AllEarned
  <2>4. AtHand
    BY <2>1 DEF AtHand
  <2>5. QED
    BY <2>1, <2>2, <2>3, <2>4 DEF CallsInv
<1>3. ProbeInv
  <2>1. stage \in {"start", "over"} /\ claimed = {} /\ detached = {}
    BY DEF OpeningInit, ProbeInit
  <2>2. QED
    BY <2>1 DEF ProbeInv
<1>4. QED
  BY <1>1, <1>2, <1>3 DEF OIInv

LEMMA OpenedKeeps == OIInv /\ Opened => OIInv'
<1> SUFFICES ASSUME OIInv, Opened PROVE OIInv'
  OBVIOUS
<1>1. /\ stage = "done" /\ stage' = "over" /\ claimed' = {} /\ detached' = {}
      /\ UNCHANGED <<toModem, pend, dead, pc, req, answer, resynced, rx, calls, modem>>
  BY DEF Opened, ProbeAt
<1>2. PICK early \in {<<>>, <<Early>>} : toHost' = early
  BY DEF Opened, Early
<1>3. CallsInit
  BY <1>1 DEF OIInv
<1>4. /\ toModem \in Seq(CallRequests) /\ early \in Seq(CallFrames) /\ pend \in Seq(CallFrames)
      /\ calls \in Seq(Call4) /\ modem \in Seq(Deeds)
      /\ Len(toModem) = 0 /\ Len(calls) = 0 /\ Len(modem) = 0
      /\ AllTold(early, calls, modem, Clean) /\ AllTold(pend, calls, modem, Clean)
      /\ pc = "ready" /\ dead = FALSE /\ resynced = FALSE /\ RxOK /\ Judged
  BY <1>3, NoCallsYet
<1>5. Clean' = Clean /\ Judged'
  BY <1>1, <1>4 DEF Clean, Judged
<1>6. CallsTypeOK'
  <2>1. RxOK'
    BY <1>1, <1>4 DEF RxOK
  <2>2. QED
    BY <1>1, <1>2, <1>4, <2>1 DEF CallsTypeOK
<1>7. PendingOK' /\ DelimiterFirst' /\ AllEarned(calls', modem', Clean')
  <2>1. \A k \in 1 .. 0 : FALSE
    OBVIOUS
  <2>2. Len(toModem') = 0 /\ Len(calls') = 0 /\ resynced' = FALSE
    BY <1>1, <1>4
  <2>3. QED
    BY <2>1, <2>2 DEF PendingOK, DelimiterFirst, AllEarned
<1>8. AtHand'
  BY <1>1, <1>4, <1>5 DEF AtHand
<1>9. CallsInv'
  BY <1>1, <1>2, <1>4, <1>5, <1>6, <1>7, <1>8 DEF CallsInv
<1>10. ProbeInv'
  BY <1>1 DEF ProbeInv
<1>11. QED
  BY <1>1, <1>9, <1>10 DEF OIInv

LEMMA OpeningStepHolds == OIInv /\ [OpeningNext]_openingVars => OIInv'
<1> SUFFICES ASSUME OIInv, [OpeningNext]_openingVars PROVE OIInv'
  OBVIOUS
<1>1. UNCHANGED probeVars => ProbeInv'
  <2> SUFFICES ASSUME UNCHANGED probeVars PROVE ProbeInv'
    OBVIOUS
  <2>1. UNCHANGED <<args, stage, untried, claimed, detached>>
    BY DEF probeVars
  <2>2. Iface' = Iface /\ Tried(untried)' = Tried(untried)
    BY <2>1 DEF Iface, Chosen, Tried, Fits, Scanned, Pinned, Pin
  <2>3. QED
    BY <2>1, <2>2 DEF OIInv, ProbeInv
<1>2. UNCHANGED callsVars => CallsInv' /\ CallsInit' = CallsInit
  <2> SUFFICES ASSUME UNCHANGED callsVars PROVE CallsInv' /\ CallsInit' = CallsInit
    OBVIOUS
  <2>1. UNCHANGED <<toModem, toHost, pend, dead, pc, req, late, answer,
                    resynced, drained, rx, calls, modem>>
    BY DEF callsVars, link
  <2>2. Clean' = Clean /\ Judged' = Judged
    BY <2>1 DEF Clean, Judged
  <2>3. CallsTypeOK' /\ PendingOK' /\ DelimiterFirst' /\ AtHand'
    BY <2>1, <2>2 DEF OIInv, CallsInv, CallsTypeOK, RxOK, PendingOK, DelimiterFirst, AtHand
  <2>4. CallsInv'
    BY <2>1, <2>2, <2>3 DEF OIInv, CallsInv
  <2>5. CallsInit' = CallsInit
    BY <2>1 DEF CallsInit, LinkInit
  <2>6. QED
    BY <2>4, <2>5
<1>3. CASE ProbeStep /\ UNCHANGED callsVars
  <2>1. stage # "over"
    BY <1>3 DEF ProbeStep, Choose, Open, OpenFails, Answers, Mute, CloseLoser, Opening, ProbeAt
  <2>2. ProbeInv'
    BY <1>3, ProbeKeeps DEF OIInv
  <2>3. QED
    BY <1>2, <1>3, <2>1, <2>2 DEF OIInv
<1>4. CASE Opened
  BY <1>4, OpenedKeeps
<1>5. CASE stage = "over" /\ CallsNext /\ UNCHANGED probeVars
  <2>1. stage' = "over"
    BY <1>5 DEF probeVars
  <2>2. CallsInv'
    BY <1>5, CallsKeep DEF OIInv
  <2>3. QED
    BY <1>1, <1>5, <2>1, <2>2 DEF OIInv
<1>6. CASE UNCHANGED openingVars
  <2>1. UNCHANGED probeVars /\ UNCHANGED callsVars /\ stage' = stage
    BY <1>6 DEF openingVars, probeVars
  <2>2. QED
    BY <1>1, <1>2, <2>1 DEF OIInv
<1>7. QED
  BY <1>3, <1>4, <1>5, <1>6 DEF OpeningNext, OpeningOver

THEOREM OpeningInvariance == OpeningSpec => []OIInv
<1>1. OpeningInit => OIInv
  BY OpeningInitHolds
<1>2. OIInv /\ [OpeningNext]_openingVars => OIInv'
  BY OpeningStepHolds
<1>3. QED
  BY <1>1, <1>2, PTL DEF OpeningSpec

\* From the first candidate to the fallback, the process holds no interface but
\* the one it looks at or has chosen, has detached none that was not tried, and
\* has kept to the arguments: for every set of interfaces and every arguments.
THEOREM OnlyTheChosenIsHeld == OpeningSpec => []HoldsOnlyTheChosen
<1>1. OIInv => HoldsOnlyTheChosen
  <2> SUFFICES ASSUME OIInv PROVE HoldsOnlyTheChosen
    OBVIOUS
  <2>1. ProbeInv
    BY DEF OIInv
  <2>2. Cardinality(claimed) <= 1
    <3>1. claimed = {} \/ claimed = {Iface}
      BY <2>1 DEF ProbeInv
    <3>2. CASE claimed = {}
      BY <3>2, FS_EmptySet
    <3>3. CASE claimed = {Iface}
      <4>1. Cardinality({Iface}) = 1
        BY FS_Singleton
      <4>2. QED
        BY <3>3, <4>1
    <3>4. QED
      BY <3>1, <3>2, <3>3
  <2>3. /\ claimed \subseteq detached
        /\ stage \in {"try", "descriptor", "raised"} => claimed = {}
        /\ stage = "done" => claimed = {Iface}
        /\ detached \subseteq {i \in Interfaces : args.iface \in {None, i}}
    BY <2>1 DEF ProbeInv
  <2>4. stage = "done" => Fits(Chosen)
    <3>1. stage = "done" => Tried(untried)
      BY <2>1 DEF ProbeInv
    <3>2. QED
      BY <3>1, ChosenIsTried DEF Tried
  <2>5. QED
    BY <2>2, <2>3, <2>4 DEF HoldsOnlyTheChosen, Fits, Iface
<1>2. QED
  BY <1>1, OpeningInvariance, PTL

\* enable_oemdre_nv() and enable_oemdre_session() return True only of a request
\* that the modem has acknowledged, however late the replies and whatever stale
\* bytes were in its buffer: for any number of calls and any unsolicited frames.
THEOREM AcksAreOwn == OpeningSpec => []AckIsOwn
<1>1. OIInv => AckIsOwn
  <2> SUFFICES ASSUME OIInv PROVE AckIsOwn
    OBVIOUS
  <2>1. \A k \in DOMAIN calls : Earned(k, calls, modem, Clean)
    BY LenProperties DEF OIInv, CallsInv, CallsTypeOK, AllEarned
  <2>2. QED
    BY <2>1 DEF AckIsOwn, Earned, OpOf
<1>2. QED
  BY <1>1, OpeningInvariance, PTL

\* Of a rejection that echoes its request bad_cmd_hint() names what the modem
\* really did, a late rejection or the echo of stale bytes included, and of one
\* that does not, no more than that something was rejected; and after a resync no
\* request is lost to stale bytes.
THEOREM HintsNameTheCause == OpeningSpec => []HintNamesCause
<1>1. OIInv => HintNamesCause
  <2> SUFFICES ASSUME OIInv PROVE HintNamesCause
    OBVIOUS
  <2>1. \A k \in DOMAIN calls : Earned(k, calls, modem, Clean)
    BY LenProperties DEF OIInv, CallsInv, CallsTypeOK, AllEarned
  <2>2. resynced => \A k \in DOMAIN modem : modem[k] # "glued"
    BY LenProperties DEF OIInv, CallsInv, CallsTypeOK, DelimiterFirst
  <2>3. ASSUME NEW k \in DOMAIN calls, calls[k].hint = "no echo; gated"
        PROVE  RejectedOwn(k, OpOf(k)) \/ RejectedOther(k, OpOf(k)) \/ ParsedStale(k)
    <3>1. k \in Nat
      BY LenProperties DEF OIInv, CallsInv, CallsTypeOK
    <3>2. \A j \in 1 .. k : calls[j].op # calls[k].op => j \in 1 .. k - 1
      BY <3>1
    <3>3. Clean \/ \E j \in 1 .. k : modem[j] \in {"rejected", "glued"}
      BY <2>1, <2>3 DEF Earned
    <3>4. QED
      BY <3>2, <3>3 DEF RejectedOwn, RejectedOther, ParsedStale, OpOf, Clean
  <2>4. QED
    BY <2>1, <2>2, <2>3
       DEF HintNamesCause, Earned, OpOf, Clean, RejectedOwn, RejectedOther, ParsedStale
<1>2. QED
  BY <1>1, OpeningInvariance, PTL

=============================================================================
