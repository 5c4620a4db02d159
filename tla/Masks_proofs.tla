----------------------------- MODULE Masks_proofs -----------------------------
(***************************************************************************)
(* What the masks are good for.  First MaskState: what save_and_zero() and *)
(* restore() promise whatever the modem refuses, ignores or answers late.  *)
(* Then Masksets: the sweeps and the event mask, for every input.          *)
(***************************************************************************)
EXTENDS MaskState, Masksets, FiniteSetTheorems, SequenceTheorems, TLAPS

-----------------------------------------------------------------------------
(* The link keeps its order.  A request that is the only one of its        *)
(* opcodes is behind everything else on the link, and so is its answer:    *)
(* the caller who has that answer knows the link to be empty.              *)

Requests ==
    {Query, EventGet} \cup {Get(r) : r \in Ranges}
        \cup {SetAll(l) : l \in Levels} \cup {EventSet(l) : l \in Levels}
        \cup {SetRange(r, l) : r \in Ranges, l \in Levels}

Kinds == {"EXT_MSG", "EVENT_GET", "EVENT_SET", "BAD_CMD"}

Subs == {"", "QUERY", "GET", "SET", "SET_ALL"} \cup Kinds

Frames ==
    {f \in [op : Kinds, sub : Subs, body : Seq(Nat)] :
        f.op = "EXT_MSG" /\ f.sub = "GET" => f.body[2] \in Levels}

F3Ops  == {"EXT_MSG"}
SetOps == {"EVENT_SET"}
EvOps  == {"EVENT_GET", "EVENT_SET"}

\* A part of the link without these opcodes, or with one only at its end.
Without(s, ops) == \A k \in 1 .. Len(s) : s[k].op \notin ops
Ended(s, ops)   == \A k \in 1 .. Len(s) : s[k].op \in ops => k = Len(s)

Clear(ops) == Without(toModem, ops) /\ Without(toHost, ops) /\ Without(pend, ops)

Drained == toModem = <<>> /\ toHost = <<>> /\ pend = <<>>

\* The last request is the only one of its opcodes: it waits for the modem, or
\* its answer is behind everything else.
Unanswered(ops) ==
    /\ Without(toHost, ops) /\ Without(pend, ops)
    /\ \A k \in 1 .. Len(toModem) :
          toModem[k].op \in ops => k = Len(toModem) /\ toModem[k] = req

LastOnly(ops) ==
    \/ Unanswered(ops)
    \/ toModem = <<>> /\ Ended(toHost, ops) /\ Without(pend, ops)
    \/ toModem = <<>> /\ toHost = <<>> /\ Ended(pend, ops)

Waited(ops) ==
    /\ LastOnly(ops)
    /\ pc = "ready" /\ answer.op \in ops => Drained

\* What the readings on the link say.
IsReading(f, op) == f.op = op /\ (op = "EXT_MSG" => f.sub = "GET")
Carry(s, op, t)  == \A k \in 1 .. Len(s) : IsReading(s[k], op) => s[k].body = t

Carries(op, t) ==
    /\ Carry(toHost, op, t) /\ Carry(pend, op, t)
    /\ pc = "ready" /\ IsReading(answer, op) => answer.body = t

-----------------------------------------------------------------------------
(* The invariant.                                                          *)

Resting == at \in {"start", "saved", "run", "f3 done", "done"}

\* The opcode of the request that save_and_zero() or restore() is in.
AskedOp ==
    CASE at \in {"query", "get", "zero", "put", "put all", "check"} -> "EXT_MSG"
      [] at \in {"events", "events again", "check events", "check events again"} -> "EVENT_GET"
      [] at \in {"zero events", "put events"} -> "EVENT_SET"
      [] OTHER -> "none"

LinkInv ==
    /\ toModem \in Seq(Requests) /\ toHost \in Seq(Frames) /\ pend \in Seq(Frames)
    /\ pc \in {"ready", "wait"} /\ (Resting => pc = "ready")
    /\ Resting \/ (req \in Requests /\ req.op = AskedOp /\ AskedOp # "none")
    /\ req.match = FALSE
    /\ pc = "ready" /\ ~Resting =>
          \/ answer = NoReply
          \/ answer \in Frames /\ answer.op \in {AskedOp, "BAD_CMD"}
    /\ before \in [f3 : [Ranges \cup {Hidden} -> Levels], events : Levels]

F3Writes(r) == r.op = "EXT_MSG" /\ r.sub \in {"SET", "SET_ALL"}
NoWrites    == \A k \in 1 .. Len(toModem) : ~F3Writes(toModem[k])

Reading  == at \in {"start", "query", "get", "saved"}
Faithful == \A r \in Ranges : saved[r] = before.f3[r]

\* The snapshot up to a range: true, or with a part that could not be read.
GoodSoFar == \A r \in 1 .. i - 1 : saved[r] = before.f3[r]
Spoiled   == ~listing \/ \E r \in 1 .. i - 1 : saved[r] = Unread

\* Range i is being read, and the answer can only be the modem's level of it.
Watched == req = Get(i) /\ Waited(F3Ops) /\ Carries("EXT_MSG", <<i, f3[i]>>)

F3Inv ==
    /\ Faithful \/ (ListedBefore /\ NoWrites)
    /\ Reading => ListedBefore /\ NoWrites /\ ~zeroed
    /\ zeroed => Complete /\ Faithful
    /\ at = "start" => Drained /\ i = 1
    /\ at = "query" => Waited(F3Ops) /\ i = 1
    /\ at = "get" => Spoiled \/ (GoodSoFar /\ Watched)
    /\ at = "saved" => ~Complete \/ (Faithful /\ Drained)
    /\ at = "zero" => Complete /\ Faithful /\ Waited(F3Ops)
    /\ at \in {"events", "events again", "zero events", "run"} /\ zeroed => Clear(F3Ops)
    /\ at \in {"put", "put all"} => zeroed /\ Waited(F3Ops)
    /\ at = "check" => zeroed
    /\ at = "check" /\ same => Watched /\ \A r \in 1 .. i - 1 : f3[r] = saved[r]
    /\ at \in {"f3 done", "put events", "check events", "check events again", "done"}
          /\ zeroed /\ f3Ok => ListedBefore /\ Clear(F3Ops)

EventInv ==
    /\ evSaved = before.events \/ (EventsBefore /\ Clear(SetOps))
    /\ evZeroed => evSaved = before.events
    /\ Reading \/ at = "zero" => EventsBefore /\ Clear(EvOps) /\ ~evZeroed
    /\ at \in {"events", "events again"} =>
          EventsBefore /\ Clear(SetOps) /\ Carries("EVENT_GET", <<events>>) /\ ~evZeroed
    /\ at = "zero events" => evSaved = before.events /\ ~evZeroed /\ Waited(SetOps)
    /\ at \in {"run", "put", "put all", "check", "f3 done"} /\ evZeroed => Clear(EvOps)
    /\ at = "put events" => evZeroed /\ Waited(SetOps)
    /\ at \in {"check events", "check events again"} =>
          evZeroed /\ Clear(SetOps) /\ Carries("EVENT_GET", <<events>>)
    /\ at = "done" /\ evZeroed /\ evOk => EventsBefore /\ Clear(SetOps)

MSInv == MaskTypeOK /\ LinkInv /\ F3Inv /\ EventInv

\* After an exception nothing moves: the link is dead and the client is out.
BrokenOff ==
    /\ at \in Lost /\ dead /\ pc = "ready"
    /\ MaskTypeOK
    /\ ChangedIsSaved

MaskInv == MSInv \/ BrokenOff

-----------------------------------------------------------------------------
(* Parts of the link that grow at the end and shrink at the head.          *)

LEMMA TailSheds ==
    ASSUME NEW S, NEW s \in Seq(S), s # <<>>
    PROVE  /\ Head(s) \in S /\ Head(s) = s[1] /\ Tail(s) \in Seq(S)
           /\ Len(s) \in Nat \ {0} /\ Len(Tail(s)) = Len(s) - 1
           /\ \A k \in 1 .. Len(Tail(s)) : Tail(s)[k] = s[k + 1] /\ k + 1 \in 1 .. Len(s)
<1>1. /\ Head(s) \in S /\ Tail(s) \in Seq(S)
      /\ Len(Tail(s)) = Len(s) - 1 /\ \A k \in 1 .. Len(Tail(s)) : Tail(s)[k] = s[k + 1]
  BY HeadTailProperties
<1>2. Len(s) \in Nat \ {0} /\ Head(s) = s[1]
  BY EmptySeq
<1>3. \A k \in 1 .. Len(s) - 1 : k + 1 \in 1 .. Len(s)
  BY <1>2
<1>4. QED
  BY <1>1, <1>2, <1>3

LEMMA WithoutTail ==
    ASSUME NEW S, NEW s \in Seq(S), s # <<>>, NEW ops, Without(s, ops)
    PROVE  Head(s).op \notin ops /\ Without(Tail(s), ops)
<1>1. 1 \in 1 .. Len(s) /\ Head(s) = s[1]
  BY TailSheds
<1>2. \A k \in 1 .. Len(Tail(s)) : Tail(s)[k] = s[k + 1] /\ k + 1 \in 1 .. Len(s)
  BY TailSheds
<1>3. QED
  BY <1>1, <1>2 DEF Without

LEMMA EndedTail ==
    ASSUME NEW S, NEW s \in Seq(S), s # <<>>, NEW ops, Ended(s, ops)
    PROVE  /\ Ended(Tail(s), ops)
           /\ Head(s).op \in ops => Tail(s) = <<>>
<1>1. Len(s) \in Nat \ {0} /\ 1 \in 1 .. Len(s) /\ Head(s) = s[1]
  BY TailSheds
<1>2. Tail(s) \in Seq(S) /\ Len(Tail(s)) = Len(s) - 1
  BY TailSheds
<1>3. \A k \in 1 .. Len(Tail(s)) : Tail(s)[k] = s[k + 1] /\ k + 1 \in 1 .. Len(s)
  BY TailSheds
<1>4. ASSUME NEW k \in 1 .. Len(Tail(s)), Tail(s)[k].op \in ops
      PROVE  k = Len(Tail(s))
  <2>1. k + 1 = Len(s)
    BY <1>3, <1>4 DEF Ended
  <2>2. k \in Int /\ Len(s) \in Int
    BY <1>1, <1>2
  <2>3. k = Len(s) - 1
    BY <2>1, <2>2
  <2>4. QED
    BY <1>2, <2>3
<1>5. Head(s).op \in ops => Len(s) = 1
  BY <1>1 DEF Ended
<1>6. ASSUME Len(s) = 1 PROVE Tail(s) = <<>>
  <2>1. Len(Tail(s)) = 0
    BY <1>2, <1>6
  <2>2. QED
    BY <1>2, <2>1, EmptySeq
<1>7. QED
  BY <1>4, <1>5, <1>6 DEF Ended

LEMMA CarryTail ==
    ASSUME NEW S, NEW s \in Seq(S), s # <<>>, NEW op, NEW t, Carry(s, op, t)
    PROVE  /\ IsReading(Head(s), op) => Head(s).body = t
           /\ Carry(Tail(s), op, t)
<1>1. 1 \in 1 .. Len(s) /\ Head(s) = s[1]
  BY TailSheds
<1>2. \A k \in 1 .. Len(Tail(s)) : Tail(s)[k] = s[k + 1] /\ k + 1 \in 1 .. Len(s)
  BY TailSheds
<1>3. QED
  BY <1>1, <1>2 DEF Carry

LEMMA OneMore ==
    ASSUME NEW S, NEW s \in Seq(S), NEW x \in S
    PROVE  /\ Append(s, x) \in Seq(S) /\ s \o <<x>> = Append(s, x)
           /\ Len(s) \in Nat /\ Len(Append(s, x)) = Len(s) + 1
           /\ Append(s, x)[Len(s) + 1] = x
           /\ \A k \in 1 .. Len(s) : Append(s, x)[k] = s[k]
<1>1. Append(s, x) \in Seq(S) /\ Len(Append(s, x)) = Len(s) + 1
  BY AppendProperties
<1>2. \A k \in 1 .. Len(s) : Append(s, x)[k] = s[k]
  BY AppendProperties
<1>3. Append(s, x)[Len(s) + 1] = x
  BY AppendProperties
<1>4. s \o <<x>> = Append(s, x)
  BY AppendIsConcat
<1>5. QED
  BY <1>1, <1>2, <1>3, <1>4, LenProperties

LEMMA WithoutAppend ==
    ASSUME NEW S, NEW s \in Seq(S), NEW x \in S, NEW ops, Without(s, ops)
    PROVE  /\ Ended(Append(s, x), ops)
           /\ x.op \notin ops => Without(Append(s, x), ops)
<1>1. Len(s) \in Nat /\ Len(Append(s, x)) = Len(s) + 1
  BY OneMore
<1>2. \A k \in 1 .. Len(s) : Append(s, x)[k] = s[k]
  BY OneMore
<1>3. Append(s, x)[Len(s) + 1] = x
  BY OneMore
<1>4. \A k \in 1 .. Len(s) + 1 : k \in 1 .. Len(s) \/ k = Len(s) + 1
  BY <1>1
<1>5. QED
  BY <1>1, <1>2, <1>3, <1>4 DEF Without, Ended

LEMMA CarryAppend ==
    ASSUME NEW S, NEW s \in Seq(S), NEW x \in S, NEW op, NEW t, Carry(s, op, t),
           IsReading(x, op) => x.body = t
    PROVE  Carry(Append(s, x), op, t)
<1>1. Len(s) \in Nat /\ Len(Append(s, x)) = Len(s) + 1
  BY OneMore
<1>2. \A k \in 1 .. Len(s) : Append(s, x)[k] = s[k]
  BY OneMore
<1>3. Append(s, x)[Len(s) + 1] = x
  BY OneMore
<1>4. \A k \in 1 .. Len(s) + 1 : k \in 1 .. Len(s) \/ k = Len(s) + 1
  BY <1>1
<1>5. QED
  BY <1>1, <1>2, <1>3, <1>4 DEF Carry

\* Nothing is anything one likes.
LEMMA Nothing ==
    ASSUME NEW S
    PROVE  /\ <<>> \in Seq(S) /\ Len(<<>>) = 0
           /\ \A ops : Without(<<>>, ops) /\ Ended(<<>>, ops)
           /\ \A op, t : Carry(<<>>, op, t)
<1>1. \A k \in 1 .. 0 : FALSE
  OBVIOUS
<1>2. <<>> \in Seq(S) /\ Len(<<>>) = 0
  BY EmptySeq
<1>3. QED
  BY <1>1, <1>2 DEF Without, Ended, Carry

\* A part without the opcode of a reading carries any level.
LEMMA WithoutCarries ==
    ASSUME NEW s, NEW ops, NEW op \in ops, NEW t, Without(s, ops)
    PROVE  Carry(s, op, t)
  BY DEF Without, Carry, IsReading

-----------------------------------------------------------------------------
(* The requests, and what the modem says to them.                          *)

LEMMA LevelsAreNat == Levels \subseteq Nat /\ Unread \notin Nat /\ 0 \in Levels
  BY MaskAssumption DEF Unread

LEMMA RangesAre == 1 \in Ranges /\ Listed \in Ranges /\ Ranges \subseteq Nat
  BY MaskAssumption DEF Ranges

LEMMA TheQuery ==
    /\ Query \in Requests /\ Query.op = "EXT_MSG" /\ Query.sub = "QUERY"
    /\ Query.body = <<>> /\ Query.match = FALSE
<1>1. Query \in Requests
  BY DEF Requests
<1>2. QED
  BY <1>1 DEF Query, Request

LEMMA TheGet ==
    ASSUME NEW r \in Ranges
    PROVE  /\ Get(r) \in Requests /\ Get(r).op = "EXT_MSG" /\ Get(r).sub = "GET"
           /\ Get(r).body = <<r>> /\ Get(r).match = FALSE
<1>1. Get(r) \in Requests
  BY DEF Requests
<1>2. QED
  BY <1>1 DEF Get, Request

LEMMA TheSetAll ==
    ASSUME NEW l \in Levels
    PROVE  /\ SetAll(l) \in Requests /\ SetAll(l).op = "EXT_MSG" /\ SetAll(l).sub = "SET_ALL"
           /\ SetAll(l).body = <<l>> /\ SetAll(l).match = FALSE
<1>1. SetAll(l) \in Requests
  BY DEF Requests
<1>2. QED
  BY <1>1 DEF SetAll, Request

LEMMA TheSetRange ==
    ASSUME NEW r \in Ranges, NEW l \in Levels
    PROVE  /\ SetRange(r, l) \in Requests /\ SetRange(r, l).op = "EXT_MSG"
           /\ SetRange(r, l).sub = "SET" /\ SetRange(r, l).body = <<r, l>>
           /\ SetRange(r, l).match = FALSE
<1>1. SetRange(r, l) \in Requests
  BY DEF Requests
<1>2. QED
  BY <1>1 DEF SetRange, Request

LEMMA TheEventGet ==
    /\ EventGet \in Requests /\ EventGet.op = "EVENT_GET" /\ EventGet.sub \in Subs
    /\ EventGet.body = <<>> /\ EventGet.match = FALSE
    /\ EventGet.sub \notin {"SET", "SET_ALL"}
<1>1. EventGet \in Requests
  BY DEF Requests
<1>2. QED
  BY <1>1, Zenon DEF EventGet, Request, Subs

LEMMA TheEventSet ==
    ASSUME NEW l \in Levels
    PROVE  /\ EventSet(l) \in Requests /\ EventSet(l).op = "EVENT_SET" /\ EventSet(l).sub \in Subs
           /\ EventSet(l).body = <<l>> /\ EventSet(l).match = FALSE
<1>1. EventSet(l) \in Requests
  BY DEF Requests
<1>2. QED
  BY <1>1, Zenon DEF EventSet, Request, Subs

LEMMA SubsHas == {"QUERY", "GET", "SET", "SET_ALL"} \cup Kinds \subseteq Subs
  BY Zenon DEF Subs

LEMMA NoneIsNoReply == NoReply.op = "none"
  BY Zenon DEF NoReply, Frame

LEMMA RequestSorts ==
    ASSUME NEW r \in Requests
    PROVE  \/ r = Query \/ r = EventGet
           \/ \E x \in Ranges : r = Get(x)
           \/ \E l \in Levels : r = SetAll(l)
           \/ \E l \in Levels : r = EventSet(l)
           \/ \E x \in Ranges, l \in Levels : r = SetRange(x, l)
  BY DEF Requests

\* What a request is made of, whichever it is.
LEMMA RequestIs ==
    ASSUME NEW r \in Requests
    PROVE  /\ r.op \in Kinds \ {"BAD_CMD"} /\ r.sub \in Subs /\ r.body \in Seq(Nat)
           /\ r.match = FALSE
           /\ r.op = "EXT_MSG" /\ r.sub = "GET" => \E x \in Ranges : r.body = <<x>>
           /\ r.op = "EXT_MSG" /\ r.sub = "SET_ALL" => \E l \in Levels : r.body = <<l>>
           /\ r.op = "EXT_MSG" /\ r.sub = "SET" =>
                 \E x \in Ranges, l \in Levels : r.body = <<x, l>>
           /\ r.op = "EVENT_SET" => \E l \in Levels : r.body = <<l>>
           /\ r.op = "EVENT_GET" => r.sub \notin {"SET", "SET_ALL"}
<1>1. CASE r = Query
  BY <1>1, TheQuery, SubsHas, EmptySeq DEF Kinds
<1>2. CASE r = EventGet
  BY <1>2, TheEventGet, EmptySeq DEF Kinds
<1>0. /\ \A x \in Ranges : <<x>> \in Seq(Nat)
      /\ \A l \in Levels : <<l>> \in Seq(Nat)
      /\ \A x \in Ranges, l \in Levels : <<x, l>> \in Seq(Nat)
  BY RangesAre, LevelsAreNat
<1>3. CASE \E x \in Ranges : r = Get(x)
  BY <1>3, TheGet, <1>0, SubsHas DEF Kinds
<1>4. CASE \E l \in Levels : r = SetAll(l)
  BY <1>4, TheSetAll, <1>0, SubsHas DEF Kinds
<1>5. CASE \E l \in Levels : r = EventSet(l)
  BY <1>5, <1>0, TheEventSet DEF Kinds
<1>6. CASE \E x \in Ranges, l \in Levels : r = SetRange(x, l)
  BY <1>6, TheSetRange, <1>0, SubsHas DEF Kinds
<1>7. QED
  BY <1>1, <1>2, <1>3, <1>4, <1>5, <1>6, RequestSorts

LEMMA ReplyIs ==
    ASSUME NEW r \in Requests, MaskTypeOK
    PROVE  /\ Reply(r) \in Frames /\ Reply(r).op = r.op /\ Reply(r).sub = r.sub
           /\ \A x \in Ranges : r = Get(x) => Reply(r).body = <<x, f3[x]>>
           /\ r.op = "EVENT_GET" => Reply(r).body = <<events>>
<1>1. CASE r.op = "EXT_MSG" /\ r.sub = "GET"
  <2>1. PICK x \in Ranges : r.body = <<x>>
    BY <1>1, RequestIs
  <2>2. f3[x] \in Levels /\ <<x, f3[x]>> \in Seq(Nat) /\ <<x, f3[x]>>[2] = f3[x]
    <3>1. f3[x] \in Levels
      BY DEF MaskTypeOK
    <3>2. x \in Nat /\ f3[x] \in Nat
      BY <3>1, LevelsAreNat, RangesAre
    <3>3. QED
      BY <3>1, <3>2
  <2>3. r.body[1] = x
    BY <2>1
  <2>4. Reply(r) = Frame(r.op, r.sub, <<x, f3[x]>>)
    BY <1>1, <2>3 DEF Reply
  <2>5. Reply(r) \in Frames
    BY <1>1, <2>2, <2>4, SubsHas DEF Frames, Frame, Kinds
  <2>6. ASSUME NEW y \in Ranges, r = Get(y) PROVE y = x
    <3>1. <<x>> = <<y>>
      BY <2>1, <2>6, TheGet
    <3>2. QED
      BY <3>1
  <2>7. QED
    BY <1>1, <2>4, <2>5, <2>6 DEF Frame
<1>2. CASE r.op = "EVENT_GET"
  <2>1. Reply(r) = Frame(r.op, r.sub, <<events>>)
    BY <1>2 DEF Reply
  <2>2. <<events>> \in Seq(Nat) /\ r.sub \in Subs
    <3>1. events \in Nat
      BY LevelsAreNat DEF MaskTypeOK
    <3>2. r.sub \in Subs
      BY RequestIs
    <3>3. QED
      BY <3>1, <3>2
  <2>3. \A x \in Ranges : r # Get(x)
    BY <1>2, TheGet
  <2>4. QED
    BY <1>2, <2>1, <2>2, <2>3 DEF Frames, Frame, Kinds
<1>3. CASE ~(r.op = "EXT_MSG" /\ r.sub = "GET") /\ r.op # "EVENT_GET"
  <2>1. Reply(r) = Frame(r.op, r.sub, r.body)
    BY <1>3 DEF Reply
  <2>2. r.op \in Kinds /\ r.sub \in Subs /\ r.body \in Seq(Nat)
    BY RequestIs
  <2>3. \A x \in Ranges : r # Get(x)
    BY <1>3, TheGet
  <2>4. Reply(r) \in Frames /\ Reply(r).op = r.op /\ Reply(r).sub = r.sub
    BY <1>3, <2>1, <2>2 DEF Frames, Frame
  <2>5. QED
    BY <1>3, <2>3, <2>4
<1>4. QED
  BY <1>1, <1>2, <1>3

LEMMA RejectionIs ==
    ASSUME NEW r \in Requests
    PROVE  Rejection(r) \in Frames /\ Rejection(r).op = "BAD_CMD"
<1>1. r.op \in Subs /\ r.body \in Seq(Nat)
  BY RequestIs, SubsHas
<1>2. QED
  BY <1>1 DEF Rejection, Frames, Frame, Kinds

-----------------------------------------------------------------------------
(* The link as its ends see it.                                            *)

LinkTypes ==
    toModem \in Seq(Requests) /\ toHost \in Seq(Frames) /\ pend \in Seq(Frames)

\* The modem takes the oldest request, and says nothing, or one frame of that
\* request's opcode or a rejection.
LEMMA ModemMoves ==
    ASSUME LinkTypes, toModem # <<>>,
           NEW fs, ModemAnswers(fs),
           fs = <<>> \/ \E f \in Frames : fs = <<f>> /\ f.op \in {Head(toModem).op, "BAD_CMD"}
    PROVE  /\ LinkTypes' /\ UNCHANGED <<pend, dead, pc, req, late, answer>>
           /\ Head(toModem) \in Requests
           /\ \A ops \in SUBSET (Kinds \ {"BAD_CMD"}) :
                 /\ Clear(ops) => Clear(ops)'
                 /\ LastOnly(ops) => LastOnly(ops)'
<1>1. /\ toModem' = Tail(toModem) /\ toHost' = toHost \o fs
      /\ UNCHANGED <<pend, dead, pc, req, late, answer>>
  BY DEF ModemAnswers
<1>2. Head(toModem) \in Requests /\ toModem' \in Seq(Requests)
  BY <1>1, TailSheds DEF LinkTypes
<1>3. toHost' = toHost \/ \E f \in Frames : toHost' = Append(toHost, f)
                                          /\ f.op \in {Head(toModem).op, "BAD_CMD"}
  <2>1. toHost \o <<>> = toHost
    BY ConcatEmptySeq DEF LinkTypes
  <2>2. \A f \in Frames : toHost \o <<f>> = Append(toHost, f)
    BY OneMore DEF LinkTypes
  <2>3. QED
    BY <1>1, <2>1, <2>2
<1>4. toHost \in Seq(Frames) /\ toHost' \in Seq(Frames)
  <2>1. toHost \in Seq(Frames)
    BY DEF LinkTypes
  <2>2. \A f \in Frames : Append(toHost, f) \in Seq(Frames)
    BY <2>1, OneMore
  <2>3. QED
    BY <1>3, <2>1, <2>2
<1>5. ASSUME NEW ops \in SUBSET (Kinds \ {"BAD_CMD"}), Clear(ops)
      PROVE  Clear(ops)'
  <2>1. Head(toModem).op \notin ops /\ Without(toModem', ops)
    BY <1>1, <1>5, WithoutTail DEF LinkTypes, Clear
  <2>2. Without(toHost', ops)
    <3>1. Without(toHost, ops)
      BY <1>5 DEF Clear
    <3>2. \A f \in Frames : f.op \notin ops => Without(Append(toHost, f), ops)
      BY <1>4, <3>1, WithoutAppend
    <3>3. QED
      BY <1>3, <2>1, <3>1, <3>2
  <2>3. QED
    BY <1>1, <1>5, <2>1, <2>2 DEF Clear
<1>6. ASSUME NEW ops \in SUBSET (Kinds \ {"BAD_CMD"}), LastOnly(ops)
      PROVE  LastOnly(ops)'
  <2>1. Unanswered(ops)
    BY <1>6 DEF LastOnly
  <2>2. Ended(toModem, ops)
    BY <2>1 DEF Unanswered, Ended
  <2>3. Ended(toModem', ops) /\ (Head(toModem).op \in ops => toModem' = <<>>)
    BY <1>1, <2>2, EndedTail DEF LinkTypes
  <2>4. CASE Head(toModem).op \in ops
    <3>1. Ended(toHost', ops)
      <4>1. Without(toHost, ops)
        BY <2>1 DEF Unanswered
      <4>2. \A f \in Frames : Ended(Append(toHost, f), ops)
        BY <1>4, <4>1, WithoutAppend
      <4>3. Ended(toHost, ops)
        BY <4>1 DEF Without, Ended
      <4>4. QED
        BY <1>3, <4>2, <4>3
    <3>2. QED
      BY <1>1, <2>1, <2>3, <2>4, <3>1 DEF LastOnly, Unanswered
  <2>5. CASE Head(toModem).op \notin ops
    <3>1. Without(toHost', ops) /\ Without(pend', ops)
      <4>1. Without(toHost, ops) /\ Without(pend, ops)
        BY <2>1 DEF Unanswered
      <4>2. \A f \in Frames : f.op \notin ops => Without(Append(toHost, f), ops)
        BY <1>4, <4>1, WithoutAppend
      <4>3. QED
        BY <1>1, <1>3, <2>5, <4>1, <4>2
    <3>2. \A k \in 1 .. Len(toModem') : toModem'[k] = toModem[k + 1] /\ k + 1 \in 1 .. Len(toModem)
      BY <1>1, TailSheds DEF LinkTypes
    <3>3. \A k \in 1 .. Len(toModem') :
              toModem'[k].op \in ops => k = Len(toModem') /\ toModem'[k] = req
      BY <2>1, <2>3, <3>2 DEF Unanswered, Ended
    <3>4. QED
      BY <1>1, <3>1, <3>3 DEF LastOnly, Unanswered
  <2>6. QED
    BY <2>4, <2>5
<1>7. QED
  BY <1>1, <1>2, <1>4, <1>5, <1>6 DEF LinkTypes

\* The client reads, or gives up.
LEMMA ClientMoves ==
    ASSUME LinkTypes, pc = "wait", req.match = FALSE, Fill \/ GiveUp \/ Dispatch
    PROVE  /\ LinkTypes' /\ UNCHANGED <<toModem, dead, req, late>>
           /\ \/ pc' = "wait" /\ UNCHANGED answer
              \/ pc' = "ready" /\ answer' = NoReply
              \/ pc' = "ready" /\ answer' \in Frames /\ answer'.op \in {req.op, "BAD_CMD"}
           /\ \A ops \in SUBSET Kinds :
                 /\ Clear(ops) => Clear(ops)'
                 /\ LastOnly(ops) => Waited(ops)'
           /\ \A op \in Kinds : \A t : Carries(op, t) => Carries(op, t)'
<1>1. UNCHANGED <<toModem, dead, req, late>>
  BY DEF Fill, GiveUp, Dispatch
<1>2. CASE Fill
  <2>1. /\ pend = <<>> /\ pend' = toHost /\ toHost' = <<>> /\ UNCHANGED <<pc, answer>>
    BY <1>2 DEF Fill
  <2>2. LinkTypes'
    BY <1>1, <2>1, Nothing DEF LinkTypes
  <2>3. \A ops : /\ Clear(ops) => Clear(ops)'
                 /\ LastOnly(ops) => LastOnly(ops)'
    BY <1>1, <2>1, Nothing DEF Clear, LastOnly, Unanswered
  <2>4. \A op, t : Carries(op, t) => Carries(op, t)'
    BY <2>1, Nothing DEF Carries
  <2>5. QED
    BY <1>1, <2>1, <2>2, <2>3, <2>4 DEF Waited
<1>3. CASE GiveUp
  <2>1. pc' = "ready" /\ answer' = NoReply /\ UNCHANGED <<toHost, pend>>
    BY <1>3 DEF GiveUp, Answer
  <2>2. answer'.op = "none" /\ "none" \notin Kinds
    BY <2>1, NoneIsNoReply DEF Kinds
  <2>3. \A ops \in SUBSET Kinds : LastOnly(ops) => Waited(ops)'
    BY <1>1, <2>1, <2>2 DEF Waited, LastOnly, Unanswered
  <2>4. \A ops : Clear(ops) => Clear(ops)'
    BY <1>1, <2>1 DEF Clear
  <2>5. \A op \in Kinds : \A t : Carries(op, t) => Carries(op, t)'
    BY <2>1, <2>2 DEF Carries, IsReading
  <2>6. LinkTypes'
    BY <1>1, <2>1 DEF LinkTypes
  <2>7. QED
    BY <1>1, <2>1, <2>3, <2>4, <2>5, <2>6
<1>4. CASE Dispatch
  <2>1. /\ pend # <<>> /\ pend' = Tail(pend) /\ UNCHANGED toHost
    BY <1>4 DEF Dispatch
  <2>2. pend \in Seq(Frames) /\ Head(pend) \in Frames /\ pend' \in Seq(Frames)
    BY <2>1, TailSheds DEF LinkTypes
  <2>3. \/ UNCHANGED <<pc, answer>>
        \/ /\ pc' = "ready" /\ answer' = Head(pend)
           /\ Head(pend).op \in {req.op, "BAD_CMD"}
    BY <1>4 DEF Dispatch, Matches, Answer
  <2>4. LinkTypes'
    BY <1>1, <2>1, <2>2 DEF LinkTypes
  <2>5. ASSUME NEW ops \in SUBSET Kinds, Clear(ops) PROVE Clear(ops)'
    <3>1. Without(pend', ops)
      BY <2>1, <2>2, <2>5, WithoutTail DEF Clear
    <3>2. QED
      BY <1>1, <2>1, <2>5, <3>1 DEF Clear
  <2>6. ASSUME NEW ops \in SUBSET Kinds, LastOnly(ops) PROVE Waited(ops)'
    <3>1. CASE Without(pend, ops)
      <4>1. Without(pend', ops) /\ Head(pend).op \notin ops
        BY <2>1, <2>2, <3>1, WithoutTail
      <4>2. Ended(pend', ops)
        BY <4>1 DEF Without, Ended
      <4>3. LastOnly(ops)'
        BY <1>1, <2>1, <2>6, <4>1, <4>2 DEF LastOnly, Unanswered
      <4>4. QED
        BY <2>3, <4>1, <4>3 DEF Waited
    <3>2. CASE toModem = <<>> /\ toHost = <<>> /\ Ended(pend, ops)
      <4>1. Ended(pend', ops) /\ (Head(pend).op \in ops => pend' = <<>>)
        BY <2>1, <2>2, <3>2, EndedTail
      <4>2. LastOnly(ops)'
        BY <1>1, <2>1, <3>2, <4>1 DEF LastOnly
      <4>3. QED
        BY <1>1, <2>1, <2>3, <3>2, <4>1, <4>2 DEF Waited, Drained
    <3>3. QED
      BY <2>6, <3>1, <3>2 DEF LastOnly, Unanswered
  <2>7. ASSUME NEW op \in Kinds, NEW t, Carries(op, t) PROVE Carries(op, t)'
    <3>1. Carry(pend', op, t) /\ (IsReading(Head(pend), op) => Head(pend).body = t)
      BY <2>1, <2>2, <2>7, CarryTail DEF Carries
    <3>2. QED
      BY <2>1, <2>3, <2>7, <3>1 DEF Carries
  <2>8. QED
    BY <1>1, <2>2, <2>3, <2>4, <2>5, <2>6, <2>7
<1>5. QED
  BY <1>2, <1>3, <1>4

LEMMA DrainedIsClear ==
    ASSUME Drained
    PROVE  /\ \A ops : Clear(ops)
           /\ NoWrites

<1>1. \A k \in 1 .. 0 : FALSE
  OBVIOUS
<1>2. QED
  BY <1>1, Nothing DEF Drained, Clear, NoWrites

\* The program sends the next request.
LEMMA Sends ==
    ASSUME LinkTypes, NEW r, r \in Requests, SendRecv(r)
    PROVE  /\ LinkTypes' /\ UNCHANGED <<toHost, pend, dead, answer>>
           /\ pc' = "wait" /\ req' = r
           /\ \A ops : Clear(ops) => Waited(ops)' /\ (r.op \notin ops => Clear(ops)')
           /\ \A ops : \A op \in ops : \A t : Clear(ops) => Carries(op, t)'
           /\ \A op, t : Carries(op, t) => Carries(op, t)'
           /\ NoWrites /\ ~F3Writes(r) => NoWrites'
<1>1. /\ toModem' = Append(toModem, r) /\ req' = r /\ pc' = "wait"
      /\ UNCHANGED <<toHost, pend, dead, answer>>
  BY DEF SendRecv
<1>2. toModem \in Seq(Requests) /\ toModem' \in Seq(Requests)
  BY <1>1, OneMore DEF LinkTypes
<1>3. LinkTypes'
  BY <1>1, <1>2 DEF LinkTypes
<1>4. /\ Len(toModem') = Len(toModem) + 1 /\ Len(toModem) \in Nat
      /\ toModem'[Len(toModem) + 1] = r
      /\ \A k \in 1 .. Len(toModem) : toModem'[k] = toModem[k]
  <2>1. Len(toModem') = Len(toModem) + 1 /\ Len(toModem) \in Nat
    BY <1>1, <1>2, OneMore
  <2>2. toModem'[Len(toModem) + 1] = r
    BY <1>1, <1>2, OneMore
  <2>3. \A k \in 1 .. Len(toModem) : toModem'[k] = toModem[k]
    BY <1>1, <1>2, OneMore
  <2>4. QED
    BY <2>1, <2>2, <2>3
<1>5. \A k \in 1 .. Len(toModem') : k \in 1 .. Len(toModem) \/ k = Len(toModem) + 1
  BY <1>4
<1>6. ASSUME NEW ops, Clear(ops)
      PROVE  Waited(ops)' /\ (r.op \notin ops => Clear(ops)')
  <2>1. r.op \notin ops => Without(toModem', ops)
    BY <1>4, <1>5, <1>6 DEF Clear, Without
  <2>2. \A k \in 1 .. Len(toModem') :
            toModem'[k].op \in ops => k = Len(toModem') /\ toModem'[k] = r
    BY <1>4, <1>5, <1>6 DEF Clear, Without
  <2>3. LastOnly(ops)'
    BY <1>1, <1>6, <2>2 DEF LastOnly, Unanswered, Clear
  <2>4. QED
    BY <1>1, <1>6, <2>1, <2>3 DEF Waited, Clear
<1>7. \A ops : \A op \in ops : \A t : Clear(ops) => Carries(op, t)'
  BY <1>1, WithoutCarries DEF Clear, Carries
<1>8. \A op, t : Carries(op, t) => Carries(op, t)'
  BY <1>1 DEF Carries
<1>9. NoWrites /\ ~F3Writes(r) => NoWrites'
  BY <1>4, <1>5 DEF NoWrites
<1>10. QED
  BY <1>1, <1>3, <1>6, <1>7, <1>8, <1>9

-----------------------------------------------------------------------------
(* The steps of the link.                                                  *)

LEMMA InitHolds == MaskInit => MSInv
<1> SUFFICES ASSUME MaskInit PROVE MSInv
  OBVIOUS
<1>1. /\ toModem = <<>> /\ toHost = <<>> /\ pend = <<>>
      /\ dead = FALSE /\ pc = "ready" /\ req = NoRequest
      /\ at = "start" /\ i = 1
  BY DEF MaskInit, LinkInit
<1>2. req.match = FALSE
  BY <1>1, Zenon DEF NoRequest, Request
<1>3. /\ saved = [r \in Ranges |-> Unread]
      /\ zeroed = FALSE /\ evSaved = Unread /\ evZeroed = FALSE
      /\ f3 \in [Ranges \cup {Hidden} -> Levels] /\ events \in Levels
      /\ before = [f3 |-> f3, events |-> events]
  BY DEF MaskInit
<1>4. MaskTypeOK
  BY <1>1, <1>3, RangesAre DEF MaskTypeOK
<1>5. LinkInv
  BY <1>1, <1>2, <1>3, Nothing DEF LinkInv, Resting
<1>6. ListedBefore /\ EventsBefore
  BY <1>3 DEF ListedBefore, EventsBefore
<1>7. Drained /\ NoWrites /\ \A ops : Clear(ops)
  BY <1>1, DrainedIsClear DEF Drained
<1>8. F3Inv
  BY <1>1, <1>3, <1>6, <1>7 DEF F3Inv, Reading
<1>9. EventInv
  BY <1>1, <1>3, <1>6, <1>7 DEF EventInv, Reading
<1>10. QED
  BY <1>4, <1>5, <1>8, <1>9 DEF MSInv

\* Neither the program nor the masks move, and what was said of the link can be
\* said again.
LEMMA LinkKeeps ==
    ASSUME MSInv, UNCHANGED <<program, modem>>, LinkInv',
           NoWrites => NoWrites',
           Resting /\ Drained => Drained',
           \A ops \in {F3Ops, SetOps, EvOps} :
               (Clear(ops) => Clear(ops)') /\ (Waited(ops) => Waited(ops)'),
           Watched => Watched',
           Carries("EVENT_GET", <<events>>) => Carries("EVENT_GET", <<events>>)'
    PROVE  MSInv'
<1>1. /\ UNCHANGED <<at, i, listing, saved, zeroed, evSaved, evZeroed, same, f3Ok, evOk>>
      /\ UNCHANGED <<f3, events, before>>
  BY DEF program, seen, flags, verdict, modem
<1>2. MaskTypeOK'
  BY <1>1 DEF MSInv, MaskTypeOK, Complete
<1>3. /\ ListedBefore' = ListedBefore /\ EventsBefore' = EventsBefore
      /\ Faithful' = Faithful /\ GoodSoFar' = GoodSoFar /\ Spoiled' = Spoiled
      /\ Complete' = Complete /\ Reading' = Reading
  BY <1>1 DEF ListedBefore, EventsBefore, Faithful, GoodSoFar, Spoiled, Complete, Reading
<1>4. F3Inv'
  BY <1>1, <1>3 DEF MSInv, F3Inv, Resting
<1>5. EventInv'
  BY <1>1, <1>3 DEF MSInv, EventInv
<1>6. QED
  BY <1>2, <1>4, <1>5 DEF MSInv

LEMMA ClientKeeps ==
    ASSUME MSInv, Receives
    PROVE  MSInv'
<1>0. (Fill \/ GiveUp \/ Dispatch) /\ UNCHANGED <<program, modem>>
  BY DEF Receives
<1>1. pc = "wait" /\ ~Resting
  BY <1>0 DEF Fill, GiveUp, Dispatch, MSInv, LinkInv
<1>2. LinkTypes /\ req.match = FALSE
  BY DEF MSInv, LinkInv, LinkTypes
<1>3. /\ LinkTypes' /\ UNCHANGED <<toModem, dead, req>>
      /\ \/ pc' = "wait" /\ UNCHANGED answer
         \/ pc' = "ready" /\ answer' = NoReply
         \/ pc' = "ready" /\ answer' \in Frames /\ answer'.op \in {req.op, "BAD_CMD"}
  BY <1>0, <1>1, <1>2, ClientMoves
<1>4. /\ \A ops \in SUBSET Kinds : /\ Clear(ops) => Clear(ops)'
                                   /\ LastOnly(ops) => Waited(ops)'
      /\ \A op \in Kinds : \A t : Carries(op, t) => Carries(op, t)'
  BY <1>0, <1>1, <1>2, ClientMoves
<1>5. {F3Ops, SetOps, EvOps} \subseteq SUBSET Kinds /\ {"EXT_MSG", "EVENT_GET"} \subseteq Kinds
  BY DEF F3Ops, SetOps, EvOps, Kinds
<1>6. UNCHANGED <<at, i, f3, events, before>>
  BY <1>0 DEF program, modem
<1>7. LinkInv'
  BY <1>1, <1>3, <1>6 DEF MSInv, LinkInv, LinkTypes, Resting, AskedOp
<1>8. \A ops \in {F3Ops, SetOps, EvOps} :
          (Clear(ops) => Clear(ops)') /\ (Waited(ops) => Waited(ops)')
  BY <1>4, <1>5 DEF Waited
<1>9. Watched => Watched'
  BY <1>3, <1>4, <1>5, <1>6, <1>8 DEF Watched, Get
<1>10. Carries("EVENT_GET", <<events>>) => Carries("EVENT_GET", <<events>>)'
  BY <1>4, <1>5, <1>6
<1>11. NoWrites => NoWrites'
  BY <1>3 DEF NoWrites
<1>12. QED
  BY <1>0, <1>1, <1>7, <1>8, <1>9, <1>10, <1>11, LinkKeeps

LEMMA ModemCarries ==
    ASSUME LinkTypes, NEW f \in Frames, ModemAnswers(<<f>>), NEW op, NEW t,
           IsReading(f, op) => f.body = t, Carries(op, t)
    PROVE  Carries(op, t)'
<1>1. toHost' = toHost \o <<f>> /\ UNCHANGED <<pend, pc, answer>>
  BY DEF ModemAnswers
<1>2. toHost' = Append(toHost, f)
  BY <1>1, OneMore DEF LinkTypes
<1>3. Carry(toHost', op, t)
  BY <1>2, CarryAppend DEF LinkTypes, Carries
<1>4. QED
  BY <1>1, <1>3 DEF Carries

LEMMA TakenWrites ==
    ASSUME LinkTypes, toModem # <<>>, NEW fs, ModemAnswers(fs), NoWrites
    PROVE  NoWrites' /\ ~F3Writes(Head(toModem))
<1>1. toModem' = Tail(toModem)
  BY DEF ModemAnswers
<1>2. 1 \in 1 .. Len(toModem) /\ Head(toModem) = toModem[1]
  BY TailSheds DEF LinkTypes
<1>3. \A k \in 1 .. Len(toModem') : toModem'[k] = toModem[k + 1] /\ k + 1 \in 1 .. Len(toModem)
  BY <1>1, TailSheds DEF LinkTypes
<1>4. QED
  BY <1>2, <1>3 DEF NoWrites

LEMMA LateKeeps ==
    ASSUME MSInv, LateAnswer \/ LinkEnds
    PROVE  MSInv'
<1>1. /\ UNCHANGED <<toModem, toHost, pend, pc, req, answer>>
      /\ UNCHANGED <<program, modem>>
  BY DEF LateAnswer, TimeoutPasses, LinkEnds, Hangup
<1>2. UNCHANGED <<at, i, f3, events, before>>
  BY <1>1 DEF program, modem
<1>3. LinkInv'
  BY <1>1, <1>2 DEF MSInv, LinkInv, Resting, AskedOp
<1>4. \A ops : /\ Clear(ops)' = Clear(ops) /\ LastOnly(ops)' = LastOnly(ops)
               /\ Waited(ops)' = Waited(ops)
  BY <1>1 DEF Clear, LastOnly, Waited, Unanswered, Drained
<1>5. \A op, t : Carries(op, t)' = Carries(op, t)
  BY <1>1 DEF Carries
<1>6. Drained' = Drained /\ NoWrites' = NoWrites
  BY <1>1 DEF Drained, NoWrites
<1>7. Watched => Watched'
  BY <1>1, <1>2, <1>4, <1>5 DEF Watched, Get
<1>8. Carries("EVENT_GET", <<events>>) => Carries("EVENT_GET", <<events>>)'
  BY <1>2, <1>5
<1>9. QED
  BY <1>1, <1>3, <1>4, <1>6, <1>7, <1>8, LinkKeeps

LEMMA RefusesKeeps ==
    ASSUME MSInv, ModemRefuses
    PROVE  MSInv'
<1> DEFINE r == Head(toModem)
<1>1. LinkTypes /\ MaskTypeOK /\ toModem # <<>> /\ UNCHANGED <<program, modem>>
  BY DEF MSInv, LinkInv, LinkTypes, ModemRefuses
<1>2. r \in Requests
  BY <1>1, TailSheds DEF LinkTypes
<1>3. Rejection(r) \in Frames /\ Rejection(r).op = "BAD_CMD"
      /\ Reply(r) \in Frames /\ Reply(r).op = r.op /\ Reply(r).sub = r.sub
  BY <1>1, <1>2, RejectionIs, ReplyIs
<1>4. PICK fs : /\ ModemAnswers(fs)
                /\ \/ fs = <<>>
                   \/ fs = <<Rejection(r)>>
                   \/ fs = <<Reply(r)>> /\ Writes(r)
  BY DEF ModemRefuses
<1>5. fs = <<>> \/ \E f \in Frames : fs = <<f>> /\ f.op \in {r.op, "BAD_CMD"}
  BY <1>3, <1>4
<1> HIDE DEF r
<1>6. /\ LinkTypes' /\ UNCHANGED <<pend, dead, pc, req, answer>>
      /\ \A ops \in SUBSET (Kinds \ {"BAD_CMD"}) :
            /\ Clear(ops) => Clear(ops)'
            /\ LastOnly(ops) => LastOnly(ops)'
  BY <1>1, <1>4, <1>5, ModemMoves DEF r
<1>7. {F3Ops, SetOps, EvOps} \subseteq SUBSET (Kinds \ {"BAD_CMD"})
  BY DEF F3Ops, SetOps, EvOps, Kinds
<1>8. UNCHANGED <<at, i, f3, events, before>>
  BY <1>1 DEF program, modem
<1>9. LinkInv'
  BY <1>6, <1>8 DEF MSInv, LinkInv, LinkTypes, Resting, AskedOp
<1>10. ~Drained
  BY <1>1 DEF Drained
<1>11. \A ops \in {F3Ops, SetOps, EvOps} :
          (Clear(ops) => Clear(ops)') /\ (Waited(ops) => Waited(ops)')
  BY <1>6, <1>7, <1>10 DEF Waited
\* The one frame that is neither an empty answer nor a rejection is no reading.
<1>12. \A op \in {"EXT_MSG", "EVENT_GET"} : \A t : Carries(op, t) => Carries(op, t)'
  <2> SUFFICES ASSUME NEW op \in {"EXT_MSG", "EVENT_GET"}, NEW t, Carries(op, t)
               PROVE  Carries(op, t)'
    OBVIOUS
  <2>1. CASE fs = <<>>
    <3>1. toHost' = toHost
      BY <1>1, <1>4, <2>1, ConcatEmptySeq DEF ModemAnswers, LinkTypes
    <3>2. QED
      BY <1>6, <3>1 DEF Carries
  <2>2. CASE fs = <<Rejection(r)>>
    BY <1>1, <1>3, <1>4, <2>2, ModemCarries DEF IsReading
  <2>3. CASE fs = <<Reply(r)>> /\ Writes(r)
    <3>1. r.op = "EVENT_GET" => r.sub \notin {"SET", "SET_ALL"}
      BY <1>2, RequestIs
    <3>2. ~IsReading(Reply(r), op)
      BY <1>3, <2>3, <3>1 DEF IsReading, Writes
    <3>3. QED
      BY <1>1, <1>3, <1>4, <2>3, <3>2, ModemCarries
  <2>4. QED
    BY <1>4, <2>1, <2>2, <2>3
<1>13. Watched => Watched'
  BY <1>6, <1>8, <1>11, <1>12 DEF Watched, Get
<1>14. Carries("EVENT_GET", <<events>>) => Carries("EVENT_GET", <<events>>)'
  BY <1>8, <1>12
<1>15. NoWrites => NoWrites'
  BY <1>1, <1>4, TakenWrites
<1>16. QED
  BY <1>1, <1>9, <1>10, <1>11, <1>13, <1>14, <1>15, LinkKeeps

\* The modem does the oldest request and answers it.  A write it can only do
\* where the invariant says nothing of the mask that would no longer hold.
LEMMA ObeysKeeps ==
    ASSUME MSInv, ModemObeys
    PROVE  MSInv'
<1> DEFINE r == Head(toModem)
<1>1. /\ LinkTypes /\ MaskTypeOK /\ toModem # <<>> /\ UNCHANGED program
      /\ ModemAnswers(<<Reply(r)>>) /\ Apply(r)
  BY DEF MSInv, LinkInv, LinkTypes, ModemObeys
<1>2. r \in Requests /\ r = toModem[1] /\ 1 \in 1 .. Len(toModem)
  BY <1>1, TailSheds DEF LinkTypes
<1>3. Reply(r) \in Frames /\ Reply(r).op = r.op /\ Reply(r).sub = r.sub
  BY <1>1, <1>2, ReplyIs
<1> HIDE DEF r
<1>4. /\ LinkTypes' /\ UNCHANGED <<pend, dead, pc, req, answer>>
      /\ \A ops \in SUBSET (Kinds \ {"BAD_CMD"}) :
            /\ Clear(ops) => Clear(ops)'
            /\ LastOnly(ops) => LastOnly(ops)'
  BY <1>1, <1>3, ModemMoves DEF r
<1>5. {F3Ops, SetOps, EvOps} \subseteq SUBSET (Kinds \ {"BAD_CMD"})
  BY DEF F3Ops, SetOps, EvOps, Kinds
<1>6. UNCHANGED <<at, i, listing, saved, zeroed, evSaved, evZeroed, same, f3Ok, evOk, before>>
  BY <1>1 DEF program, seen, flags, verdict, Apply
<1>7. LinkInv'
  BY <1>4, <1>6 DEF MSInv, LinkInv, LinkTypes, Resting, AskedOp
<1>8. ~Drained
  BY <1>1 DEF Drained
<1>9. \A ops \in {F3Ops, SetOps, EvOps} :
          (Clear(ops) => Clear(ops)') /\ (Waited(ops) => Waited(ops)')
  BY <1>4, <1>5, <1>8 DEF Waited
<1>10. NoWrites => NoWrites' /\ ~F3Writes(r)
  BY <1>1, TakenWrites DEF r
<1>11. \A ops : Clear(ops) => r.op \notin ops
  BY <1>2 DEF Clear, Without
<1>12. \A ops : LastOnly(ops) /\ r.op \in ops => r = req
  BY <1>1, <1>2 DEF LastOnly, Unanswered
<1>13. \A op, t : (IsReading(Reply(r), op) => Reply(r).body = t) /\ Carries(op, t)
                      => Carries(op, t)'
  BY <1>1, <1>3, ModemCarries
<1>14. /\ Faithful' = Faithful /\ GoodSoFar' = GoodSoFar /\ Spoiled' = Spoiled
       /\ Complete' = Complete /\ Reading' = Reading
  BY <1>6 DEF Faithful, GoodSoFar, Spoiled, Complete, Reading
<1>15. i \in Ranges /\ before' = before
  BY <1>1, <1>6 DEF MaskTypeOK
<1>16. CASE F3Writes(r)
  <2>1. f3' \in [Ranges \cup {Hidden} -> Levels] /\ UNCHANGED events
    <3>1. f3 \in [Ranges \cup {Hidden} -> Levels] /\ Stored \in [Levels -> Levels]
      BY <1>1, MaskAssumption DEF MaskTypeOK
    <3>2. UNCHANGED events /\ r.op = "EXT_MSG" /\ r.sub \in {"SET", "SET_ALL"}
      BY <1>1, <1>16 DEF Apply, F3Writes
    <3>3. CASE r.sub = "SET_ALL"
      <4>1. PICK l \in Levels : r.body = <<l>>
        BY <1>2, <3>2, <3>3, RequestIs
      <4>2. f3' = [x \in DOMAIN f3 |-> Stored[l]]
        BY <1>1, <3>2, <3>3, <4>1 DEF Apply
      <4>3. QED
        BY <3>1, <3>2, <4>2
    <3>4. CASE r.sub = "SET"
      <4>1. PICK x \in Ranges, l \in Levels : r.body = <<x, l>>
        BY <1>2, <3>2, <3>4, RequestIs
      <4>2. f3' = [f3 EXCEPT ![x] = l]
        BY <1>1, <3>2, <3>4, <4>1 DEF Apply
      <4>3. QED
        BY <3>1, <3>2, <4>2
    <3>5. QED
      BY <3>2, <3>3, <3>4
  <2>2. MaskTypeOK'
    BY <1>1, <1>6, <1>14, <2>1 DEF MaskTypeOK
  <2>3. r.op \in F3Ops /\ ~NoWrites /\ ~Clear(F3Ops) /\ ~Watched
    <3>1. r.op \in F3Ops
      BY <1>16 DEF F3Writes, F3Ops
    <3>2. ~F3Writes(Get(i))
      BY <1>15, TheGet DEF F3Writes
    <3>3. QED
      BY <1>10, <1>11, <1>12, <1>16, <3>1, <3>2 DEF Watched, Waited
  <2>4. Faithful /\ ~Reading
    BY <2>3 DEF MSInv, F3Inv
  <2>5. F3Inv'
    BY <1>6, <1>8, <1>9, <1>14, <2>3, <2>4 DEF MSInv, F3Inv, Reading
  <2>6. Carries("EVENT_GET", <<events>>) => Carries("EVENT_GET", <<events>>)'
    BY <1>3, <1>13, <1>16, <2>1 DEF IsReading, F3Writes
  <2>7. EventsBefore' = EventsBefore
    BY <1>15, <2>1 DEF EventsBefore
  <2>8. EventInv'
    BY <1>6, <1>9, <1>14, <2>6, <2>7 DEF MSInv, EventInv
  <2>9. QED
    BY <1>7, <2>2, <2>5, <2>8 DEF MSInv
<1>17. CASE r.op = "EVENT_SET"
  <2>1. events' \in Levels /\ UNCHANGED f3
    <3>1. PICK l \in Levels : r.body = <<l>>
      BY <1>2, <1>17, RequestIs
    <3>2. events' = l /\ UNCHANGED f3
      BY <1>1, <1>17, <3>1 DEF Apply
    <3>3. QED
      BY <3>2
  <2>2. MaskTypeOK'
    BY <1>1, <1>6, <1>14, <2>1 DEF MaskTypeOK
  <2>3. ~Clear(SetOps) /\ ~Clear(EvOps)
    BY <1>11, <1>17 DEF SetOps, EvOps
  <2>4. Carries("EXT_MSG", <<i, f3[i]>>) => Carries("EXT_MSG", <<i, f3[i]>>)'
    BY <1>3, <1>6, <1>13, <1>17, <2>1 DEF IsReading
  <2>5. Watched => Watched'
    BY <1>4, <1>6, <1>9, <2>4 DEF Watched, Get
  <2>6. ListedBefore' = ListedBefore
    BY <1>15, <2>1 DEF ListedBefore
  <2>7. F3Inv'
    BY <1>6, <1>8, <1>9, <1>10, <1>14, <2>1, <2>5, <2>6 DEF MSInv, F3Inv
  <2>8. EventInv'
    BY <1>6, <1>9, <1>14, <2>3 DEF MSInv, EventInv
  <2>9. QED
    BY <1>7, <2>2, <2>7, <2>8 DEF MSInv
<1>18. CASE ~F3Writes(r) /\ r.op # "EVENT_SET"
  <2>1. UNCHANGED <<f3, events>>
    BY <1>1, <1>18 DEF Apply, F3Writes
  <2>2. ASSUME Watched PROVE Watched'
    <3>1. r.op = "EXT_MSG" => r = Get(i)
      BY <1>12, <2>2 DEF Watched, Waited, F3Ops
    <3>2. IsReading(Reply(r), "EXT_MSG") => Reply(r).body = <<i, f3[i]>>
      BY <1>1, <1>2, <1>3, <1>15, <3>1, ReplyIs DEF IsReading
    <3>3. Carries("EXT_MSG", <<i, f3[i]>>)'
      BY <1>6, <1>13, <2>1, <2>2, <3>2 DEF Watched
    <3>4. QED
      BY <1>4, <1>6, <1>9, <2>2, <3>3 DEF Watched, Get
  <2>3. Carries("EVENT_GET", <<events>>) => Carries("EVENT_GET", <<events>>)'
    <3>1. IsReading(Reply(r), "EVENT_GET") => Reply(r).body = <<events>>
      BY <1>1, <1>2, <1>3, ReplyIs DEF IsReading
    <3>2. QED
      BY <1>13, <2>1, <3>1
  <2>4. UNCHANGED <<program, modem>>
    BY <1>1, <1>15, <2>1 DEF modem
  <2>5. QED
    BY <1>7, <1>8, <1>9, <1>10, <2>2, <2>3, <2>4, LinkKeeps
<1>19. QED
  BY <1>16, <1>17, <1>18

-----------------------------------------------------------------------------
(* The steps of the program.                                               *)

LEMMA SameMasks ==
    ASSUME UNCHANGED modem
    PROVE  /\ UNCHANGED <<f3, events, before>>
           /\ ListedBefore' = ListedBefore /\ EventsBefore' = EventsBefore
           /\ UNCHANGED saved => Faithful' = Faithful
           /\ UNCHANGED <<saved, listing>> => Complete' = Complete
  BY DEF modem, ListedBefore, EventsBefore, Faithful, Complete

\* With a request ...
LEMMA Asking ==
    ASSUME MSInv, NEW r, r \in Requests, SendRecv(r), UNCHANGED modem, AskedOp' = r.op
    PROVE  /\ LinkInv' /\ req' = r /\ pc' = "wait"
           /\ \A ops : Clear(ops) => Waited(ops)' /\ (r.op \notin ops => Clear(ops)')
           /\ \A ops : \A op \in ops : \A t : Clear(ops) => Carries(op, t)'
           /\ \A op, t : Carries(op, t) => Carries(op, t)'
           /\ NoWrites /\ ~F3Writes(r) => NoWrites'
<1>1. LinkTypes
  BY DEF MSInv, LinkInv, LinkTypes
<1>2. /\ LinkTypes' /\ req' = r /\ pc' = "wait"
      /\ \A ops : Clear(ops) => Waited(ops)' /\ (r.op \notin ops => Clear(ops)')
      /\ \A ops : \A op \in ops : \A t : Clear(ops) => Carries(op, t)'
      /\ \A op, t : Carries(op, t) => Carries(op, t)'
      /\ NoWrites /\ ~F3Writes(r) => NoWrites'
  BY <1>1, Sends
<1>3. r.op # "none" /\ r.match = FALSE
  BY RequestIs DEF Kinds
<1>4. ~Resting'
  BY <1>3 DEF AskedOp, Resting
<1>5. LinkInv'
  BY <1>1, <1>2, <1>3, <1>4, SameMasks DEF LinkInv, LinkTypes, MSInv
<1>6. QED
  BY <1>2, <1>5

\* ... or without.
LEMMA Going ==
    ASSUME MSInv, pc = "ready", UNCHANGED <<link, modem>>, Resting'
    PROVE  /\ LinkInv'
           /\ \A ops : Clear(ops)' = Clear(ops) /\ Waited(ops)' = Waited(ops)
           /\ \A op, t : Carries(op, t)' = Carries(op, t)
           /\ NoWrites' = NoWrites /\ Drained' = Drained
<1>1. UNCHANGED <<toModem, toHost, pend, dead, pc, req, answer, before>>
  BY DEF link, modem
<1>2. LinkInv'
  BY <1>1 DEF MSInv, LinkInv
<1>3. QED
  BY <1>1, <1>2 DEF Clear, Waited, LastOnly, Unanswered, Carries, NoWrites, Drained

\* What there is to be read off the answer.
LEMMA AnswerIs ==
    ASSUME MSInv, pc = "ready", ~Resting
    PROVE  /\ Refused \/ answer.op = AskedOp
           /\ answer # NoReply => answer \in Frames
           /\ LevelRead \in Levels \cup {Unread}
           /\ LevelRead # Unread => /\ answer.op = "EXT_MSG" /\ answer.sub = "GET"
                                    /\ LevelRead = answer.body[2]
           /\ EventsRead # Unread => answer.op = "EVENT_GET" /\ EventsRead = answer.body[1]
<1>1. \/ answer = NoReply /\ answer.op = "none"
      \/ answer \in Frames /\ answer.op \in {AskedOp, "BAD_CMD"}
  BY NoneIsNoReply DEF MSInv, LinkInv
<1>2. Refused \/ answer.op = AskedOp
  BY <1>1 DEF Refused
<1>3. LevelRead \in Levels \cup {Unread}
  BY <1>1 DEF LevelRead, Frames
<1>4. QED
  BY <1>1, <1>2, <1>3 DEF LevelRead, EventsRead

LEMMA StartKeeps ==
    ASSUME MSInv, Start
    PROVE  MSInv'
<1>1. /\ at = "start" /\ at' = "query" /\ SendRecv(Query) /\ UNCHANGED modem
      /\ UNCHANGED <<i, listing, saved, zeroed, evSaved, evZeroed, same, f3Ok, evOk>>
  BY DEF Start, Ask, seen, flags, verdict
<1>2. Query \in Requests /\ AskedOp' = Query.op /\ Query.op = "EXT_MSG" /\ ~F3Writes(Query)
  BY <1>1, TheQuery DEF AskedOp, F3Writes
<1>3. /\ LinkInv'
      /\ \A ops : Clear(ops) => Waited(ops)' /\ (Query.op \notin ops => Clear(ops)')
      /\ NoWrites => NoWrites'
  BY <1>1, <1>2, Asking
<1>4. /\ ListedBefore /\ NoWrites /\ ~zeroed /\ Drained /\ i = 1
      /\ EventsBefore /\ Clear(EvOps) /\ ~evZeroed
  BY <1>1 DEF MSInv, F3Inv, EventInv, Reading
<1>5. Clear(F3Ops) /\ Clear(SetOps)
  BY <1>4, DrainedIsClear
<1>6. Waited(F3Ops)' /\ Clear(EvOps)' /\ Clear(SetOps)'
  BY <1>2, <1>3, <1>4, <1>5 DEF EvOps, SetOps
<1>7. MaskTypeOK'
  BY <1>1, SameMasks DEF MSInv, MaskTypeOK
<1>8. F3Inv'
  BY <1>1, <1>3, <1>4, <1>6, SameMasks DEF F3Inv, Reading
<1>9. EventInv'
  BY <1>1, <1>4, <1>6, SameMasks DEF EventInv, Reading
<1>10. QED
  BY <1>3, <1>7, <1>8, <1>9 DEF MSInv

LEMMA AfterQueryKeeps ==
    ASSUME MSInv, AfterQuery
    PROVE  MSInv'
<1> DEFINE r == Get(1)
<1>1. /\ at = "query" /\ pc = "ready" /\ at' = "get" /\ SendRecv(r) /\ UNCHANGED modem
      /\ listing' = (answer.op = "EXT_MSG")
      /\ UNCHANGED <<i, saved, zeroed, evSaved, evZeroed, same, f3Ok, evOk>>
  BY DEF AfterQuery, Returned, Ask, flags, verdict
<1>2. r \in Requests /\ AskedOp' = r.op /\ r.op = "EXT_MSG" /\ ~F3Writes(r)
  BY <1>1, TheGet, RangesAre DEF AskedOp, F3Writes
<1> HIDE DEF r
<1>3. /\ LinkInv' /\ req' = r
      /\ \A ops : Clear(ops) => Waited(ops)' /\ (r.op \notin ops => Clear(ops)')
      /\ \A ops : \A op \in ops : \A t : Clear(ops) => Carries(op, t)'
      /\ NoWrites => NoWrites'
  BY <1>1, <1>2, Asking
<1>4. /\ ListedBefore /\ NoWrites /\ ~zeroed /\ Waited(F3Ops) /\ i = 1
      /\ EventsBefore /\ Clear(EvOps) /\ ~evZeroed
      /\ evSaved = before.events \/ Clear(SetOps)
  BY <1>1 DEF MSInv, F3Inv, EventInv, Reading
<1>5. Clear(EvOps)' /\ (Clear(SetOps) => Clear(SetOps)')
  BY <1>2, <1>3, <1>4 DEF EvOps, SetOps
<1>6. listing' => GoodSoFar' /\ Watched'
  <2> SUFFICES ASSUME listing' PROVE GoodSoFar' /\ Watched'
    OBVIOUS
  <2>1. Clear(F3Ops)
    BY <1>1, <1>4, DrainedIsClear DEF Waited, F3Ops
  <2>2. Waited(F3Ops)' /\ \A t : Carries("EXT_MSG", t)'
    BY <1>3, <2>1 DEF F3Ops
  <2>3. \A x \in 1 .. 1 - 1 : FALSE
    OBVIOUS
  <2>4. QED
    BY <1>1, <1>3, <1>4, <2>2, <2>3 DEF GoodSoFar, Watched, r, Get
<1>7. MaskTypeOK'
  BY <1>1, <1>4, SameMasks DEF MSInv, MaskTypeOK
<1>8. F3Inv'
  BY <1>1, <1>3, <1>4, <1>6, SameMasks DEF F3Inv, Reading, Spoiled
<1>9. EventInv'
  BY <1>1, <1>4, <1>5, SameMasks DEF EventInv, Reading
<1>10. QED
  BY <1>3, <1>7, <1>8, <1>9 DEF MSInv

\* The level of range i has come, or has not.
LEMMA AfterGetKeeps ==
    ASSUME MSInv, AfterGet
    PROVE  MSInv'
<1> DEFINE r == Get(i + 1)
<1>1. /\ at = "get" /\ pc = "ready" /\ ~Resting /\ UNCHANGED modem
      /\ saved' = [saved EXCEPT ![i] = LevelRead]
      /\ UNCHANGED <<listing, zeroed, evSaved, evZeroed, same, f3Ok, evOk>>
  BY DEF AfterGet, Returned, Ask, Goto, flags, verdict, Resting
<1>2. /\ i \in Ranges /\ saved \in [Ranges -> Levels \cup {Unread}]
      /\ LevelRead \in Levels \cup {Unread} /\ i \in Nat /\ Listed \in Nat \ {0}
      /\ Ranges = 1 .. Listed
  BY <1>1, AnswerIs, RangesAre, MaskAssumption DEF MSInv, MaskTypeOK, Ranges
<1>3. /\ saved' \in [Ranges -> Levels \cup {Unread}] /\ saved'[i] = LevelRead
      /\ \A x \in Ranges : x # i => saved'[x] = saved[x]
  BY <1>1, <1>2
<1>4. /\ ListedBefore /\ NoWrites /\ ~zeroed /\ (Spoiled \/ (GoodSoFar /\ Watched))
      /\ EventsBefore /\ Clear(EvOps) /\ ~evZeroed
      /\ evSaved = before.events \/ Clear(SetOps)
  BY <1>1 DEF MSInv, F3Inv, EventInv, Reading
<1>5. LevelRead # Unread /\ Watched => Drained /\ LevelRead = before.f3[i]
  <2> SUFFICES ASSUME LevelRead # Unread, Watched
               PROVE  Drained /\ LevelRead = before.f3[i]
    OBVIOUS
  <2>1. answer.op = "EXT_MSG" /\ answer.sub = "GET" /\ LevelRead = answer.body[2]
    BY <1>1, AnswerIs
  <2>2. Drained /\ answer.body = <<i, f3[i]>>
    BY <1>1, <2>1 DEF Watched, Waited, Carries, IsReading, F3Ops
  <2>3. QED
    BY <1>2, <1>4, <2>1, <2>2 DEF ListedBefore
\* What range i adds to what is known of the snapshot.
<1>6. \A x \in 1 .. i - 1 : x \in Ranges /\ x # i
  BY <1>2
<1>7. \A x \in 1 .. i : x \in 1 .. i - 1 \/ x = i
  BY <1>2
<1>8. Spoiled => ~listing \/ \E x \in 1 .. i - 1 : saved'[x] = Unread
  BY <1>3, <1>6 DEF Spoiled
<1>9. CASE i < LastRead
  <2>1. /\ i' = i + 1 /\ at' = "get" /\ SendRecv(r)
    BY <1>1, <1>9 DEF AfterGet, Ask
  <2>2. listing /\ i + 1 \in Ranges /\ i' - 1 = i /\ 1 .. i - 1 \subseteq 1 .. i /\ i \in 1 .. i
    BY <1>2, <1>9, <2>1 DEF LastRead
  <2>3. r \in Requests /\ AskedOp' = r.op /\ r.op = "EXT_MSG" /\ ~F3Writes(r)
    BY <2>1, <2>2, TheGet DEF AskedOp, F3Writes
  <2> HIDE DEF r
  <2>4. /\ LinkInv' /\ req' = r
        /\ \A ops : Clear(ops) => Waited(ops)' /\ (r.op \notin ops => Clear(ops)')
        /\ \A ops : \A op \in ops : \A t : Clear(ops) => Carries(op, t)'
        /\ NoWrites => NoWrites'
    BY <1>1, <2>1, <2>3, Asking
  <2>5. Clear(EvOps)' /\ (Clear(SetOps) => Clear(SetOps)')
    BY <1>4, <2>3, <2>4 DEF EvOps, SetOps
  <2>6. Spoiled' \/ (GoodSoFar' /\ Watched')
    <3>1. CASE Spoiled
      BY <1>1, <1>8, <2>2, <3>1 DEF Spoiled
    <3>2. CASE LevelRead = Unread
      BY <1>3, <2>2, <3>2 DEF Spoiled
    <3>3. CASE GoodSoFar /\ Watched /\ LevelRead # Unread
      <4>1. Drained /\ saved'[i] = before.f3[i]
        BY <1>3, <1>5, <3>3
      <4>2. \A x \in 1 .. i - 1 : saved'[x] = before.f3[x]
        BY <1>3, <1>6, <3>3 DEF GoodSoFar
      <4>3. GoodSoFar'
        BY <1>1, <1>7, <2>2, <4>1, <4>2, SameMasks DEF GoodSoFar
      <4>4. Clear(F3Ops)
        BY <4>1, DrainedIsClear
      <4>5. Waited(F3Ops)' /\ \A t : Carries("EXT_MSG", t)'
        BY <2>4, <4>4 DEF F3Ops
      <4>6. QED
        BY <2>1, <2>4, <4>3, <4>5 DEF Watched, r, Get
    <3>4. QED
      BY <1>4, <3>1, <3>2, <3>3
  <2>7. MaskTypeOK'
    BY <1>1, <1>3, <1>4, <2>1, <2>2, SameMasks DEF MSInv, MaskTypeOK
  <2>8. F3Inv'
    BY <1>1, <1>4, <2>1, <2>4, <2>6, SameMasks DEF F3Inv, Reading
  <2>9. EventInv'
    BY <1>1, <1>4, <2>1, <2>5, SameMasks DEF EventInv, Reading
  <2>10. QED
    BY <2>4, <2>7, <2>8, <2>9 DEF MSInv
<1>10. CASE ~(i < LastRead)
  <2>1. i' = 1 /\ at' = "saved" /\ UNCHANGED link
    BY <1>1, <1>10 DEF AfterGet, Goto
  <2>2. /\ LinkInv'
        /\ \A ops : Clear(ops)' = Clear(ops) /\ Waited(ops)' = Waited(ops)
        /\ NoWrites' = NoWrites /\ Drained' = Drained
    BY <1>1, <2>1, Going DEF Resting
  <2>3. ~Complete' \/ (Faithful' /\ Drained')
    <3>1. CASE Spoiled
      BY <1>1, <1>2, <1>6, <1>8, <3>1 DEF Complete
    <3>2. CASE LevelRead = Unread
      BY <1>2, <1>3, <3>2 DEF Complete
    <3>3. CASE ~Spoiled /\ LevelRead # Unread
      <4>1. Drained /\ saved'[i] = before.f3[i] /\ GoodSoFar /\ listing
        BY <1>3, <1>4, <1>5, <3>3 DEF Spoiled
      <4>2. i = Listed
        BY <1>2, <1>10, <4>1 DEF LastRead
      <4>3. \A x \in Ranges : saved'[x] = before.f3[x]
        BY <1>2, <1>3, <1>6, <1>7, <4>1, <4>2 DEF GoodSoFar
      <4>4. QED
        BY <2>2, <4>1, <4>3, <1>1, SameMasks DEF Faithful
    <3>4. QED
      BY <3>1, <3>2, <3>3
  <2>4. MaskTypeOK'
    BY <1>1, <1>3, <1>4, <2>1, RangesAre, SameMasks DEF MSInv, MaskTypeOK
  <2>5. F3Inv'
    BY <1>1, <1>4, <2>1, <2>2, <2>3, SameMasks DEF F3Inv, Reading
  <2>6. EventInv'
    BY <1>1, <1>4, <2>1, <2>2, SameMasks DEF EventInv, Reading
  <2>7. QED
    BY <2>2, <2>4, <2>5, <2>6 DEF MSInv
<1>11. QED
  BY <1>9, <1>10

LEMMA EventOpsAre ==
    /\ Clear(EvOps) => Clear(SetOps)
    /\ EventGet \in Requests /\ EventGet.op = "EVENT_GET" /\ ~F3Writes(EventGet)
    /\ \A l \in Levels : EventSet(l) \in Requests /\ EventSet(l).op = "EVENT_SET"
                           /\ ~F3Writes(EventSet(l))
<1>1. EvOps = {"EVENT_GET", "EVENT_SET"} /\ SetOps = {"EVENT_SET"}
  BY DEF EvOps, SetOps
<1>2. Clear(EvOps) => Clear(SetOps)
  BY <1>1 DEF Clear, Without
<1>3. QED
  BY <1>2, TheEventGet, TheEventSet DEF F3Writes

LEMMA ZeroKeeps ==
    ASSUME MSInv, Zero
    PROVE  MSInv'
<1>1. /\ at = "saved" /\ UNCHANGED modem
      /\ UNCHANGED <<i, listing, saved, zeroed, evSaved, evZeroed, same, f3Ok, evOk>>
  BY DEF Zero, Ask, seen, flags, verdict
<1>2. /\ ListedBefore /\ NoWrites /\ ~zeroed /\ (~Complete \/ (Faithful /\ Drained))
      /\ EventsBefore /\ Clear(EvOps) /\ ~evZeroed
      /\ evSaved = before.events \/ Clear(SetOps)
  BY <1>1 DEF MSInv, F3Inv, EventInv, Reading
<1>3. MaskTypeOK'
  BY <1>1, SameMasks DEF MSInv, MaskTypeOK
<1>4. CASE WorthZeroing
  <2> DEFINE r == SetAll(0)
  <2>1. at' = "zero" /\ SendRecv(r) /\ Complete
    BY <1>4 DEF Zero, Ask, WorthZeroing
  <2>2. r \in Requests /\ AskedOp' = r.op /\ r.op = "EXT_MSG"
    BY <2>1, TheSetAll, LevelsAreNat DEF AskedOp
  <2> HIDE DEF r
  <2>3. /\ LinkInv'
        /\ \A ops : Clear(ops) => Waited(ops)' /\ (r.op \notin ops => Clear(ops)')
    BY <1>1, <2>1, <2>2, Asking
  <2>4. Waited(F3Ops)' /\ Clear(EvOps)' /\ Clear(SetOps)'
    BY <1>2, <2>1, <2>2, <2>3, DrainedIsClear, EventOpsAre DEF EvOps, SetOps
  <2>5. F3Inv'
    BY <1>1, <1>2, <2>1, <2>4, SameMasks DEF F3Inv, Reading
  <2>6. EventInv'
    BY <1>1, <1>2, <2>1, <2>4, SameMasks DEF EventInv, Reading
  <2>7. QED
    BY <1>3, <2>3, <2>5, <2>6 DEF MSInv
<1>5. CASE ~WorthZeroing
  <2>1. at' = "events" /\ SendRecv(EventGet)
    BY <1>5 DEF Zero, Ask
  <2>2. EventGet \in Requests /\ AskedOp' = EventGet.op /\ ~F3Writes(EventGet)
    BY <2>1, EventOpsAre DEF AskedOp
  <2>3. /\ LinkInv' /\ NoWrites'
        /\ \A ops : Clear(ops) /\ EventGet.op \notin ops => Clear(ops)'
        /\ \A ops : \A op \in ops : \A t : Clear(ops) => Carries(op, t)'
    BY <1>1, <1>2, <2>1, <2>2, Asking
  <2>4. Clear(SetOps)' /\ \A t : Carries("EVENT_GET", t)'
    BY <1>2, <2>3, EventOpsAre DEF EvOps, SetOps
  <2>5. F3Inv'
    BY <1>1, <1>2, <2>1, <2>3, SameMasks DEF F3Inv, Reading
  <2>6. EventInv'
    BY <1>1, <1>2, <2>1, <2>4, SameMasks DEF EventInv, Reading
  <2>7. QED
    BY <1>3, <2>3, <2>5, <2>6 DEF MSInv
<1>6. QED
  BY <1>4, <1>5

LEMMA AfterZeroKeeps ==
    ASSUME MSInv, AfterZero
    PROVE  MSInv'
<1>1. /\ at = "zero" /\ pc = "ready" /\ ~Resting /\ UNCHANGED modem
      /\ at' = "events" /\ SendRecv(EventGet) /\ zeroed' = ~Refused
      /\ UNCHANGED <<i, listing, saved, evSaved, evZeroed, same, f3Ok, evOk>>
  BY DEF AfterZero, Returned, Ask, seen, verdict, Resting
<1>2. /\ Complete /\ Faithful /\ Waited(F3Ops)
      /\ EventsBefore /\ Clear(EvOps) /\ ~evZeroed
      /\ evSaved = before.events \/ Clear(SetOps)
  BY <1>1 DEF MSInv, F3Inv, EventInv
<1>3. ~Refused => Clear(F3Ops)
  <2>1. ~Refused => answer.op \in F3Ops
    BY <1>1, AnswerIs DEF AskedOp, F3Ops
  <2>2. QED
    BY <1>1, <1>2, <2>1, DrainedIsClear DEF Waited
<1>4. EventGet \in Requests /\ AskedOp' = EventGet.op
  BY <1>1, EventOpsAre DEF AskedOp
<1>5. /\ LinkInv'
      /\ \A ops : Clear(ops) /\ EventGet.op \notin ops => Clear(ops)'
      /\ \A ops : \A op \in ops : \A t : Clear(ops) => Carries(op, t)'
  BY <1>1, <1>4, Asking
<1>6. Clear(SetOps)' /\ \A t : Carries("EVENT_GET", t)'
  BY <1>2, <1>5, EventOpsAre DEF EvOps, SetOps
<1>7. zeroed' => Clear(F3Ops)'
  BY <1>1, <1>3, <1>5, EventOpsAre DEF F3Ops
<1>8. MaskTypeOK'
  BY <1>1, <1>2, SameMasks DEF MSInv, MaskTypeOK
<1>9. F3Inv'
  BY <1>1, <1>2, <1>7, SameMasks DEF F3Inv, Reading
<1>10. EventInv'
  BY <1>1, <1>2, <1>6, SameMasks DEF EventInv, Reading
<1>11. QED
  BY <1>5, <1>8, <1>9, <1>10 DEF MSInv

LEMMA RetryEventsKeeps ==
    ASSUME MSInv, RetryEvents("events", "events again")
    PROVE  MSInv'
<1>1. /\ at = "events" /\ at' = "events again" /\ SendRecv(EventGet) /\ UNCHANGED modem
      /\ UNCHANGED <<i, listing, saved, zeroed, evSaved, evZeroed, same, f3Ok, evOk>>
  BY DEF RetryEvents, Returned, Ask, seen, flags, verdict
<1>2. /\ Faithful \/ (ListedBefore /\ NoWrites)
      /\ zeroed => Complete /\ Faithful /\ Clear(F3Ops)
      /\ EventsBefore /\ Clear(SetOps) /\ Carries("EVENT_GET", <<events>>) /\ ~evZeroed
  BY <1>1 DEF MSInv, F3Inv, EventInv
<1>3. EventGet \in Requests /\ AskedOp' = EventGet.op /\ ~F3Writes(EventGet)
  BY <1>1, EventOpsAre DEF AskedOp
<1>4. /\ LinkInv' /\ (NoWrites => NoWrites')
      /\ \A ops : Clear(ops) /\ EventGet.op \notin ops => Clear(ops)'
      /\ \A op, t : Carries(op, t) => Carries(op, t)'
  BY <1>1, <1>3, Asking
<1>5. Clear(SetOps)' /\ Carries("EVENT_GET", <<events>>)' /\ (zeroed => Clear(F3Ops)')
  BY <1>1, <1>2, <1>4, EventOpsAre, SameMasks DEF SetOps, F3Ops
<1>6. MaskTypeOK'
  BY <1>1, SameMasks DEF MSInv, MaskTypeOK
<1>7. F3Inv'
  BY <1>1, <1>2, <1>4, <1>5, SameMasks DEF F3Inv, Reading
<1>8. EventInv'
  BY <1>1, <1>2, <1>5, SameMasks DEF EventInv, Reading
<1>9. QED
  BY <1>4, <1>6, <1>7, <1>8 DEF MSInv

LEMMA ZeroEventsKeeps ==
    ASSUME MSInv, ZeroEvents
    PROVE  MSInv'
<1>1. /\ at \in {"events", "events again"} /\ pc = "ready" /\ ~Resting /\ UNCHANGED modem
      /\ evSaved' = EventsRead
      /\ UNCHANGED <<i, listing, saved, zeroed, evZeroed, same, f3Ok, evOk>>
  BY DEF ZeroEvents, EventsAnswered, Returned, Ask, Goto, flags, verdict, Resting
<1>2. /\ Faithful \/ (ListedBefore /\ NoWrites)
      /\ zeroed => Complete /\ Faithful /\ Clear(F3Ops)
      /\ EventsBefore /\ Clear(SetOps) /\ Carries("EVENT_GET", <<events>>) /\ ~evZeroed
  BY <1>1 DEF MSInv, F3Inv, EventInv
<1>3. EventsRead # Unread => EventsRead = before.events
  <2>1. EventsRead # Unread => answer.op = "EVENT_GET" /\ EventsRead = answer.body[1]
    BY <1>1, AnswerIs
  <2>2. answer.op = "EVENT_GET" => answer.body = <<events>>
    BY <1>1, <1>2 DEF Carries, IsReading
  <2>3. QED
    BY <1>2, <2>1, <2>2 DEF EventsBefore
<1>4. before.events \in Levels
  BY DEF MSInv, LinkInv
<1>5. MaskTypeOK'
  BY <1>1, <1>3, <1>4, SameMasks DEF MSInv, MaskTypeOK
<1>6. CASE EventsRead \notin {0, Unread}
  <2> DEFINE r == EventSet(0)
  <2>1. at' = "zero events" /\ SendRecv(r)
    BY <1>6 DEF ZeroEvents, Ask
  <2>2. r \in Requests /\ AskedOp' = r.op /\ r.op = "EVENT_SET" /\ ~F3Writes(r)
    BY <2>1, EventOpsAre, LevelsAreNat DEF AskedOp
  <2> HIDE DEF r
  <2>3. /\ LinkInv' /\ (NoWrites => NoWrites')
        /\ \A ops : Clear(ops) => Waited(ops)' /\ (r.op \notin ops => Clear(ops)')
    BY <1>1, <2>1, <2>2, Asking
  <2>4. Waited(SetOps)' /\ (zeroed => Clear(F3Ops)')
    BY <1>2, <2>2, <2>3 DEF F3Ops
  <2>5. F3Inv'
    BY <1>1, <1>2, <2>1, <2>3, <2>4, SameMasks DEF F3Inv, Reading
  <2>6. EventInv'
    BY <1>1, <1>2, <1>3, <1>6, <2>1, <2>4, SameMasks DEF EventInv, Reading
  <2>7. QED
    BY <1>5, <2>3, <2>5, <2>6 DEF MSInv
<1>7. CASE EventsRead \in {0, Unread}
  <2>1. at' = "run" /\ UNCHANGED link
    BY <1>7 DEF ZeroEvents, Goto
  <2>2. /\ LinkInv' /\ NoWrites' = NoWrites
        /\ \A ops : Clear(ops)' = Clear(ops)
    BY <1>1, <2>1, Going DEF Resting
  <2>3. F3Inv'
    BY <1>1, <1>2, <2>1, <2>2, SameMasks DEF F3Inv, Reading
  <2>4. EventInv'
    BY <1>1, <1>2, <2>1, <2>2, SameMasks DEF EventInv, Reading
  <2>5. QED
    BY <1>5, <2>2, <2>3, <2>4 DEF MSInv
<1>8. QED
  BY <1>6, <1>7

LEMMA AfterZeroEventsKeeps ==
    ASSUME MSInv, AfterZeroEvents
    PROVE  MSInv'
<1>1. /\ at = "zero events" /\ pc = "ready" /\ at' = "run" /\ UNCHANGED <<link, modem>>
      /\ evZeroed' = (answer.op = "EVENT_SET")
      /\ UNCHANGED <<i, listing, saved, zeroed, evSaved, same, f3Ok, evOk>>
  BY DEF AfterZeroEvents, Returned, Goto, seen, verdict
<1>2. /\ Faithful \/ (ListedBefore /\ NoWrites)
      /\ zeroed => Complete /\ Faithful /\ Clear(F3Ops)
      /\ evSaved = before.events /\ Waited(SetOps)
  BY <1>1 DEF MSInv, F3Inv, EventInv
<1>3. /\ LinkInv' /\ NoWrites' = NoWrites
      /\ \A ops : Clear(ops)' = Clear(ops)
  BY <1>1, Going DEF Resting
<1>4. evZeroed' => Clear(EvOps)
  BY <1>1, <1>2, DrainedIsClear DEF Waited, SetOps
<1>5. MaskTypeOK'
  BY <1>1, SameMasks DEF MSInv, MaskTypeOK
<1>6. F3Inv'
  BY <1>1, <1>2, <1>3, SameMasks DEF F3Inv, Reading
<1>7. EventInv'
  BY <1>1, <1>2, <1>3, <1>4, SameMasks DEF EventInv, Reading
<1>8. QED
  BY <1>3, <1>5, <1>6, <1>7 DEF MSInv

\* What all steps of restore() know.
LEMMA Restoring ==
    ASSUME MSInv, at \in {"run", "put", "put all", "check", "f3 done"}
    PROVE  /\ Faithful \/ (ListedBefore /\ NoWrites)
           /\ zeroed => /\ Complete /\ Faithful
                        /\ \A x \in Ranges : saved[x] \in Levels /\ saved[x] # Unread
           /\ evSaved = before.events \/ (EventsBefore /\ Clear(SetOps))
           /\ evZeroed => evSaved = before.events /\ Clear(EvOps)
           /\ before.events \in Levels
  BY DEF MSInv, F3Inv, EventInv, LinkInv, MaskTypeOK, Complete

LEMMA RestoreKeeps ==
    ASSUME MSInv, Restore
    PROVE  MSInv'
<1>1. /\ at = "run" /\ UNCHANGED modem
      /\ UNCHANGED <<i, listing, saved, zeroed, evSaved, evZeroed, same, f3Ok, evOk>>
  BY DEF Restore, Ask, Goto, seen, flags, verdict
<1>2. /\ Faithful \/ (ListedBefore /\ NoWrites)
      /\ zeroed => Complete /\ Faithful /\ Clear(F3Ops)
      /\ zeroed => saved[1] \in Levels
      /\ evSaved = before.events \/ (EventsBefore /\ Clear(SetOps))
      /\ evZeroed => evSaved = before.events /\ Clear(EvOps)
  BY <1>1, Restoring, RangesAre DEF MSInv, F3Inv
<1>3. MaskTypeOK'
  BY <1>1, SameMasks DEF MSInv, MaskTypeOK
<1>4. CASE ~zeroed
  <2>1. at' = "f3 done" /\ UNCHANGED link /\ pc = "ready"
    BY <1>1, <1>4 DEF Restore, Goto, MSInv, LinkInv, Resting
  <2>2. /\ LinkInv' /\ NoWrites' = NoWrites
        /\ \A ops : Clear(ops)' = Clear(ops)
    BY <1>1, <2>1, Going DEF Resting
  <2>3. F3Inv'
    BY <1>1, <1>2, <1>4, <2>1, <2>2, SameMasks DEF F3Inv, Reading
  <2>4. EventInv'
    BY <1>1, <1>2, <2>1, <2>2, SameMasks DEF EventInv, Reading
  <2>5. QED
    BY <1>3, <2>2, <2>3, <2>4 DEF MSInv
<1>5. CASE zeroed
  <2>1. PICK r \in Requests : at' \in {"put", "put all"} /\ SendRecv(r) /\ r.op = "EXT_MSG"
    BY <1>2, <1>5, RangesAre, TheSetAll, TheSetRange DEF Restore, Ask
  <2>2. AskedOp' = r.op
    BY <2>1 DEF AskedOp
  <2>3. /\ LinkInv'
        /\ \A ops : Clear(ops) => Waited(ops)' /\ (r.op \notin ops => Clear(ops)')
    BY <1>1, <2>1, <2>2, Asking
  <2>4. Waited(F3Ops)' /\ (Clear(EvOps) => Clear(EvOps)') /\ (Clear(SetOps) => Clear(SetOps)')
    BY <1>2, <1>5, <2>1, <2>3 DEF EvOps, SetOps
  <2>5. F3Inv'
    BY <1>1, <1>2, <1>5, <2>1, <2>4, SameMasks DEF F3Inv, Reading
  <2>6. EventInv'
    BY <1>1, <1>2, <2>1, <2>4, SameMasks DEF EventInv, Reading
  <2>7. QED
    BY <1>3, <2>3, <2>5, <2>6 DEF MSInv
<1>6. QED
  BY <1>4, <1>5

LEMMA AfterPutKeeps ==
    ASSUME MSInv, AfterPut
    PROVE  MSInv'
<1>1. /\ at \in {"put", "put all"} /\ pc = "ready" /\ ~Resting /\ UNCHANGED modem
      /\ UNCHANGED <<listing, saved, zeroed, evSaved, evZeroed, same, evOk>>
  BY DEF AfterPut, Returned, Ask, Goto, seen, flags, verdict, Resting
<1>2. /\ zeroed /\ Complete /\ Faithful /\ Waited(F3Ops)
      /\ \A x \in Ranges : saved[x] \in Levels
      /\ evSaved = before.events \/ (EventsBefore /\ Clear(SetOps))
      /\ evZeroed => evSaved = before.events /\ Clear(EvOps)
  BY <1>1, Restoring DEF MSInv, F3Inv
<1>3. i \in Ranges /\ Listed \in Nat \ {0} /\ Ranges = 1 .. Listed
  BY MaskAssumption DEF MSInv, MaskTypeOK, Ranges
<1>4. CASE Refused
  <2>1. at' = "f3 done" /\ i' = 1 /\ f3Ok' = FALSE /\ UNCHANGED link
    BY <1>4 DEF AfterPut, Goto
  <2>2. LinkInv' /\ \A ops : Clear(ops)' = Clear(ops)
    BY <1>1, <2>1, Going DEF Resting
  <2>3. MaskTypeOK'
    BY <1>1, <2>1, RangesAre, SameMasks DEF MSInv, MaskTypeOK
  <2>4. F3Inv'
    BY <1>1, <1>2, <2>1, <2>2, SameMasks DEF F3Inv, Reading
  <2>5. EventInv'
    BY <1>1, <1>2, <2>1, <2>2, SameMasks DEF EventInv, Reading
  <2>6. QED
    BY <2>2, <2>3, <2>4, <2>5 DEF MSInv
<1>5. CASE ~Refused
  <2>1. Clear(F3Ops)
    <3>1. answer.op \in F3Ops
      BY <1>1, <1>5, AnswerIs DEF AskedOp, F3Ops
    <3>2. QED
      BY <1>1, <1>2, <3>1, DrainedIsClear DEF Waited
  <2>2. CASE at = "put" /\ i < Listed
    <3> DEFINE r == SetRange(i + 1, saved[i + 1])
    <3>1. i' = i + 1 /\ i' \in Ranges /\ at' = "put" /\ SendRecv(r) /\ UNCHANGED f3Ok
      <4>1. i' = i + 1 /\ at' = "put" /\ SendRecv(r) /\ UNCHANGED verdict
        BY <1>5, <2>2 DEF AfterPut, Ask
      <4>2. i + 1 \in Ranges
        BY <1>3, <2>2
      <4>3. QED
        BY <4>1, <4>2 DEF verdict
    <3>2. r \in Requests /\ AskedOp' = r.op /\ r.op = "EXT_MSG"
      BY <1>2, <3>1, TheSetRange DEF AskedOp
    <3> HIDE DEF r
    <3>3. /\ LinkInv'
          /\ \A ops : Clear(ops) => Waited(ops)' /\ (r.op \notin ops => Clear(ops)')
      BY <1>1, <3>1, <3>2, Asking
    <3>4. Waited(F3Ops)' /\ (Clear(EvOps) => Clear(EvOps)') /\ (Clear(SetOps) => Clear(SetOps)')
      BY <2>1, <3>2, <3>3 DEF EvOps, SetOps
    <3>5. MaskTypeOK'
      BY <1>1, <3>1, SameMasks DEF MSInv, MaskTypeOK
    <3>6. F3Inv'
      BY <1>1, <1>2, <3>1, <3>4, SameMasks DEF F3Inv, Reading
    <3>7. EventInv'
      BY <1>1, <1>2, <3>1, <3>4, SameMasks DEF EventInv, Reading
    <3>8. QED
      BY <3>3, <3>5, <3>6, <3>7 DEF MSInv
  <2>3. CASE ~(at = "put" /\ i < Listed)
    <3> DEFINE r == Get(1)
    <3>1. i' = 1 /\ at' = "check" /\ SendRecv(r) /\ UNCHANGED f3Ok
      BY <1>5, <2>3 DEF AfterPut, Ask, verdict
    <3>2. r \in Requests /\ AskedOp' = r.op /\ r.op = "EXT_MSG"
      BY <3>1, TheGet, RangesAre DEF AskedOp
    <3> HIDE DEF r
    <3>3. /\ LinkInv' /\ req' = r
          /\ \A ops : Clear(ops) => Waited(ops)' /\ (r.op \notin ops => Clear(ops)')
          /\ \A ops : \A op \in ops : \A t : Clear(ops) => Carries(op, t)'
      BY <1>1, <3>1, <3>2, Asking
    <3>4. Waited(F3Ops)' /\ (Clear(EvOps) => Clear(EvOps)') /\ (Clear(SetOps) => Clear(SetOps)')
      BY <2>1, <3>2, <3>3 DEF EvOps, SetOps
    <3>5. Watched'
      BY <2>1, <3>1, <3>3, <3>4 DEF Watched, r, Get, F3Ops
    <3>6. \A x \in 1 .. 1 - 1 : FALSE
      OBVIOUS
    <3>7. MaskTypeOK'
      BY <1>1, <3>1, RangesAre, SameMasks DEF MSInv, MaskTypeOK
    <3>8. F3Inv'
      BY <1>1, <1>2, <3>1, <3>5, <3>6, SameMasks DEF F3Inv, Reading
    <3>9. EventInv'
      BY <1>1, <1>2, <3>1, <3>4, SameMasks DEF EventInv, Reading
    <3>10. QED
      BY <3>3, <3>7, <3>8, <3>9 DEF MSInv
  <2>4. QED
    BY <2>2, <2>3
<1>6. QED
  BY <1>4, <1>5

\* The readback of range i agrees only if the modem's level of it is the saved one.
LEMMA AfterCheckKeeps ==
    ASSUME MSInv, AfterCheck
    PROVE  MSInv'
<1>1. /\ at = "check" /\ pc = "ready" /\ ~Resting /\ UNCHANGED modem /\ same' = Agrees
      /\ UNCHANGED <<listing, saved, zeroed, evSaved, evZeroed, evOk>>
  BY DEF AfterCheck, Returned, Ask, Goto, seen, flags, Resting
<1>2. /\ zeroed /\ Complete /\ Faithful
      /\ \A x \in Ranges : saved[x] \in Levels /\ saved[x] # Unread
      /\ same => Watched /\ \A x \in 1 .. i - 1 : f3[x] = saved[x]
      /\ evSaved = before.events \/ (EventsBefore /\ Clear(SetOps))
      /\ evZeroed => evSaved = before.events /\ Clear(EvOps)
  BY <1>1, Restoring DEF MSInv, F3Inv
<1>3. i \in Ranges /\ i \in Nat /\ Listed \in Nat \ {0} /\ Ranges = 1 .. Listed
  BY MaskAssumption DEF MSInv, MaskTypeOK, Ranges
<1>4. Agrees => Drained /\ Clear(F3Ops) /\ \A x \in 1 .. i : f3[x] = saved[x]
  <2> SUFFICES ASSUME Agrees PROVE Drained /\ Clear(F3Ops) /\ \A x \in 1 .. i : f3[x] = saved[x]
    OBVIOUS
  <2>1. same /\ LevelRead = saved[i] /\ saved[i] # Unread
    BY <1>2, <1>3 DEF Agrees
  <2>2. answer.op = "EXT_MSG" /\ answer.sub = "GET" /\ LevelRead = answer.body[2]
    BY <1>1, <2>1, AnswerIs
  <2>3. Drained /\ answer.body = <<i, f3[i]>>
    BY <1>1, <1>2, <2>1, <2>2 DEF Watched, Waited, Carries, IsReading, F3Ops
  <2>4. f3[i] = saved[i]
    BY <2>1, <2>2, <2>3
  <2>5. \A x \in 1 .. i : x \in 1 .. i - 1 \/ x = i
    BY <1>3
  <2>6. QED
    BY <1>2, <2>1, <2>3, <2>4, <2>5, DrainedIsClear
<1>5. CASE i < Listed
  <2> DEFINE r == Get(i + 1)
  <2>1. i' = i + 1 /\ i' \in Ranges /\ i' - 1 = i /\ at' = "check" /\ SendRecv(r) /\ UNCHANGED f3Ok
    BY <1>3, <1>5 DEF AfterCheck, Ask
  <2>2. r \in Requests /\ AskedOp' = r.op /\ r.op = "EXT_MSG"
    BY <2>1, TheGet DEF AskedOp
  <2> HIDE DEF r
  <2>3. /\ LinkInv' /\ req' = r
        /\ \A ops : Clear(ops) => Waited(ops)' /\ (r.op \notin ops => Clear(ops)')
        /\ \A ops : \A op \in ops : \A t : Clear(ops) => Carries(op, t)'
    BY <1>1, <2>1, <2>2, Asking
  <2>4. (Clear(EvOps) => Clear(EvOps)') /\ (Clear(SetOps) => Clear(SetOps)')
    BY <2>2, <2>3 DEF EvOps, SetOps
  <2>5. Agrees => Watched'
    BY <1>4, <2>1, <2>3 DEF Watched, r, Get, F3Ops
  <2>6. Agrees => \A x \in 1 .. i' - 1 : f3'[x] = saved'[x]
    BY <1>1, <1>4, <2>1, SameMasks
  <2>7. MaskTypeOK'
    BY <1>1, <2>1, SameMasks DEF MSInv, MaskTypeOK
  <2>8. F3Inv'
    BY <1>1, <1>2, <2>1, <2>5, <2>6, SameMasks DEF F3Inv, Reading
  <2>9. EventInv'
    BY <1>1, <1>2, <2>1, <2>4, SameMasks DEF EventInv, Reading
  <2>10. QED
    BY <2>3, <2>7, <2>8, <2>9 DEF MSInv
<1>6. CASE ~(i < Listed)
  <2>1. at' = "f3 done" /\ i' = 1 /\ f3Ok' = Agrees /\ UNCHANGED link
    BY <1>6 DEF AfterCheck, Goto
  <2>2. LinkInv' /\ \A ops : Clear(ops)' = Clear(ops)
    BY <1>1, <2>1, Going DEF Resting
  <2>3. Agrees => ListedBefore
    BY <1>2, <1>3, <1>4, <1>6 DEF ListedBefore, Faithful
  <2>4. MaskTypeOK'
    BY <1>1, <2>1, RangesAre, SameMasks DEF MSInv, MaskTypeOK
  <2>5. F3Inv'
    BY <1>1, <1>2, <1>4, <2>1, <2>2, <2>3, SameMasks DEF F3Inv, Reading
  <2>6. EventInv'
    BY <1>1, <1>2, <2>1, <2>2, SameMasks DEF EventInv, Reading
  <2>7. QED
    BY <2>2, <2>4, <2>5, <2>6 DEF MSInv
<1>7. QED
  BY <1>5, <1>6

LEMMA RestoreEventsKeeps ==
    ASSUME MSInv, RestoreEvents
    PROVE  MSInv'
<1>1. /\ at = "f3 done" /\ UNCHANGED modem
      /\ UNCHANGED <<i, listing, saved, zeroed, evSaved, evZeroed, same, f3Ok, evOk>>
  BY DEF RestoreEvents, Ask, Goto, seen, flags, verdict
<1>2. /\ Faithful \/ (ListedBefore /\ NoWrites)
      /\ zeroed => Complete /\ Faithful
      /\ zeroed /\ f3Ok => ListedBefore /\ Clear(F3Ops)
      /\ evSaved = before.events \/ (EventsBefore /\ Clear(SetOps))
      /\ evZeroed => evSaved = before.events /\ Clear(EvOps)
      /\ before.events \in Levels
  BY <1>1, Restoring DEF MSInv, F3Inv
<1>3. MaskTypeOK'
  BY <1>1, SameMasks DEF MSInv, MaskTypeOK
<1>4. CASE evZeroed
  <2> DEFINE r == EventSet(evSaved)
  <2>1. at' = "put events" /\ SendRecv(r)
    BY <1>4 DEF RestoreEvents, Ask
  <2>2. r \in Requests /\ AskedOp' = r.op /\ r.op = "EVENT_SET" /\ ~F3Writes(r)
    BY <1>2, <1>4, <2>1, EventOpsAre DEF AskedOp
  <2> HIDE DEF r
  <2>3. /\ LinkInv' /\ (NoWrites => NoWrites')
        /\ \A ops : Clear(ops) => Waited(ops)' /\ (r.op \notin ops => Clear(ops)')
    BY <1>1, <2>1, <2>2, Asking
  <2>4. Waited(SetOps)' /\ (Clear(F3Ops) => Clear(F3Ops)')
    BY <1>2, <1>4, <2>2, <2>3, EventOpsAre DEF F3Ops
  <2>5. F3Inv'
    BY <1>1, <1>2, <2>1, <2>3, <2>4, SameMasks DEF F3Inv, Reading
  <2>6. EventInv'
    BY <1>1, <1>2, <1>4, <2>1, <2>4, SameMasks DEF EventInv, Reading
  <2>7. QED
    BY <1>3, <2>3, <2>5, <2>6 DEF MSInv
<1>5. CASE ~evZeroed
  <2>1. at' = "done" /\ UNCHANGED link /\ pc = "ready"
    BY <1>1, <1>5 DEF RestoreEvents, Goto, MSInv, LinkInv, Resting
  <2>2. /\ LinkInv' /\ NoWrites' = NoWrites
        /\ \A ops : Clear(ops)' = Clear(ops)
    BY <1>1, <2>1, Going DEF Resting
  <2>3. F3Inv'
    BY <1>1, <1>2, <2>1, <2>2, SameMasks DEF F3Inv, Reading
  <2>4. EventInv'
    BY <1>1, <1>2, <1>5, <2>1, <2>2, SameMasks DEF EventInv, Reading
  <2>5. QED
    BY <1>3, <2>2, <2>3, <2>4 DEF MSInv
<1>6. QED
  BY <1>4, <1>5

LEMMA AfterPutEventsKeeps ==
    ASSUME MSInv, AfterPutEvents
    PROVE  MSInv'
<1>1. /\ at = "put events" /\ pc = "ready" /\ UNCHANGED modem
      /\ UNCHANGED <<i, listing, saved, zeroed, evSaved, evZeroed, same, f3Ok>>
  BY DEF AfterPutEvents, Returned, Ask, Goto, seen, flags, verdict
<1>2. /\ Faithful \/ (ListedBefore /\ NoWrites)
      /\ zeroed => Complete /\ Faithful
      /\ zeroed /\ f3Ok => ListedBefore /\ Clear(F3Ops)
      /\ evZeroed /\ evSaved = before.events /\ Waited(SetOps)
  BY <1>1 DEF MSInv, F3Inv, EventInv
<1>3. MaskTypeOK'
  BY <1>1, SameMasks DEF MSInv, MaskTypeOK
<1>4. CASE answer.op = "EVENT_SET"
  <2>1. at' = "check events" /\ SendRecv(EventGet)
    BY <1>4 DEF AfterPutEvents, Ask
  <2>2. \A ops : Clear(ops)
    BY <1>1, <1>2, <1>4, DrainedIsClear DEF Waited, SetOps
  <2>3. EventGet \in Requests /\ AskedOp' = EventGet.op /\ ~F3Writes(EventGet)
    BY <2>1, EventOpsAre DEF AskedOp
  <2>4. /\ LinkInv' /\ (NoWrites => NoWrites')
        /\ \A ops : Clear(ops) /\ EventGet.op \notin ops => Clear(ops)'
        /\ \A ops : \A op \in ops : \A t : Clear(ops) => Carries(op, t)'
    BY <1>1, <2>1, <2>3, Asking
  <2>5. Clear(SetOps)' /\ Clear(F3Ops)' /\ \A t : Carries("EVENT_GET", t)'
    BY <2>2, <2>4, EventOpsAre DEF EvOps, SetOps, F3Ops
  <2>6. F3Inv'
    BY <1>1, <1>2, <2>1, <2>4, <2>5, SameMasks DEF F3Inv, Reading
  <2>7. EventInv'
    BY <1>1, <1>2, <2>1, <2>5, SameMasks DEF EventInv, Reading
  <2>8. QED
    BY <1>3, <2>4, <2>6, <2>7 DEF MSInv
<1>5. CASE answer.op # "EVENT_SET"
  <2>1. at' = "done" /\ evOk' = FALSE /\ UNCHANGED link
    BY <1>5 DEF AfterPutEvents, Goto
  <2>2. /\ LinkInv' /\ NoWrites' = NoWrites
        /\ \A ops : Clear(ops)' = Clear(ops)
    BY <1>1, <2>1, Going DEF Resting
  <2>3. F3Inv'
    BY <1>1, <1>2, <2>1, <2>2, SameMasks DEF F3Inv, Reading
  <2>4. EventInv'
    BY <1>1, <1>2, <2>1, <2>2, SameMasks DEF EventInv, Reading
  <2>5. QED
    BY <1>3, <2>2, <2>3, <2>4 DEF MSInv
<1>6. QED
  BY <1>4, <1>5

LEMMA RetryCheckKeeps ==
    ASSUME MSInv, RetryEvents("check events", "check events again")
    PROVE  MSInv'
<1>1. /\ at = "check events" /\ at' = "check events again" /\ SendRecv(EventGet)
      /\ UNCHANGED modem
      /\ UNCHANGED <<i, listing, saved, zeroed, evSaved, evZeroed, same, f3Ok, evOk>>
  BY DEF RetryEvents, Returned, Ask, seen, flags, verdict
<1>2. /\ Faithful \/ (ListedBefore /\ NoWrites)
      /\ zeroed => Complete /\ Faithful
      /\ zeroed /\ f3Ok => ListedBefore /\ Clear(F3Ops)
      /\ evZeroed /\ evSaved = before.events
      /\ Clear(SetOps) /\ Carries("EVENT_GET", <<events>>)
  BY <1>1 DEF MSInv, F3Inv, EventInv
<1>3. EventGet \in Requests /\ AskedOp' = EventGet.op /\ ~F3Writes(EventGet)
  BY <1>1, EventOpsAre DEF AskedOp
<1>4. /\ LinkInv' /\ (NoWrites => NoWrites')
      /\ \A ops : Clear(ops) /\ EventGet.op \notin ops => Clear(ops)'
      /\ \A op, t : Carries(op, t) => Carries(op, t)'
  BY <1>1, <1>3, Asking
<1>5. /\ Clear(SetOps)' /\ Carries("EVENT_GET", <<events>>)'
      /\ Clear(F3Ops) => Clear(F3Ops)'
  BY <1>1, <1>2, <1>4, EventOpsAre, SameMasks DEF SetOps, F3Ops
<1>6. MaskTypeOK'
  BY <1>1, SameMasks DEF MSInv, MaskTypeOK
<1>7. F3Inv'
  BY <1>1, <1>2, <1>4, <1>5, SameMasks DEF F3Inv, Reading
<1>8. EventInv'
  BY <1>1, <1>2, <1>5, SameMasks DEF EventInv, Reading
<1>9. QED
  BY <1>4, <1>6, <1>7, <1>8 DEF MSInv

LEMMA AfterCheckEventsKeeps ==
    ASSUME MSInv, AfterCheckEvents
    PROVE  MSInv'
<1>1. /\ at \in {"check events", "check events again"} /\ pc = "ready" /\ ~Resting
      /\ at' = "done" /\ evOk' = (EventsRead = evSaved) /\ UNCHANGED <<link, modem>>
      /\ UNCHANGED <<i, listing, saved, zeroed, evSaved, evZeroed, same, f3Ok>>
  BY DEF AfterCheckEvents, EventsAnswered, Returned, Goto, seen, flags, Resting
<1>2. /\ Faithful \/ (ListedBefore /\ NoWrites)
      /\ zeroed => Complete /\ Faithful
      /\ zeroed /\ f3Ok => ListedBefore /\ Clear(F3Ops)
      /\ evZeroed /\ evSaved = before.events /\ before.events \in Levels
      /\ Clear(SetOps) /\ Carries("EVENT_GET", <<events>>)
  BY <1>1 DEF MSInv, F3Inv, EventInv, LinkInv
<1>3. evOk' => EventsBefore
  <2> SUFFICES ASSUME evOk' PROVE EventsBefore
    OBVIOUS
  <2>1. EventsRead = before.events /\ EventsRead # Unread
    BY <1>1, <1>2, LevelsAreNat
  <2>2. answer.op = "EVENT_GET" /\ EventsRead = answer.body[1]
    BY <1>1, <2>1, AnswerIs
  <2>3. answer.body = <<events>>
    BY <1>1, <1>2, <2>2 DEF Carries, IsReading
  <2>4. QED
    BY <2>1, <2>2, <2>3 DEF EventsBefore
<1>4. /\ LinkInv' /\ NoWrites' = NoWrites
      /\ \A ops : Clear(ops)' = Clear(ops)
  BY <1>1, Going DEF Resting
<1>5. MaskTypeOK'
  BY <1>1, SameMasks DEF MSInv, MaskTypeOK
<1>6. F3Inv'
  BY <1>1, <1>2, <1>4, SameMasks DEF F3Inv, Reading
<1>7. EventInv'
  BY <1>1, <1>2, <1>3, <1>4, SameMasks DEF EventInv, Reading
<1>8. QED
  BY <1>4, <1>5, <1>6, <1>7 DEF MSInv

\* An exception: before the write that zeroes a mask the mask is as it was
\* found, and restore()'s caller keeps the copy.
LEMMA RaisingKeeps ==
    ASSUME MSInv, ReadRaises
    PROVE  BrokenOff'
<1>1. /\ at' = Undoing /\ pc' = "ready" /\ dead' /\ UNCHANGED <<i, f3, events, before>>
      /\ ~Resting
  BY DEF ReadRaises, Answer, modem, MSInv, LinkInv
<1>2. at' \in Lost
  BY <1>1 DEF Undoing, Lost
<1>3. MaskTypeOK'
  <2>1. CASE Saving
    <3>1. /\ saved' = [r \in Ranges |-> Unread] /\ evSaved' = Unread /\ ~zeroed'
      BY <2>1 DEF ReadRaises
    <3>2. QED
      BY <1>1, <3>1 DEF MSInv, MaskTypeOK
  <2>2. CASE ~Saving
    <3>1. UNCHANGED <<listing, saved, zeroed, evSaved>>
      BY <2>2 DEF ReadRaises, seen, flags
    <3>2. QED
      BY <1>1, <3>1 DEF MSInv, MaskTypeOK, Complete
  <2>3. QED
    BY <2>1, <2>2
<1>4. ListedBefore' = ListedBefore /\ EventsBefore' = EventsBefore
  BY <1>1 DEF ListedBefore, EventsBefore
<1>5. CASE at \in {"query", "get"}
  <2>1. ListedBefore /\ EventsBefore
    BY <1>5 DEF MSInv, F3Inv, EventInv, Reading
  <2>2. QED
    BY <1>1, <1>2, <1>3, <1>4, <2>1 DEF BrokenOff, ChangedIsSaved
<1>6. CASE at \in {"zero", "events", "events again"}
  <2>1. EventsBefore /\ at' = "zero lost"
    BY <1>1, <1>6 DEF MSInv, EventInv, Undoing
  <2>2. QED
    BY <1>1, <1>2, <1>3, <1>4, <2>1 DEF BrokenOff, ChangedIsSaved
<1>7. CASE at = "zero events"
  <2>1. at' = "event zero lost"
    BY <1>1, <1>7 DEF Undoing
  <2>2. QED
    BY <1>1, <1>2, <1>3, <2>1 DEF BrokenOff, ChangedIsSaved
<1>8. CASE ~Saving
  <2>1. UNCHANGED <<saved, evSaved>>
    BY <1>8 DEF ReadRaises, seen
  <2>2. Faithful \/ ListedBefore
    BY DEF MSInv, F3Inv
  <2>3. evSaved = before.events \/ EventsBefore
    BY DEF MSInv, EventInv
  <2>4. QED
    BY <1>1, <1>2, <1>3, <1>4, <2>1, <2>2, <2>3 DEF BrokenOff, ChangedIsSaved, Faithful
<1>9. QED
  BY <1>5, <1>6, <1>7, <1>8 DEF Saving

LEMMA NothingMoves ==
    ASSUME BrokenOff, [MaskNext]_maskVars
    PROVE  UNCHANGED maskVars
<1>1. at \in Lost /\ dead /\ pc = "ready"
  BY DEF BrokenOff
<1>2. ~ProgramStep
  BY <1>1 DEF Lost, ProgramStep, Start, AfterQuery, AfterGet, Zero, AfterZero, RetryEvents,
              ZeroEvents, AfterZeroEvents, Restore, AfterPut, AfterCheck, RestoreEvents,
              AfterPutEvents, AfterCheckEvents, EventsAnswered, Returned
<1>3. ~Receives /\ ~ReadRaises
  BY <1>1 DEF Receives, Fill, GiveUp, Dispatch, ReadRaises
<1>4. ~ModemObeys /\ ~ModemRefuses /\ ~LateAnswer /\ ~LinkEnds
  BY <1>1 DEF ModemObeys, ModemRefuses, LateAnswer, TimeoutPasses, LinkEnds, Hangup
<1>5. QED
  BY <1>2, <1>3, <1>4 DEF MaskNext, Done

LEMMA BrokenOffKeeps ==
    ASSUME BrokenOff, [MaskNext]_maskVars
    PROVE  BrokenOff'
<1>1. UNCHANGED maskVars
  BY NothingMoves
<1>2. /\ UNCHANGED <<at, dead, pc, i, listing, saved, zeroed, evSaved>>
      /\ UNCHANGED <<f3, events, before>>
  BY <1>1 DEF maskVars, link, program, modem, seen, flags
<1>3. MaskTypeOK' /\ ChangedIsSaved'
  BY <1>2 DEF BrokenOff, MaskTypeOK, Complete, ChangedIsSaved, ListedBefore, EventsBefore
<1>4. QED
  BY <1>2, <1>3 DEF BrokenOff

LEMMA StepKeeps == MSInv /\ [MaskNext]_maskVars => MaskInv'
<1> SUFFICES ASSUME MSInv, [MaskNext]_maskVars PROVE MaskInv'
  OBVIOUS
<1>1. CASE ProgramStep
  BY <1>1, StartKeeps, AfterQueryKeeps, AfterGetKeeps, ZeroKeeps, AfterZeroKeeps,
     RetryEventsKeeps, ZeroEventsKeeps, AfterZeroEventsKeeps, RestoreKeeps, AfterPutKeeps,
     AfterCheckKeeps, RestoreEventsKeeps, AfterPutEventsKeeps, RetryCheckKeeps,
     AfterCheckEventsKeeps
     DEF ProgramStep, MaskInv
<1>2. CASE Receives
  BY <1>2, ClientKeeps DEF MaskInv
<1>3. CASE ModemObeys
  BY <1>3, ObeysKeeps DEF MaskInv
<1>4. CASE ModemRefuses
  BY <1>4, RefusesKeeps DEF MaskInv
<1>5. CASE LateAnswer \/ LinkEnds
  BY <1>5, LateKeeps DEF MaskInv
<1>6. CASE UNCHANGED maskVars
  <2>1. UNCHANGED <<link, program, modem>>
    BY <1>6 DEF maskVars
  <2>2. UNCHANGED <<toModem, toHost, pend, dead, pc, req, answer, at, i, f3, events, before>>
    BY <2>1 DEF link, program, modem
  <2>3. LinkInv'
    BY <2>2 DEF MSInv, LinkInv, Resting, AskedOp
  <2>4. \A ops : Clear(ops)' = Clear(ops) /\ Waited(ops)' = Waited(ops)
    BY <2>2 DEF Clear, Waited, LastOnly, Unanswered, Drained
  <2>5. \A op, t : Carries(op, t)' = Carries(op, t)
    BY <2>2 DEF Carries
  <2>6. Drained' = Drained /\ NoWrites' = NoWrites
    BY <2>2 DEF Drained, NoWrites
  <2>7. Watched => Watched'
    BY <2>2, <2>4, <2>5 DEF Watched, Get
  <2>8. Carries("EVENT_GET", <<events>>) => Carries("EVENT_GET", <<events>>)'
    BY <2>2, <2>5
  <2>9. QED
    BY <2>1, <2>3, <2>4, <2>6, <2>7, <2>8, LinkKeeps DEF MaskInv
<1>7. CASE ReadRaises
  BY <1>7, RaisingKeeps DEF MaskInv
<1>8. QED
  BY <1>1, <1>2, <1>3, <1>4, <1>5, <1>6, <1>7 DEF MaskNext, Done

\* The invariant, for every number of ranges, every set of levels, every
\* number of refusals, lost answers and timeouts, and every end of the link.
THEOREM MaskInvariance == MaskSpec => []MaskInv
<1>1. MaskInit => MaskInv
  BY InitHolds DEF MaskInv
<1>2. MaskInv /\ [MaskNext]_maskVars => MaskInv'
  BY StepKeeps, BrokenOffKeeps DEF MaskInv
<1>3. QED
  BY <1>1, <1>2, PTL DEF MaskSpec

\* save_and_zero() never changes a mask it does not hold a true copy of, and
\* restore() leaves it at what the copy says or keeps the copy: at every moment
\* each of the two masks is as it was found, or the client knows how it was, or
\* the link ended on save_and_zero() after the write that zeroed the mask.
THEOREM ChangedAreSaved == MaskSpec => []ChangedIsSaved
<1>1. MaskInv => ChangedIsSaved
  BY DEF MaskInv, BrokenOff, MSInv, F3Inv, EventInv, ChangedIsSaved, Faithful
<1>2. QED
  BY <1>1, MaskInvariance, PTL

\* What restore() reports as verified is restored, whatever the modem refused,
\* ignored or answered late: the readback it compares is the answer to its own
\* request, and nothing that could change the mask is still under way.
THEOREM VerifiedAreRestored == MaskSpec => []VerifiedIsRestored
<1>1. MaskInv => VerifiedIsRestored
  BY DEF MaskInv, BrokenOff, Lost, MSInv, F3Inv, EventInv, VerifiedIsRestored
<1>2. QED
  BY <1>1, MaskInvariance, PTL

-----------------------------------------------------------------------------
(* Runs without refusals and timeouts.                                     *)

\* The request at hand before and after the modem has done it.
Undone  == toModem = <<req>> /\ toHost = <<>> /\ pend = <<>>
DoneNow ==
    /\ toModem = <<>>
    /\ \/ toHost = <<Reply(req)>> /\ pend = <<>>
       \/ toHost = <<>> /\ pend = <<Reply(req)>>

Prompt ==
    /\ pc = "wait" => ~late /\ (Undone \/ DoneNow)
    /\ pc = "ready" => Drained /\ (Resting \/ answer = Reply(req))

\* The first n ranges are what was saved.
Levelled(n) == \A x \in 1 .. n : f3[x] = saved[x]

Healthy ==
    /\ Prompt
    /\ same /\ f3Ok /\ evOk
    /\ at \notin {"events again", "check events again"}
    /\ ~zeroed /\ at # "zero" => ListedBefore
    /\ ~evZeroed /\ at # "zero events" => EventsBefore
    /\ at \in {"saved", "zero", "events", "zero events", "run"} => i = 1
    /\ at = "put" => /\ req = SetRange(i, saved[i]) /\ Levelled(i - 1)
                     /\ toModem = <<>> => f3[i] = saved[i]
    /\ at = "put all" => /\ req = SetAll(saved[1]) /\ OneSetAllDoes
                         /\ toModem = <<>> => Levelled(Listed)
    /\ at = "check" => req = Get(i) /\ Levelled(Listed)
    /\ at = "put events" => req = EventSet(evSaved) /\ (toModem = <<>> => events = evSaved)
    /\ at = "check events" => events = evSaved

HealthyInv == faults \in Nat /\ (MSInv /\ faults = 0 => Healthy)

LEMMA HealthyClient ==
    ASSUME MSInv, Healthy, Receives
    PROVE  Healthy'
<1>0. (Fill \/ GiveUp \/ Dispatch) /\ UNCHANGED <<program, modem>>
  BY DEF Receives
<1>1. /\ UNCHANGED <<at, i, saved, listing, zeroed, evSaved, evZeroed, same, f3Ok, evOk>>
      /\ UNCHANGED <<f3, events, before>> /\ UNCHANGED <<toModem, req, late>>
  BY <1>0 DEF program, seen, flags, verdict, modem, Fill, GiveUp, Dispatch
<1>2. pc = "wait" /\ ~late /\ (Undone \/ DoneNow) /\ ~Resting
  BY <1>0 DEF Healthy, Prompt, MSInv, LinkInv, Fill, GiveUp, Dispatch
<1>3. Reply(req)' = Reply(req)
  BY <1>1 DEF Reply
<1>4. req \in Requests /\ Reply(req).op = req.op /\ req.match = FALSE
  BY <1>2, ReplyIs DEF MSInv, LinkInv
<1> DEFINE f == Reply(req)
<1>5. f' = f /\ f.op = req.op
  BY <1>3, <1>4
<1> HIDE DEF f
<1>6. Len(<<f>>) = 1 /\ <<f>> # <<>> /\ Head(<<f>>) = f /\ Tail(<<f>>) = <<>>
  OBVIOUS
<1>7. Prompt'
  <2>1. CASE Fill
    <3>1. /\ pend = <<>> /\ toHost # <<>> /\ pend' = toHost /\ toHost' = <<>> /\ UNCHANGED pc
      BY <2>1 DEF Fill
    <3>2. toModem = <<>> /\ toHost = <<f>>
      BY <1>2, <3>1 DEF Undone, DoneNow, f
    <3>3. DoneNow'
      BY <1>1, <1>3, <3>1, <3>2 DEF DoneNow, f
    <3>4. QED
      BY <1>1, <1>2, <3>1, <3>3 DEF Prompt
  <2>2. CASE GiveUp
    BY <1>2, <2>2 DEF GiveUp
  <2>3. CASE Dispatch
    <3>1. pend # <<>> /\ pend' = Tail(pend) /\ UNCHANGED toHost
      BY <2>3 DEF Dispatch
    <3>2. toModem = <<>> /\ toHost = <<>> /\ pend = <<f>>
      BY <1>2, <3>1 DEF Undone, DoneNow, f
    <3>3. Matches(Head(pend)) /\ Head(pend) = f
      BY <1>4, <1>5, <1>6, <3>2 DEF Matches
    <3>4. pc' = "ready" /\ answer' = f
      BY <2>3, <3>3 DEF Dispatch, Answer
    <3>5. Drained' /\ answer' = Reply(req)'
      BY <1>1, <1>3, <1>6, <3>1, <3>2, <3>4 DEF Drained, f
    <3>6. QED
      BY <3>4, <3>5 DEF Prompt
  <2>4. QED
    BY <1>0, <2>1, <2>2, <2>3
<1>8. QED
  BY <1>1, <1>7 DEF Healthy, Levelled, ListedBefore, EventsBefore, OneSetAllDoes, Complete,
                    SetRange, SetAll, Get, EventSet

\* The modem does the request at hand, and answers it the same afterwards.
LEMMA HealthyModem ==
    ASSUME MSInv, Healthy, ModemObeys
    PROVE  Healthy'
<1>1. /\ toModem # <<>> /\ UNCHANGED program
      /\ ModemAnswers(<<Reply(Head(toModem))>>) /\ Apply(Head(toModem))
  BY DEF ModemObeys
<1>2. pc = "wait" /\ ~late /\ toModem = <<req>> /\ toHost = <<>> /\ pend = <<>> /\ ~Resting
  BY <1>1 DEF Healthy, Prompt, Undone, DoneNow, Drained, MSInv, LinkInv
<1>3. Head(toModem) = req /\ Tail(toModem) = <<>>
  BY <1>2
<1>4. /\ toModem' = <<>> /\ toHost' = <<>> \o <<Reply(req)>>
      /\ UNCHANGED <<pend, pc, req, late>> /\ Apply(req)
  BY <1>1, <1>2, <1>3 DEF ModemAnswers
<1>5. /\ UNCHANGED <<at, i, saved, listing, zeroed, evSaved, evZeroed, same, f3Ok, evOk>>
      /\ UNCHANGED before
  BY <1>1, <1>4 DEF program, seen, flags, verdict, Apply
<1>6. req \in Requests /\ req.op = AskedOp
  BY <1>2 DEF MSInv, LinkInv
<1>7. /\ req.op = "EXT_MSG" /\ req.sub = "GET" => UNCHANGED f3
      /\ req.op = "EVENT_GET" => UNCHANGED events
  BY <1>4 DEF Apply
<1>8. Reply(req)' = Reply(req)
  BY <1>4, <1>7 DEF Reply
<1>9. Prompt'
  <2> DEFINE f == Reply(req)
  <2>1. toHost' = <<>> \o <<f>> /\ f' = f
    BY <1>4, <1>8
  <2> HIDE DEF f
  <2>2. <<>> \o <<f>> = <<f>>
    OBVIOUS
  <2>3. DoneNow'
    BY <1>2, <1>4, <1>8, <2>1, <2>2 DEF DoneNow, f
  <2>4. QED
    BY <1>2, <1>4, <2>3 DEF Prompt
\* What the request changes, by where the program is.
<1>10. ~F3Writes(req) => UNCHANGED f3
  BY <1>4 DEF Apply, F3Writes
<1>11. req.op # "EVENT_SET" => UNCHANGED events
  BY <1>4 DEF Apply
<1>12. at \notin {"zero", "put", "put all"} => ~F3Writes(req)
  <2>1. CASE at = "check"
    BY <2>1, TheGet DEF Healthy, F3Writes, MSInv, MaskTypeOK
  <2>2. CASE Reading
    <3>1. 1 \in 1 .. Len(toModem) /\ toModem[1] = req
      BY <1>2
    <3>2. QED
      BY <2>2, <3>1 DEF MSInv, F3Inv, NoWrites
  <2>3. CASE at \notin {"zero", "put", "put all", "check"} /\ ~Reading
    BY <1>6, <2>3 DEF AskedOp, Reading, F3Writes
  <2>4. QED
    BY <2>1, <2>2, <2>3
<1>13. at \notin {"zero events", "put events"} => UNCHANGED events
  BY <1>6, <1>11 DEF AskedOp
<1>14. at \in {"put", "put all", "check"} => zeroed /\ Complete
  BY DEF MSInv, F3Inv
<1>15. at = "put events" => evZeroed
  BY DEF MSInv, EventInv
<1>16. ~zeroed /\ at # "zero" => ListedBefore'
  BY <1>5, <1>10, <1>12, <1>14 DEF Healthy, ListedBefore
<1>17. ~evZeroed /\ at # "zero events" => EventsBefore'
  BY <1>5, <1>13, <1>15 DEF Healthy, EventsBefore
<1>18. f3 \in [Ranges \cup {Hidden} -> Levels] /\ i \in Ranges /\ Listed \in Nat
       /\ i \in Nat /\ Ranges = 1 .. Listed
  BY MaskAssumption DEF MSInv, MaskTypeOK, Ranges
<1>19. ASSUME at = "put"
       PROVE  req' = SetRange(i, saved[i])' /\ Levelled(i - 1)' /\ f3'[i] = saved'[i]
  <2> DEFINE l == saved[i]
  <2>1. req = SetRange(i, l) /\ Levelled(i - 1) /\ l \in Levels
    BY <1>14, <1>18, <1>19, Restoring DEF Healthy
  <2> HIDE DEF l
  <2>2. req.op = "EXT_MSG" /\ req.sub = "SET" /\ req.body = <<i, l>>
    BY <1>18, <2>1, TheSetRange
  <2>3. f3' = [f3 EXCEPT ![i] = l]
    BY <1>4, <2>2 DEF Apply
  <2>4. f3'[i] = l /\ \A x \in 1 .. i - 1 : f3'[x] = f3[x]
    BY <1>18, <2>3
  <2>5. QED
    BY <1>4, <1>5, <2>1, <2>4 DEF Levelled, SetRange, l
<1>20. ASSUME at = "put all" PROVE req' = SetAll(saved[1])' /\ OneSetAllDoes' /\ Levelled(Listed)'
  <2> DEFINE l == saved[1]
  <2>1. /\ req = SetAll(l) /\ OneSetAllDoes /\ l \in Levels
        /\ Stored[l] = l /\ \A x \in Ranges : saved[x] = l
    BY <1>14, <1>20, Restoring, RangesAre DEF Healthy, OneSetAllDoes
  <2> HIDE DEF l
  <2>2. req.op = "EXT_MSG" /\ req.sub = "SET_ALL" /\ req.body = <<l>>
    BY <2>1, TheSetAll
  <2>3. f3' = [x \in DOMAIN f3 |-> l]
    BY <1>4, <2>1, <2>2 DEF Apply
  <2>4. \A x \in 1 .. Listed : f3'[x] = saved[x]
    BY <1>18, <2>1, <2>3
  <2>5. OneSetAllDoes'
    BY <1>5, <2>1 DEF OneSetAllDoes, Complete
  <2>6. QED
    BY <1>4, <1>5, <2>1, <2>4, <2>5 DEF Levelled, SetAll, l
<1>21. ASSUME at = "check" PROVE req' = Get(i)' /\ Levelled(Listed)'
  BY <1>4, <1>5, <1>10, <1>12, <1>21 DEF Healthy, Get, Levelled
<1>22. ASSUME at = "put events" PROVE req' = EventSet(evSaved)' /\ events' = evSaved'
  <2>1. req = EventSet(evSaved) /\ evSaved \in Levels
    BY <1>22 DEF Healthy, MSInv, EventInv, LinkInv
  <2>2. req.op = "EVENT_SET" /\ req.body = <<evSaved>>
    BY <2>1, TheEventSet
  <2>3. events' = evSaved
    BY <1>4, <2>2 DEF Apply
  <2>4. QED
    BY <1>4, <1>5, <2>1, <2>3 DEF EventSet
<1>23. at = "check events" => events' = evSaved'
  BY <1>5, <1>13 DEF Healthy
<1>24. same' /\ f3Ok' /\ evOk' /\ at' \notin {"events again", "check events again"}
  BY <1>5 DEF Healthy
<1>25. at' \in {"saved", "zero", "events", "zero events", "run"} => i' = 1
  BY <1>5 DEF Healthy
<1>26. QED
  BY <1>5, <1>25, <1>9, <1>16, <1>17, <1>19, <1>20, <1>21, <1>22, <1>23, <1>24 DEF Healthy

\* A request of the program finds the link empty ...
LEMMA HealthyAsk ==
    ASSUME MSInv, Healthy, pc = "ready", NEW r, r \in Requests, SendRecv(r)
    PROVE  Prompt' /\ toModem' # <<>> /\ req' = r
<1>1. Drained
  BY DEF Healthy, Prompt
<1>2. toModem' = Append(<<>>, r) /\ toHost' = <<>> /\ pend' = <<>>
      /\ req' = r /\ pc' = "wait" /\ late' = FALSE
  BY <1>1 DEF SendRecv, Drained
<1>3. Append(<<>>, r) = <<r>> /\ <<r>> # <<>>
  OBVIOUS
<1>4. QED
  BY <1>2, <1>3 DEF Prompt, Undone

\* ... and so does a step without one.
LEMMA HealthyGo ==
    ASSUME Healthy, pc = "ready", UNCHANGED link, Resting'
    PROVE  Prompt'
<1>1. UNCHANGED <<toModem, toHost, pend, pc>>
  BY DEF link
<1>2. QED
  BY <1>1 DEF Healthy, Prompt, Drained

LEMMA HealthyAnswer ==
    ASSUME MSInv, Healthy, pc = "ready", ~Resting
    PROVE  /\ answer.op = AskedOp /\ ~Refused /\ answer # NoReply
           /\ req \in Requests /\ answer = Reply(req)
<1>1. answer = Reply(req) /\ req \in Requests /\ req.op = AskedOp
  BY DEF Healthy, Prompt, MSInv, LinkInv
<1>2. answer.op = AskedOp /\ answer.op \in Kinds \ {"BAD_CMD"}
  BY <1>1, ReplyIs, RequestIs DEF MSInv
<1>3. answer.op # "none"
  BY <1>2 DEF Kinds
<1>4. QED
  BY <1>1, <1>2, <1>3, NoneIsNoReply DEF Refused

LEMMA NextRange ==
    ASSUME MSInv, i < LastRead
    PROVE  i + 1 \in Ranges
<1>1. Listed \in Nat \ {0} /\ i \in 1 .. Listed
  BY MaskAssumption DEF MSInv, MaskTypeOK, Ranges
<1>2. LastRead \in 1 .. Listed
  BY <1>1 DEF LastRead
<1>3. QED
  BY <1>1, <1>2 DEF Ranges

LEMMA HealthySave ==
    ASSUME MSInv, Healthy,
           \/ Start \/ AfterQuery \/ AfterGet \/ Zero \/ AfterZero
           \/ RetryEvents("events", "events again") \/ ZeroEvents \/ AfterZeroEvents
    PROVE  Healthy'
<1>1. UNCHANGED <<same, f3Ok, evOk>> /\ UNCHANGED modem
  BY DEF Start, AfterQuery, AfterGet, Zero, AfterZero, RetryEvents, ZeroEvents, AfterZeroEvents,
         Ask, Goto, verdict
<1>2. at \in {"start", "query", "get", "saved"} => ~zeroed /\ ~evZeroed
  BY DEF MSInv, F3Inv, EventInv, Reading
<1>3. EventGet \in Requests /\ Query \in Requests /\ EventSet(0) \in Requests
      /\ SetAll(0) \in Requests /\ Get(1) \in Requests
  BY EventOpsAre, LevelsAreNat, RangesAre, TheQuery, TheSetAll, TheGet
<1>4. ASSUME pc = "ready", ~Resting PROVE ~Refused /\ answer.op = AskedOp /\ answer # NoReply
  BY <1>4, HealthyAnswer
<1>5. Resting => pc = "ready"
  BY DEF MSInv, LinkInv
<1>6. CASE Start
  BY <1>1, <1>2, <1>3, <1>5, <1>6, HealthyAsk, SameMasks
     DEF Start, Ask, Healthy, Resting, seen, flags
<1>7. CASE AfterQuery
  BY <1>1, <1>2, <1>3, <1>7, HealthyAsk, SameMasks DEF AfterQuery, Ask, Returned, Healthy, flags
<1>8. CASE AfterGet
  <2>1. at = "get" /\ pc = "ready" /\ UNCHANGED <<zeroed, evZeroed>> /\ at' \in {"get", "saved"}
        /\ (at' = "saved" => i' = 1)
    BY <1>8 DEF AfterGet, Ask, Goto, Returned, flags
  <2>2. Prompt'
    <3>1. CASE i < LastRead
      <4>1. Get(i + 1) \in Requests /\ SendRecv(Get(i + 1))
        BY <1>8, <3>1, NextRange, TheGet DEF AfterGet, Ask
      <4>2. QED
        BY <2>1, <4>1, HealthyAsk
    <3>2. CASE ~(i < LastRead)
      BY <1>8, <2>1, <3>2, HealthyGo DEF AfterGet, Goto, Resting
    <3>3. QED
      BY <3>1, <3>2
  <2>3. QED
    BY <1>1, <1>2, <2>1, <2>2, SameMasks DEF Healthy
<1>9. CASE Zero
  <2>1. at = "saved" /\ UNCHANGED <<i, zeroed, evZeroed>> /\ at' \in {"zero", "events"}
        /\ (SendRecv(SetAll(0)) \/ SendRecv(EventGet))
    BY <1>9 DEF Zero, Ask, flags
  <2>2. Prompt'
    BY <1>3, <1>5, <2>1, HealthyAsk DEF Resting
  <2>3. QED
    BY <1>1, <1>2, <2>1, <2>2, SameMasks DEF Healthy
<1>10. CASE AfterZero
  <2>1. at = "zero" /\ pc = "ready" /\ ~Resting /\ at' = "events" /\ SendRecv(EventGet)
        /\ UNCHANGED <<i, evZeroed>> /\ zeroed' = ~Refused
    BY <1>10 DEF AfterZero, Ask, Returned, Resting
  <2>2. zeroed' /\ Prompt'
    BY <1>3, <1>4, <2>1, HealthyAsk
  <2>3. QED
    BY <1>1, <2>1, <2>2, SameMasks DEF Healthy
<1>11. CASE RetryEvents("events", "events again")
  BY <1>4, <1>11 DEF RetryEvents, Returned, Resting
<1>12. CASE ZeroEvents
  <2>1. at = "events" /\ pc = "ready" /\ UNCHANGED <<i, zeroed, evZeroed>>
    BY <1>12 DEF ZeroEvents, EventsAnswered, Returned, Ask, Goto, flags, Healthy
  <2>2. at' \in {"zero events", "run"} /\ Prompt'
    BY <1>3, <1>12, <2>1, HealthyAsk, HealthyGo DEF ZeroEvents, Ask, Goto, Resting
  <2>3. QED
    BY <1>1, <2>1, <2>2, SameMasks DEF Healthy
<1>13. CASE AfterZeroEvents
  <2>1. at = "zero events" /\ pc = "ready" /\ ~Resting /\ at' = "run" /\ UNCHANGED <<i, zeroed>>
        /\ UNCHANGED link /\ evZeroed' = (answer.op = "EVENT_SET")
    BY <1>13 DEF AfterZeroEvents, Returned, Goto, Resting
  <2>2. evZeroed' /\ Prompt'
    BY <1>4, <2>1, HealthyGo DEF AskedOp, Resting
  <2>3. QED
    BY <1>1, <2>1, <2>2, SameMasks DEF Healthy
<1>14. QED
  BY <1>6, <1>7, <1>8, <1>9, <1>10, <1>11, <1>12, <1>13

LEMMA HealthyRestore ==
    ASSUME MSInv, Healthy, Restore \/ AfterPut \/ AfterCheck
    PROVE  Healthy'
<1>1. /\ UNCHANGED <<listing, saved, zeroed, evSaved, evZeroed, evOk>> /\ UNCHANGED modem
      /\ at \in {"run", "put", "put all", "check"}
  BY DEF Restore, AfterPut, AfterCheck, Ask, Goto, Returned, seen, flags, verdict
<1>2. /\ ~zeroed => ListedBefore
      /\ ~evZeroed => EventsBefore
  BY <1>1 DEF Healthy
<1>3. zeroed => Complete /\ \A x \in Ranges : saved[x] \in Levels
  BY <1>1, Restoring
<1>4. /\ i \in Ranges /\ i \in Nat /\ Listed \in Nat /\ Ranges = 1 .. Listed
      /\ 1 \in Ranges
  BY MaskAssumption DEF MSInv, MaskTypeOK, Ranges
<1>5. i # Listed \/ i - 1 = Listed - 1
  OBVIOUS
<1>6. \A x \in 1 .. 1 - 1 : FALSE
  OBVIOUS
<1>7. f3' = f3 /\ ListedBefore' = ListedBefore /\ EventsBefore' = EventsBefore
      /\ Complete' = Complete /\ saved' = saved
  BY <1>1, SameMasks
<1>8. CASE Restore
  <2>1. at = "run" /\ pc = "ready" /\ UNCHANGED <<i, same, f3Ok>>
    BY <1>8 DEF Restore, Ask, Goto, verdict, MSInv, LinkInv, Resting
  <2>2. i = 1
    BY <2>1 DEF Healthy
  <2>3. CASE ~zeroed
    <3>1. at' = "f3 done" /\ Prompt'
      BY <1>8, <2>1, <2>3, HealthyGo DEF Restore, Goto, Resting
    <3>2. QED
      BY <1>1, <1>2, <1>7, <2>1, <3>1 DEF Healthy
  <2>4. CASE zeroed /\ OneSetAllDoes
    <3>1. at' = "put all" /\ SendRecv(SetAll(saved[1]))
      BY <1>8, <2>4 DEF Restore, Ask
    <3>2. Prompt' /\ toModem' # <<>> /\ req' = SetAll(saved[1])
      BY <1>3, <1>4, <2>1, <2>4, <3>1, HealthyAsk, TheSetAll
    <3>3. OneSetAllDoes'
      BY <1>7, <2>4 DEF OneSetAllDoes
    <3>4. QED
      BY <1>1, <1>2, <1>7, <2>1, <3>1, <3>2, <3>3 DEF Healthy, SetAll
  <2>5. CASE zeroed /\ ~OneSetAllDoes
    <3>1. at' = "put" /\ SendRecv(SetRange(1, saved[1]))
      BY <1>8, <2>5 DEF Restore, Ask
    <3>2. Prompt' /\ toModem' # <<>> /\ req' = SetRange(1, saved[1])
      BY <1>3, <1>4, <2>1, <2>5, <3>1, HealthyAsk, TheSetRange
    <3>3. Levelled(i - 1)'
      BY <1>6, <2>1, <2>2 DEF Levelled
    <3>4. QED
      BY <1>1, <1>2, <1>7, <2>1, <2>2, <3>1, <3>2, <3>3 DEF Healthy, SetRange
  <2>6. QED
    BY <2>3, <2>4, <2>5
<1>9. CASE AfterPut
  <2>1. /\ at \in {"put", "put all"} /\ pc = "ready" /\ ~Resting /\ UNCHANGED same
    BY <1>9 DEF AfterPut, Ask, Goto, Returned, verdict, Resting
  <2>2. ~Refused /\ zeroed /\ toModem = <<>>
    BY <2>1, HealthyAnswer DEF MSInv, F3Inv, Healthy, Prompt, Drained
  <2>3. UNCHANGED f3Ok
    BY <1>9, <2>2 DEF AfterPut, Ask, verdict
  <2>4. CASE at = "put" /\ i < Listed
    <3> DEFINE l == saved[i + 1]
    <3>1. i + 1 \in Ranges /\ i + 1 - 1 = i
      BY <1>4, <2>4
    <3>2. at' = "put" /\ i' = i + 1 /\ SendRecv(SetRange(i + 1, l))
      BY <1>9, <2>2, <2>4 DEF AfterPut, Ask
    <3>3. l \in Levels
      BY <1>3, <2>2, <3>1
    <3>4. Prompt' /\ toModem' # <<>> /\ req' = SetRange(i + 1, l)
      BY <2>1, <3>1, <3>2, <3>3, HealthyAsk, TheSetRange
    <3>5. \A x \in 1 .. i : x \in 1 .. i - 1 \/ x = i
      BY <1>4
    <3>6. Levelled(i)
      BY <2>2, <2>4, <3>5 DEF Healthy, Levelled
    <3>7. Levelled(i - 1)'
      <4>1. (i - 1)' = i
        <5>1. i' = i + 1 /\ i \in Nat
          BY <1>4, <3>2
        <5>2. QED
          BY <5>1
      <4>2. \A x \in 1 .. (i - 1)' : f3'[x] = saved'[x]
        BY <1>7, <3>6, <4>1 DEF Levelled
      <4>3. QED
        BY <4>2 DEF Levelled
    <3>8. QED
      BY <1>1, <1>2, <1>7, <2>1, <2>3, <3>2, <3>4, <3>7 DEF Healthy, SetRange
  <2>5. CASE ~(at = "put" /\ i < Listed)
    <3>1. at' = "check" /\ i' = 1 /\ SendRecv(Get(1))
      BY <1>9, <2>2, <2>5 DEF AfterPut, Ask
    <3>2. Prompt' /\ req' = Get(1)
      BY <1>4, <2>1, <3>1, HealthyAsk, TheGet
    <3>3. Levelled(Listed)
      <4>1. CASE at = "put all"
        BY <2>2, <4>1 DEF Healthy
      <4>2. CASE at = "put"
        <5>1. i = Listed /\ \A x \in 1 .. Listed : x \in 1 .. i - 1 \/ x = i
          BY <1>4, <2>5, <4>2
        <5>2. QED
          BY <2>2, <4>2, <5>1 DEF Healthy, Levelled
      <4>3. QED
        BY <2>1, <4>1, <4>2
    <3>4. QED
      BY <1>1, <1>2, <1>7, <2>1, <2>3, <3>1, <3>2, <3>3 DEF Healthy, Levelled, Get
  <2>6. QED
    BY <2>4, <2>5
<1>10. CASE AfterCheck
  <2>1. /\ at = "check" /\ pc = "ready" /\ ~Resting /\ same' = Agrees
        /\ req = Get(i) /\ Levelled(Listed) /\ zeroed
    BY <1>10 DEF AfterCheck, Returned, Resting, Healthy, MSInv, F3Inv
  <2>2. answer = Reply(Get(i)) /\ Reply(Get(i)).body = <<i, f3[i]>>
        /\ answer.op = "EXT_MSG" /\ answer.sub = "GET"
    BY <1>4, <2>1, HealthyAnswer, TheGet, ReplyIs DEF MSInv
  <2>3. LevelRead = f3[i]
    BY <2>2 DEF LevelRead
  <2>4. Agrees
    BY <1>4, <2>1, <2>3 DEF Agrees, Levelled, Healthy
  <2>5. CASE i < Listed
    <3>1. i + 1 \in Ranges
      BY <1>4, <2>5
    <3>2. at' = "check" /\ i' = i + 1 /\ SendRecv(Get(i + 1)) /\ UNCHANGED f3Ok
      BY <1>10, <2>5 DEF AfterCheck, Ask
    <3>3. Prompt' /\ req' = Get(i + 1)
      BY <2>1, <3>1, <3>2, HealthyAsk, TheGet
    <3>4. QED
      BY <1>1, <1>2, <1>7, <2>1, <2>4, <3>2, <3>3 DEF Healthy, Levelled, Get
  <2>6. CASE ~(i < Listed)
    <3>1. at' = "f3 done" /\ f3Ok' = Agrees /\ UNCHANGED link
      BY <1>10, <2>6 DEF AfterCheck, Goto
    <3>2. Prompt'
      BY <2>1, <3>1, HealthyGo DEF Resting
    <3>3. QED
      BY <1>1, <1>2, <1>7, <2>1, <2>4, <3>1, <3>2 DEF Healthy
  <2>7. QED
    BY <2>5, <2>6
<1>11. QED
  BY <1>8, <1>9, <1>10

LEMMA HealthyRestoreEvents ==
    ASSUME MSInv, Healthy,
           RestoreEvents \/ AfterPutEvents
               \/ RetryEvents("check events", "check events again") \/ AfterCheckEvents
    PROVE  Healthy'
<1>1. UNCHANGED <<zeroed, evSaved, evZeroed, same, f3Ok>> /\ UNCHANGED modem
  BY DEF RestoreEvents, AfterPutEvents, RetryEvents, AfterCheckEvents, Ask, Goto, seen, flags,
         verdict
<1>2. /\ UNCHANGED events
      /\ ListedBefore' = ListedBefore /\ EventsBefore' = EventsBefore
  BY <1>1, SameMasks
<1>3. CASE RestoreEvents
  <2>1. at = "f3 done" /\ pc = "ready" /\ UNCHANGED evOk
    BY <1>3 DEF RestoreEvents, Ask, Goto, verdict, MSInv, LinkInv, Resting
  <2>2. CASE evZeroed
    <3>1. at' = "put events" /\ SendRecv(EventSet(evSaved)) /\ evSaved \in Levels
      BY <1>3, <2>1, <2>2, Restoring DEF RestoreEvents, Ask
    <3>2. Prompt' /\ toModem' # <<>> /\ req' = EventSet(evSaved)
      BY <2>1, <3>1, HealthyAsk, EventOpsAre
    <3>3. QED
      BY <1>1, <1>2, <2>1, <3>1, <3>2 DEF Healthy, EventSet
  <2>3. CASE ~evZeroed
    <3>1. at' = "done" /\ Prompt'
      BY <1>3, <2>1, <2>3, HealthyGo DEF RestoreEvents, Goto, Resting
    <3>2. QED
      BY <1>1, <1>2, <2>1, <3>1 DEF Healthy
  <2>4. QED
    BY <2>2, <2>3
<1>4. CASE AfterPutEvents
  <2>1. at = "put events" /\ pc = "ready" /\ ~Resting
    BY <1>4 DEF AfterPutEvents, Returned, Resting
  <2>2. answer.op = "EVENT_SET" /\ events = evSaved
    BY <2>1, HealthyAnswer DEF AskedOp, Healthy, Prompt, Drained
  <2>3. at' = "check events" /\ SendRecv(EventGet) /\ UNCHANGED evOk
    BY <1>4, <2>2 DEF AfterPutEvents, Ask, verdict
  <2>4. Prompt'
    BY <2>1, <2>3, HealthyAsk, EventOpsAre
  <2>5. QED
    BY <1>1, <1>2, <2>1, <2>2, <2>3, <2>4 DEF Healthy
<1>5. CASE RetryEvents("check events", "check events again")
  <2>1. at = "check events" /\ pc = "ready" /\ ~Resting /\ answer = NoReply
    BY <1>5 DEF RetryEvents, Returned, Resting
  <2>2. QED
    BY <2>1, HealthyAnswer
<1>6. CASE AfterCheckEvents
  <2>1. /\ at = "check events" /\ pc = "ready" /\ ~Resting /\ at' = "done"
        /\ evOk' = (EventsRead = evSaved) /\ UNCHANGED link
    BY <1>6 DEF AfterCheckEvents, EventsAnswered, Returned, Goto, Healthy, Resting
  <2>2. answer = Reply(req) /\ req \in Requests /\ answer.op = "EVENT_GET"
    BY <2>1, HealthyAnswer DEF AskedOp
  <2>3. answer.body = <<events>>
    BY <2>2, ReplyIs DEF MSInv
  <2>4. EventsRead = events
    <3>1. <<events>>[1] = events
      OBVIOUS
    <3>2. QED
      BY <2>2, <2>3, <3>1, Zenon DEF EventsRead
  <2>5. evOk' /\ Prompt'
    BY <2>1, <2>4, HealthyGo DEF Healthy, Resting
  <2>6. QED
    BY <1>1, <1>2, <2>1, <2>5 DEF Healthy
<1>7. QED
  BY <1>3, <1>4, <1>5, <1>6

LEMMA HealthyInit == MaskInit => HealthyInv
<1> SUFFICES ASSUME MaskInit PROVE HealthyInv
  OBVIOUS
<1>1. /\ toModem = <<>> /\ toHost = <<>> /\ pend = <<>> /\ pc = "ready"
      /\ at = "start" /\ same = TRUE /\ f3Ok = TRUE /\ evOk = TRUE
      /\ before = [f3 |-> f3, events |-> events] /\ faults = 0
  BY DEF MaskInit, LinkInit
<1>2. Prompt
  BY <1>1 DEF Prompt, Drained, Resting
<1>3. ListedBefore /\ EventsBefore
  BY <1>1 DEF ListedBefore, EventsBefore
<1>4. QED
  BY <1>1, <1>2, <1>3 DEF HealthyInv, Healthy

LEMMA HealthyStep == MSInv /\ HealthyInv /\ [MaskNext]_maskVars => HealthyInv'
<1> SUFFICES ASSUME MSInv, HealthyInv, [MaskNext]_maskVars PROVE HealthyInv'
  OBVIOUS
<1>1. faults \in Nat /\ (faults = 0 => Healthy)
  BY DEF HealthyInv
<1>2. CASE ProgramStep
  <2>1. UNCHANGED faults
    BY <1>2 DEF ProgramStep, Start, AfterQuery, AfterGet, Zero, AfterZero, RetryEvents,
                ZeroEvents, AfterZeroEvents, Restore, AfterPut, AfterCheck, RestoreEvents,
                AfterPutEvents, AfterCheckEvents, Ask, Goto
  <2>2. Healthy => Healthy'
    BY <1>2, HealthySave, HealthyRestore, HealthyRestoreEvents DEF ProgramStep
  <2>3. QED
    BY <1>1, <2>1, <2>2 DEF HealthyInv
<1>3. CASE Receives
  BY <1>1, <1>3, HealthyClient DEF HealthyInv, Receives
<1>4. CASE ModemObeys
  BY <1>1, <1>4, HealthyModem DEF HealthyInv, ModemObeys
<1>5. CASE ModemRefuses
  <2>1. faults' = faults + 1
    BY <1>5 DEF ModemRefuses
  <2>2. QED
    BY <1>1, <2>1 DEF HealthyInv
<1>6. CASE LateAnswer
  <2>1. faults' = faults + 1 \/ (faults' = faults /\ toModem \o toHost \o pend = <<>>)
    BY <1>6 DEF LateAnswer
  <2>2. ASSUME faults = 0 PROVE toModem \o toHost \o pend # <<>>
    <3>1. Undone \/ DoneNow
      BY <1>1, <1>6, <2>2 DEF LateAnswer, TimeoutPasses, Healthy, Prompt
    <3>2. \A x : /\ <<x>> \o <<>> \o <<>> # <<>> /\ <<>> \o <<x>> \o <<>> # <<>>
                 /\ <<>> \o <<>> \o <<x>> # <<>>
      OBVIOUS
    <3> DEFINE f == Reply(req)
    <3>3. \/ toModem = <<req>> /\ toHost = <<>> /\ pend = <<>>
          \/ toModem = <<>> /\ toHost = <<f>> /\ pend = <<>>
          \/ toModem = <<>> /\ toHost = <<>> /\ pend = <<f>>
      BY <3>1 DEF Undone, DoneNow
    <3> HIDE DEF f
    <3>4. QED
      BY <3>2, <3>3, Zenon
  <2>3. QED
    BY <1>1, <2>1, <2>2 DEF HealthyInv
<1>7. CASE UNCHANGED maskVars
  <2>1. UNCHANGED <<toModem, toHost, pend, pc, req, late, answer>>
        /\ UNCHANGED <<at, i, listing, saved, zeroed, evSaved, evZeroed, same, f3Ok, evOk>>
        /\ UNCHANGED <<f3, events, before, faults>>
    BY <1>7 DEF maskVars, link, program, seen, flags, verdict, modem
  <2>2. Prompt' = Prompt
    BY <2>1 DEF Prompt, Undone, DoneNow, Drained, Resting, Reply
  <2>3. Healthy' = Healthy
    BY <2>1, <2>2 DEF Healthy, Levelled, ListedBefore, EventsBefore, OneSetAllDoes, Complete,
                      SetRange, SetAll, Get, EventSet
  <2>4. QED
    BY <1>1, <2>1, <2>3 DEF HealthyInv
<1>8. CASE LinkEnds
  <2>1. UNCHANGED <<toModem, toHost, pend, pc, req, late, answer>>
        /\ UNCHANGED <<at, i, listing, saved, zeroed, evSaved, evZeroed, same, f3Ok, evOk>>
        /\ UNCHANGED <<f3, events, before, faults>>
    BY <1>8 DEF LinkEnds, Hangup, program, seen, flags, verdict, modem
  <2>2. Prompt' = Prompt
    BY <2>1 DEF Prompt, Undone, DoneNow, Drained, Resting, Reply
  <2>3. Healthy' = Healthy
    BY <2>1, <2>2 DEF Healthy, Levelled, ListedBefore, EventsBefore, OneSetAllDoes, Complete,
                      SetRange, SetAll, Get, EventSet
  <2>4. QED
    BY <1>1, <2>1, <2>3 DEF HealthyInv
<1>9. CASE ReadRaises
  <2>1. BrokenOff' /\ UNCHANGED faults
    BY <1>9, RaisingKeeps DEF ReadRaises
  <2>2. ~MSInv'
    BY <2>1 DEF BrokenOff, Lost, MSInv, LinkInv, Resting, AskedOp
  <2>3. QED
    BY <1>1, <2>1, <2>2 DEF HealthyInv
<1>10. QED
  BY <1>2, <1>3, <1>4, <1>5, <1>6, <1>7, <1>8, <1>9 DEF MaskNext, Done

\* With a modem that obeys in time, restore() puts both masks back and says so:
\* every readback agrees, and a mask that was not zeroed was never changed.
THEOREM HealthyRunsRestore == MaskSpec => []HealthyRunRestores
<1>1. MaskInit => HealthyInv
  BY HealthyInit
<1>2. MaskInv /\ HealthyInv /\ [MaskNext]_maskVars => HealthyInv'
  <2>1. ASSUME BrokenOff, HealthyInv, [MaskNext]_maskVars PROVE HealthyInv'
    <3>1. BrokenOff' /\ UNCHANGED faults
      BY <2>1, BrokenOffKeeps, NothingMoves DEF maskVars
    <3>2. ~MSInv'
      BY <3>1 DEF BrokenOff, Lost, MSInv, LinkInv, Resting, AskedOp
    <3>3. QED
      BY <2>1, <3>1, <3>2 DEF HealthyInv
  <2>2. QED
    BY <2>1, HealthyStep DEF MaskInv
<1>3. MaskInv /\ HealthyInv => HealthyRunRestores
  BY DEF MaskInv, BrokenOff, Lost, MSInv, F3Inv, EventInv, HealthyInv, Healthy, HealthyRunRestores
<1>4. QED
  BY <1>1, <1>2, <1>3, MaskInvariance, PTL DEF MaskSpec

-----------------------------------------------------------------------------
(* Sweeps.                                                                 *)

\* Multiplication by a positive number keeps the order.
LEMMA TimesIsMonotone ==
  ASSUME NEW n \in Nat \ {0}, NEW p \in Int, NEW q \in Int, p < q
  PROVE  n * p + n <= n * q
<1> DEFINE d == q - p - 1
<1>1. d \in Nat /\ q = p + 1 + d
  BY SMT
<1>2. n * d >= 0
  BY <1>1, SMT
<1>3. n * q = n * p + n + n * d
  BY <1>1, SMT
<1> QED  BY <1>2, <1>3, <1>1, SMT

\* Division with a remainder.
LEMMA Division ==
  ASSUME NEW x \in Nat, NEW n \in Nat \ {0}
  PROVE  /\ x % n \in 0 .. n - 1
         /\ x \div n \in Int
         /\ x = n * (x \div n) + (x % n)
  BY SMT

\* The quotient and the remainder are the only ones.
LEMMA MultipleHasNoRemainder ==
  ASSUME NEW n \in Nat \ {0}, NEW q \in Nat
  PROVE  n * q \in Nat /\ (n * q) % n = 0
<1> DEFINE x == n * q
<1>1. x \in Nat
  BY SMT
<1> DEFINE k == x \div n
           r == x % n
<1>2. r \in 0 .. n - 1 /\ k \in Int /\ x = n * k + r
  BY <1>1, Division
<1> HIDE DEF k, r
<1>3. n * k \in Int /\ n * q \in Int
  BY <1>2, SMT
<1>4. r = 0
  <2>1. CASE k < q
    BY <1>2, <1>3, <2>1, TimesIsMonotone, SMT
  <2>2. CASE q < k
    BY <1>2, <1>3, <2>2, TimesIsMonotone, SMT
  <2>3. CASE k = q
    BY <1>2, <1>3, <2>3, SMT
  <2> QED  BY <1>2, <2>1, <2>2, <2>3, SMT
<1> QED  BY <1>1, <1>4 DEF r

\* What is left of a number without its remainder.
LEMMA Rounded ==
  ASSUME NEW x \in Nat, NEW n \in Nat \ {0}
  PROVE  x - (x % n) \in Nat /\ (x - (x % n)) % n = 0
<1> DEFINE k == x \div n
           r == x % n
<1>1. r \in 0 .. n - 1 /\ k \in Int /\ x = n * k + r
  BY Division
<1> HIDE DEF k, r
<1>2. k >= 0
  <2>1. CASE k < 0
    BY <1>1, <2>1, TimesIsMonotone, SMT
  <2> QED  BY <1>1, <2>1, SMT
<1>3. n * k \in Nat /\ (n * k) % n = 0
  BY <1>1, <1>2, MultipleHasNoRemainder
<1>4. x - r = n * k
  BY <1>1, <1>3, SMT
<1> QED  BY <1>3, <1>4 DEF r

\* Two multiples that are different are n apart.
LEMMA MultiplesAreApart ==
  ASSUME NEW x \in Nat, NEW y \in Nat, NEW n \in Nat \ {0},
         x % n = 0, y % n = 0, x < y
  PROVE  x + n <= y
<1> DEFINE p == x \div n
           q == y \div n
<1>1. p \in Int /\ q \in Int /\ x = n * p + 0 /\ y = n * q + 0
  BY Division
<1> HIDE DEF p, q
<1>2. n * p \in Int /\ n * q \in Int
  BY <1>1, SMT
<1>3. p < q
  <2>1. CASE q < p
    BY <1>1, <1>2, <2>1, TimesIsMonotone, SMT
  <2>2. CASE q = p
    BY <1>1, <2>2, SMT
  <2> QED  BY <1>1, <2>1, <2>2, SMT
<1> QED  BY <1>1, <1>2, <1>3, TimesIsMonotone, SMT

\* The parts of a sweep: the windows begin where range() says, in order, and
\* none reaches into the next.
LEMMA Windows ==
  ASSUME NEW from \in Int, NEW last \in Int, NEW size \in Nat \ {0},
         NEW lo \in Starts(from, last, size)
  PROVE  /\ lo \in from .. last
         /\ Window(lo, last, size) = {s \in lo .. last : s < lo + size}
BY SMT DEF Starts, Window, LesserOf

LEMMA WindowOf ==
  ASSUME NEW from \in Int, NEW last \in Int, NEW size \in Nat \ {0},
         NEW s \in from .. last
  PROVE  \E lo \in Starts(from, last, size) : s \in Window(lo, last, size)
<1> DEFINE x == s - from
           r == x % size
<1>1. x \in Nat
  BY SMT
<1>2. r \in 0 .. size - 1 /\ x - r \in Nat /\ (x - r) % size = 0
  BY <1>1, Division, Rounded
<1> HIDE DEF r
<1>3. s - r \in from .. last /\ (s - r) - from = x - r
  BY <1>2, SMT
<1>4. s - r \in Starts(from, last, size)
  BY <1>2, <1>3 DEF Starts
<1>5. s \in Window(s - r, last, size)
  BY <1>2, <1>3, <1>4, Windows, SMT
<1> QED  BY <1>4, <1>5

LEMMA WindowsAreApart ==
  ASSUME NEW from \in Int, NEW last \in Int, NEW size \in Nat \ {0},
         NEW a \in Starts(from, last, size), NEW b \in Starts(from, last, size), a < b
  PROVE  Window(a, last, size) \cap Window(b, last, size) = {}
<1>1. /\ a - from \in Nat /\ b - from \in Nat /\ a - from < b - from
      /\ (a - from) % size = 0 /\ (b - from) % size = 0
  BY SMT DEF Starts
<1>2. (a - from) + size <= b - from
  BY <1>1, MultiplesAreApart
<1>3. a + size <= b /\ a \in Int /\ b \in Int
  BY <1>1, <1>2, Windows, SMT
<1> QED  BY <1>3, Windows, SMT

\* sweep_windows() leaves out no ssid and names none twice, whatever the bounds
\* and the size, and no window is wider than the SET it is for.
THEOREM SweepCoversOnce ==
  ASSUME NEW first \in Int, NEW last \in Int, NEW size \in Nat \ {0}
  PROVE  /\ UNION SweepWindows(first, last, size) = GreaterOf(first, 1) .. last
         /\ \A v, w \in SweepWindows(first, last, size) : v # w => v \cap w = {}
         /\ \A w \in SweepWindows(first, last, size) :
               w # {} /\ IsFiniteSet(w) /\ Cardinality(w) <= size
<1> DEFINE from == GreaterOf(first, 1)
<1>1. from \in Int
  BY SMT DEF GreaterOf
<1> HIDE DEF from
<1>2. SweepWindows(first, last, size) =
        {Window(lo, last, size) : lo \in Starts(from, last, size)}
  BY DEF SweepWindows, from
<1>3. UNION SweepWindows(first, last, size) = from .. last
  <2>1. ASSUME NEW s \in from .. last
        PROVE  s \in UNION SweepWindows(first, last, size)
    BY <1>1, <1>2, <2>1, WindowOf
  <2>2. ASSUME NEW lo \in Starts(from, last, size), NEW s \in Window(lo, last, size)
        PROVE  s \in from .. last
    BY <1>1, <2>2, Windows, SMT
  <2> QED  BY <1>2, <2>1, <2>2
<1>4. ASSUME NEW v \in SweepWindows(first, last, size),
             NEW w \in SweepWindows(first, last, size), v # w
      PROVE  v \cap w = {}
  <2>1. PICK a \in Starts(from, last, size) : v = Window(a, last, size)
    BY <1>2
  <2>2. PICK b \in Starts(from, last, size) : w = Window(b, last, size)
    BY <1>2
  <2>3. a \in Int /\ b \in Int
    BY <1>1 DEF Starts
  <2>4. CASE a < b
    BY <1>1, <2>1, <2>2, <2>4, WindowsAreApart
  <2>5. CASE b < a
    BY <1>1, <2>1, <2>2, <2>5, WindowsAreApart
  <2>6. CASE a = b
    BY <1>4, <2>1, <2>2, <2>6
  <2> QED  BY <2>3, <2>4, <2>5, <2>6, SMT
<1>5. ASSUME NEW w \in SweepWindows(first, last, size)
      PROVE  w # {} /\ IsFiniteSet(w) /\ Cardinality(w) <= size
  <2>1. PICK lo \in Starts(from, last, size) : w = Window(lo, last, size)
    BY <1>2
  <2>2. lo \in from .. last /\ lo \in w
    BY <1>1, <2>1, Windows, SMT
  <2> DEFINE hi == LesserOf(lo + size, last + 1) - 1
  <2>3. w = lo .. hi /\ hi \in Int /\ hi - lo + 1 <= size
    BY <1>1, <2>1, <2>2, SMT DEF Window, LesserOf
  <2> HIDE DEF hi
  <2>4. IsFiniteSet(w) /\ Cardinality(w) = IF lo > hi THEN 0 ELSE hi - lo + 1
    BY <1>1, <2>2, <2>3, FS_Interval
  <2> QED  BY <1>1, <2>2, <2>3, <2>4, SMT
<1> QED  BY <1>3, <1>4, <1>5 DEF from

-----------------------------------------------------------------------------
(* Event masks.                                                            *)

\* The two widths are the same unless the number of events is a multiple of
\* eight; then a SET has one byte more.
LEMMA Widths ==
  ASSUME NEW num \in Nat \ {0}
  PROVE  /\ GetWidth(num) \in Nat \ {0} /\ SetWidth(num) \in Nat
         /\ num <= 8 * GetWidth(num)
         /\ SetWidth(num) = GetWidth(num) + (IF num % 8 = 0 THEN 1 ELSE 0)
BY SMT DEF GetWidth, SetWidth

\* A read-modify-write of the event mask: what is sent after an edit of what was
\* read is a SET of the right width, which reads back as the edited mask; the
\* edit changes the ids it names and no other bit, padding included.
THEOREM ReadModifyWrite ==
  ASSUME NEW num \in Nat \ {0}, NEW width \in {GetWidth(num), SetWidth(num)},
         NEW body \in Bodies(num, width), NEW ids \in SUBSET (0 .. num - 1),
         NEW mask \in Parse(body),
         NEW edited \in WithIds(mask, ids) \cup WithoutIds(mask, ids)
  PROVE  /\ BuildSet(edited) \in Bodies(num, SetWidth(num))
         /\ Parse(BuildSet(edited)) = {[edited EXCEPT !.status = 0]}
         /\ \A b \in Nat \ ids : b \in edited.bits <=> b \in mask.bits
         /\ edited \in WithIds(mask, ids) => SetIds(edited) = SetIds(mask) \cup ids
         /\ edited \notin WithIds(mask, ids) => SetIds(edited) = SetIds(mask) \ ids
<1> DEFINE top == 8 * GetWidth(num) - 1
<1>1. /\ body.num = num /\ body.status \in Nat
      /\ mask = [num |-> num, status |-> body.status, bits |-> body.bits \cap 0 .. top]
  BY DEF Bodies, Parse, ValueError
<1>2. /\ top \in Nat /\ num - 1 <= top /\ top <= 8 * SetWidth(num) - 1
      /\ GetWidth(num) \in Nat /\ SetWidth(num) \in Nat
  BY Widths, SMT
<1> HIDE DEF top
<1>3. ids \subseteq 0 .. top
  BY <1>2, SMT
<1>4. /\ edited = [mask EXCEPT !.bits = edited.bits]
      /\ edited.bits \in {mask.bits \cup ids, mask.bits \ ids}
  BY <1>1 DEF WithIds, WithoutIds, Edited, ValueError
<1>5. edited.num = num /\ edited.bits \subseteq 0 .. top
  BY <1>1, <1>3, <1>4
<1>6. edited.bits \subseteq 0 .. 8 * SetWidth(num) - 1
  BY <1>2, <1>5, SMT
<1>7. BuildSet(edited) \in Bodies(num, SetWidth(num))
  BY <1>5, <1>6 DEF BuildSet, Bodies
<1>8. Parse(BuildSet(edited)) = {[edited EXCEPT !.status = 0]}
  <2>1. Parse(BuildSet(edited)) =
          {[num |-> num, status |-> 0, bits |-> edited.bits \cap 0 .. top]}
    BY <1>2, <1>5 DEF Parse, BuildSet, top
  <2>2. [edited EXCEPT !.status = 0] = [num |-> num, status |-> 0, bits |-> edited.bits]
    BY <1>1, <1>4
  <2> QED  BY <1>5, <2>1, <2>2
<1>9. \A b \in Nat \ ids : b \in edited.bits <=> b \in mask.bits
  BY <1>4
<1>10. ASSUME edited \in WithIds(mask, ids)
       PROVE  SetIds(edited) = SetIds(mask) \cup ids
  <2>1. edited.bits = mask.bits \cup ids
    BY <1>1, <1>10 DEF WithIds, Edited, ValueError
  <2> QED  BY <1>1, <1>5, <2>1 DEF SetIds
<1>11. ASSUME edited \notin WithIds(mask, ids)
       PROVE  SetIds(edited) = SetIds(mask) \ ids
  <2>1. edited.bits = mask.bits \ ids
    BY <1>1, <1>11 DEF WithoutIds, Edited, ValueError
  <2> QED  BY <1>1, <1>5, <2>1 DEF SetIds
<1> QED  BY <1>7, <1>8, <1>9, <1>10, <1>11

=============================================================================
