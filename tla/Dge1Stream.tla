----------------------------- MODULE Dge1Stream ------------------------------
(***************************************************************************)
(* One DGE1 egress daemon, the path to the receiver, and the tracker.      *)
(*                                                                         *)
(* The daemon numbers its datagrams one by one and may re-spawn its reader, *)
(* which restarts the numbering under the RESTART flag.  The path loses,   *)
(* duplicates and reorders.  A re-spawn takes far longer than a datagram   *)
(* stays in flight: nothing of the old baseline is in flight when it ends. *)
(*                                                                         *)
(* A datagram's identity, its place in the sequence of all datagrams sent, *)
(* is its payload.  The tracker never looks at it.                         *)
(***************************************************************************)
EXTENDS Dge1Tracker

CONSTANTS
    StartSeq,       \* the number of the daemon's first datagram
    RestartSeqs,    \* numbers a re-spawned daemon may start from
    MaxRespawns,    \* bound of the model: re-spawns
    MaxSent,        \* bound of the model: datagrams sent
    MaxCopies,      \* bound of the model: extra copies made by the path
    CopyWindows,    \* the windows under which the path copies at all
    MaxLost,        \* bound of the model: copies lost by the path
    MaxOvertake,    \* how many places a datagram may be overtaken by
    RestartIntact   \* the path does not touch a RESTART datagram

ASSUME StreamAssumption ==
    /\ {MaxRespawns, MaxSent, MaxCopies, MaxLost, MaxOvertake} \subseteq Nat
    /\ Payload = 1 .. MaxSent
    /\ StartSeq \in SeqNo /\ RestartSeqs \subseteq SeqNo
    /\ MaxSent <= GapFloor
    /\ CopyWindows \subseteq Windows
    /\ RestartIntact \in BOOLEAN

VARIABLES
    sent,           \* the datagrams sent: their numbers and RESTART flags
    net,            \* datagram -> copies in flight
    copies, lost,   \* how many copies the path made, and lost
    arrived,        \* the datagrams of which a copy arrived
    delivered,      \* all payloads the tracker returned, in order
    first,          \* the datagram that set the current baseline (0: none yet)
    missingAtFirst, \* the `missing` counter at that moment
    ended           \* the receiver has seen the end of the stream

path == <<sent, net, copies, lost>>
streamVars == <<vars, path, arrived, delivered, first, missingAtFirst, ended>>

Datagram == 1 .. Len(sent)
InFlight == {i \in Datagram : net[i] > 0}

StreamInit ==
    /\ Init
    /\ sent = <<>>
    /\ net = [i \in Payload |-> 0]
    /\ copies = 0 /\ lost = 0
    /\ arrived = {}
    /\ delivered = <<>>
    /\ first = 0
    /\ missingAtFirst = 0
    /\ ended = FALSE

-----------------------------------------------------------------------------
(* The daemon and the path.                                                *)

Emit(s, restart) ==
    /\ Len(sent) < MaxSent
    /\ sent' = Append(sent, [seq |-> s, restart |-> restart])
    /\ net' = [net EXCEPT ![Len(sent) + 1] = 1]
    /\ UNCHANGED <<vars, copies, lost, arrived, delivered, first, missingAtFirst, ended>>

Send == Emit(IF sent = <<>> THEN StartSeq ELSE (sent[Len(sent)].seq + 1) % SeqMod, FALSE)

Respawn ==
    /\ sent # <<>> /\ InFlight = {}
    /\ Cardinality({i \in Datagram : sent[i].restart}) < MaxRespawns
    /\ \E s \in RestartSeqs : Emit(s, TRUE)

Lose(i) ==
    /\ lost < MaxLost
    /\ RestartIntact => ~sent[i].restart
    /\ net' = [net EXCEPT ![i] = @ - 1]
    /\ lost' = lost + 1
    /\ UNCHANGED <<vars, sent, copies, arrived, delivered, first, missingAtFirst, ended>>

Copy(i) ==
    /\ copies < MaxCopies /\ window \in CopyWindows
    /\ RestartIntact => ~sent[i].restart
    /\ net' = [net EXCEPT ![i] = @ + 1]
    /\ copies' = copies + 1
    /\ UNCHANGED <<vars, sent, lost, arrived, delivered, first, missingAtFirst, ended>>

-----------------------------------------------------------------------------
(* The receiver.                                                           *)

\* Datagram i arrives: it overtakes every older one still in flight, and no
\* datagram is overtaken by one more than MaxOvertake places behind it.
Arrive(i) ==
    /\ \A j \in InFlight : j < i =>
          i - j <= MaxOvertake /\ (RestartIntact => ~sent[j].restart)
    /\ Feed(i, sent[i].seq, sent[i].restart)
    /\ net' = [net EXCEPT ![i] = @ - 1]
    /\ arrived' = arrived \cup {i}
    /\ delivered' = delivered \o out'
    /\ first' = IF Rebases(sent[i].restart) THEN i ELSE first
    /\ missingAtFirst' = IF Rebases(sent[i].restart) THEN stats.missing ELSE missingAtFirst
    /\ UNCHANGED <<sent, copies, lost, ended>>

EndOfStream ==
    /\ ~ended /\ Len(sent) = MaxSent /\ InFlight = {}
    /\ Flush
    /\ delivered' = delivered \o out'
    /\ ended' = TRUE
    /\ UNCHANGED <<path, arrived, first, missingAtFirst>>

Done == ended /\ UNCHANGED streamVars

StreamNext ==
    \/ Send \/ Respawn
    \/ \E i \in InFlight : Lose(i) \/ Copy(i) \/ Arrive(i)
    \/ EndOfStream
    \/ Done

StreamSpec == StreamInit /\ [][StreamNext]_streamVars

-----------------------------------------------------------------------------
(* Properties.                                                             *)

StreamTypeOK ==
    /\ TypeOK
    /\ sent \in Seq([seq : SeqNo, restart : BOOLEAN])
    /\ net \in [Payload -> Nat]
    /\ arrived \subseteq Datagram
    /\ delivered \in Seq(Datagram)
    /\ first \in 0 .. Len(sent)

Delivered == {delivered[k] : k \in 1 .. Len(delivered)}

\* The datagram the base stands at, if none of the baseline's were numbered twice.
BaseDatagram == first + Ahead(expected, sent[first].seq)

\* The datagrams of the current baseline the base went past undelivered.
Skipped == IF first = 0 THEN {} ELSE (first .. BaseDatagram - 1) \ Delivered

\* Held in the buffer.
HeldDatagrams == {pending[s] : s \in Held}

\* The tracker keeps the promise of LossyStream.
Stream == INSTANCE LossyStream WITH count <- Len(sent), got <- delivered
DeliversLossyStream == Stream!Spec

\* `missing` is no estimate: since the current baseline it counts exactly the
\* datagrams the base went past without delivering them.
MissingIsExact == stats.missing - missingAtFirst = Cardinality(Skipped)

\* "a later-arriving lower seq fills the hole": a datagram overtaken by less
\* than the window is never given up while it may still arrive, and never lost
\* once it did.
OnlyLostAreSkipped ==
    MaxOvertake < window => Skipped \cap (InFlight \cup arrived) = {}

\* "memory and delivery latency stay bounded": nothing is held once a datagram
\* a window or more later has arrived.
HeldBriefly ==
    \A i \in HeldDatagrams, j \in arrived : j - i < window

\* After the end every datagram that arrived was delivered or is in one of the
\* counters of the report.
AllAccountedAtEnd ==
    ended => /\ Held = {}
             /\ Cardinality(arrived) = Len(delivered) + stats.reordered + discarded

\* true_duplicates "is genuine on-wire/stack duplication": no more of them than
\* the path made copies.
TrueDupsAreCopies == stats.true_dups <= copies

\* gap_report() tells what became of every datagram, across the wrap of the
\* numbers, re-spawns of the daemon, copies and overtaking.
ReportAddsUp ==
    StreamTypeOK /\ MissingIsExact /\ AllAccountedAtEnd /\ TrueDupsAreCopies

=============================================================================
