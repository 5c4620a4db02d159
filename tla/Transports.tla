------------------------------ MODULE Transports ------------------------------
(***************************************************************************)
(* The transport of a client is one of these, for good, as the from_*()    *)
(* that made it has chosen; those it has not chosen stand still.           *)
(***************************************************************************)
EXTENDS TcpLink, BroadcastRecords, LibusbPipe

CONSTANT Chosen     \* the transports: of "tcp", "broadcast", "libusb"

ASSUME ChosenAssumption == Chosen \subseteq {"tcp", "broadcast", "libusb"}

VARIABLE transport

transportVars == <<transport, tcpVars, broadcastVars, pipeVars>>

TransportInit ==
    /\ transport \in Chosen
    /\ TcpInit /\ (transport # "tcp" => role = CHOOSE r \in Roles : TRUE)
    /\ BroadcastInit /\ (transport # "broadcast" => numbered = CHOOSE h \in Headers : TRUE)
    /\ PipeInit

Tcp(A)       == transport = "tcp" /\ A /\ UNCHANGED <<transport, broadcastVars, pipeVars>>
Broadcast(A) == transport = "broadcast" /\ A /\ UNCHANGED <<transport, tcpVars, pipeVars>>
Libusb(A)    == transport = "libusb" /\ A /\ UNCHANGED <<transport, tcpVars, broadcastVars>>

TransportNext == Tcp(TcpNext) \/ Broadcast(BroadcastNext) \/ Libusb(PipeNext)

\* TcpFairness or PipeFairness, as the one or the other stands still.
TransportFairness ==
    /\ WF_transportVars(Tcp(ClientStep) \/ Libusb(ReaderStep))
    /\ WF_transportVars(Tcp(DeadlinePasses) \/ Libusb(CloseStep))
    /\ WF_transportVars(Libusb(Read \/ ReadEof))

TransportSpec ==
    TransportInit /\ [][TransportNext]_transportVars /\ TransportFairness

=============================================================================
