---------------------------- MODULE ClientOpening -----------------------------
(***************************************************************************)
(* A client of a serial port or of a libusb interface, from the choice of  *)
(* the interface to the calls made on it.                                  *)
(***************************************************************************)
EXTENDS InterfaceProbe, ClientCalls

openingVars == <<probeVars, callsVars>>

\* A serial port has no interface to choose.
OpeningInit ==
    /\ CallsInit
    /\ \/ ProbeInit
       \/ /\ args \in {CHOOSE a \in ArgChoices : TRUE} /\ speaker = None /\ stage = "over"
          /\ untried = {} /\ claimed = {} /\ detached = {} /\ missed = FALSE

\* from_libusb() returns, and its locals go.  The answer its probe did not wait
\* for may still come.
Opened ==
    /\ ProbeAt("done", "over")
    /\ \E early \in {<<>>, <<Frame("VERNO", "", <<0>>)>>} :
          /\ early # <<>> => missed /\ speaker = Iface
          /\ toHost' = early
    /\ args' = (CHOOSE a \in ArgChoices : TRUE)
    /\ speaker' = None /\ untried' = {} /\ claimed' = {} /\ detached' = {} /\ missed' = FALSE
    /\ UNCHANGED <<toModem, pend, dead, pc, req, late, answer, resynced, drained, rx, calls, modem>>

OpeningOver ==
    /\ \/ stage = "raised" 
       \/ pc = "ready" /\ Judged /\ Len(calls) = MaxCalls
    /\ UNCHANGED openingVars

OpeningNext ==
    \/ ProbeStep /\ UNCHANGED callsVars
    \/ Opened
    \/ stage = "over" /\ CallsNext /\ UNCHANGED probeVars
    \/ OpeningOver

OpeningSpec == OpeningInit /\ [][OpeningNext]_openingVars /\ CallsFairness

=============================================================================
