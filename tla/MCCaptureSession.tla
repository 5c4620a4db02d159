-------------------------- MODULE MCCaptureSession ---------------------------
(* Small instances of CaptureSession.                                        *)
EXTENDS CaptureSession

\* An earlier program's request may still wait in the modem.
OldRequests == {Ranges, SetMask(1, "old"), Spc}
NoRequests  == {}

LogNoise == {Record, Status}
RecvNoise == {Record, Junk}

=============================================================================
