----------------------------- MODULE MCTransports -----------------------------
(* Small instances of Transports.                                            *)
EXTENDS Transports

\* A record of frame 1, one of 2 to 4 in three pieces, one of 5, and one of 6 and
\* 7 in two; the pieces end in the middle of frames too.
SevenDatagrams == <<3, 7, 10, 12, 15, 16, 21>>

=============================================================================
