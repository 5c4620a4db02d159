---------------------------- MODULE MCDge1Tracker ----------------------------
(* Small instances of Dge1Tracker: a sequence space of ten numbers in      *)
(* which every branch of feed() is a few datagrams away.                     *)
EXTENDS Dge1Tracker

=============================================================================
