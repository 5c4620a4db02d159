----------------------------- MODULE MCDge1Stream -----------------------------
(* Small instances of Dge1Stream.                                            *)
EXTENDS Dge1Stream

=============================================================================
