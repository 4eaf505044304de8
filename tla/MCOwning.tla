------------------------------ MODULE MCOwning ------------------------------
(* Instances of Owning for TLC.                                            *)
EXTENDS Owning, TLC
=============================================================================
