------------------------------ MODULE MCFollow ------------------------------
(* Instances of Follow for TLC.                                            *)
EXTENDS Follow

NoBlanks == {}
=============================================================================
