------------------------------ MODULE MCCowork ------------------------------
(* Instances of Cowork for TLC.                                            *)
EXTENDS Cowork

AllKeys == {"char", "backspace", "enter", "quit"}
JustQuit == {"quit"}
NoFaults == {}
SomeFaults == FaultKinds \ {"resize"}
=============================================================================
