-------------------------- MODULE MCKeyDispatcher --------------------------
(* Instances of KeyDispatcher for TLC.                                     *)
EXTENDS KeyDispatcher

Plain    == {"c"}
Arrows   == {"Left", "Up"}
Unbound  == {"C-a", "e"}
NoCombo  == {"Delete"}
Rebound  == {"Left", "C-a", "C-q"}
NoConfig == {}
=============================================================================
