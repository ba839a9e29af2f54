----------------------------- MODULE MCCockpit -----------------------------
(* Instances of Cockpit for TLC.                                           *)
EXTENDS Cockpit

OneArea  == {"rect"}
TwoAreas == {"tall", "short"}
OneTalks == {1}
=============================================================================
