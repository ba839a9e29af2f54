------------------------------ MODULE MCScreen ------------------------------
(***************************************************************************)
(* What a key press and a resize of the screen come to, for TLC: the names *)
(* of the keys, the cockpit's dispatcher, the tree of panes.  A behaviour  *)
(* is one of them; the others stay as they begin.                          *)
(***************************************************************************)
EXTENDS MCKeyDispatcher, KeyNames, LayoutTree, TLC

VARIABLE part

screenVars == <<part, vars, layoutVars, namesVars>>

OnePane ==
    /\ tree = Leaf(0, 15, 11) /\ term = <<15, 11>> /\ nextPane = 1
    /\ zoom = NoPane /\ mru = <<>>

ScreenInit ==
    /\ part \in {"keys", "panes", "names"}
    /\ Init
    /\ IF part = "panes" THEN LayoutInit ELSE OnePane
    /\ NamesInit

ScreenNext ==
    /\ \/ part = "keys"  /\ Next            /\ UNCHANGED <<layoutVars, namesVars>>
       \/ part = "panes" /\ LayoutNext      /\ UNCHANGED <<vars, namesVars>>
       \/ part = "names" /\ NamesNext /\ UNCHANGED <<vars, layoutVars>>
    /\ UNCHANGED part

ScreenSpec == ScreenInit /\ [][ScreenNext]_screenVars

OtherCase == ("b" :> "B") @@ ("c" :> "C") @@ ("m" :> "M") @@ ("s" :> "S")

TwoTerminals == {<<15, 11>>, <<10, 7>>}
=============================================================================
