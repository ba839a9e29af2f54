------------------------- MODULE MCJupyterLifecycle -------------------------
(***************************************************************************)
(* Small instances of JupyterLifecycle for TLC.                            *)
(***************************************************************************)
EXTENDS JupyterLifecycle

CONSTANTS i0, s1, s2, c1, c2

Sock4 == [ip |-> 4, port |-> 1]

MCInstances == {i0, s1, s2}
OneSocket   == {Sock4}
OneStart    == {s1}
TwoStarts   == {s1, s2}
OneStop     == {c1}
TwoStops    == {c1, c2}

Row(valid) ==
    [form |-> "v1", rev |-> 1, next |-> 2,
     servers |-> [NoServers EXCEPT ![1] =
        [instance |-> i0, socket |-> Sock4, valid |-> valid, bound |-> FALSE]]]

(* Nothing registered, or a migrated row with or without a usable URL.     *)
FirstFiles == {Empty, Row(TRUE), Row(FALSE)}
NoFile     == {Empty}

=============================================================================
