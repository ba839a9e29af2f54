------------------------- MODULE MCJupyterRegistry --------------------------
(***************************************************************************)
(* Small instances of JupyterRegistry for TLC.                             *)
(***************************************************************************)
EXTENDS JupyterRegistry

CONSTANTS i1, i2, p1, p2

MCInstances == {i1, i2}
MCProcs     == {p1, p2}
MCSockets   == {[ip |-> 4, port |-> 1], [ip |-> 6, port |-> 1]}

Sock4 == [ip |-> 4, port |-> 1]
Legacy(s, ok) ==
    [instance |-> NoInstance, socket |-> s, valid |-> ok, bound |-> FALSE]
Row(h, r) == [NoServers EXCEPT ![h] = r]

(* Nothing yet; a legacy array with a valid or an invalid row; one whose   *)
(* handle is the last u64; a file no version reads; a v1 file whose        *)
(* next_handle was edited below a record.                                  *)
FirstFiles ==
    {Empty,
     [form |-> "legacy", rev |-> 0, next |-> 0,
      servers |-> Row(1, Legacy(Sock4, TRUE))],
     [form |-> "legacy", rev |-> 0, next |-> 0,
      servers |-> Row(2, Legacy(Sock4, FALSE))],
     [form |-> "legacy", rev |-> 0, next |-> 0,
      servers |-> Row(MaxU64, Legacy(Sock4, TRUE))],
     [form |-> "unreadable", rev |-> 0, next |-> 1, servers |-> NoServers],
     [form |-> "v1", rev |-> 1, next |-> 1,
      servers |-> Row(1, Bound(i1, Sock4))]}

=============================================================================
