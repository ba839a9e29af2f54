---------------------------- MODULE RegistryData ----------------------------
(***************************************************************************)
(* The durable registry of managed Jupyter servers as a value: what        *)
(* servers.json may hold and the pure edits the code makes to it.  The     *)
(* concurrency around the file is in JupyterRegistry; the promise it makes *)
(* is in AtomicRegistry.                                                   *)
(*                                                                         *)
(* A file has a form (missing, unreadable, legacy array, schema v1).  The  *)
(* rows of a legacy array carry no instance id and no identity binding, so *)
(* they are records whose instance is NoInstance.  "unreadable" stands for *)
(* every byte string load_registry refuses whatever its numbers are:       *)
(* malformed JSON, duplicate or zero handles, an unknown schema version,   *)
(* a key that differs from its record's handle.                            *)
(***************************************************************************)
EXTENDS Naturals

CONSTANTS
    Instances,     \* 128-bit instance ids
    Sockets,       \* typed loopback addresses, records [ip, port]
    MaxU64,        \* the largest u64: handles and revisions stop here
    InitialDisks,  \* the files a process may find when the system starts
    NoInstance,    \* a legacy row's missing instance id
    NoRecord       \* an unused handle

U64    == 0 .. MaxU64
Handle == 1 .. MaxU64

Record == [instance : Instances \cup {NoInstance},
           socket   : Sockets,
           valid    : BOOLEAN,   \* validate_stored_record accepts it
           bound    : BOOLEAN]   \* identity_bound

Servers  == [Handle -> Record \cup {NoRecord}]
DiskFile == [form : {"missing", "unreadable", "legacy", "v1"},
             rev : U64, next : U64, servers : Servers]

Present(file) == {h \in Handle : file.servers[h] # NoRecord}
NoServers     == [h \in Handle |-> NoRecord]

Empty == [form |-> "missing", rev |-> 0, next |-> 1, servers |-> NoServers]

ValidRegistry(file) ==
    /\ file.next # 0
    /\ \A h \in Present(file) : h < file.next

(* The two shapes load_registry hands on; every other file is an error.   *)
Loadable(file)   == file.form \in {"missing", "v1"} /\ ValidRegistry(file)
Migratable(file) == file.form = "legacy" /\ MaxU64 \notin Present(file)

AsV1(file) == [file EXCEPT !.form = "v1"]

-----------------------------------------------------------------------------
(* Migration of a legacy array: every row gets the instance id drawn for   *)
(* it, stays unbound, and next_handle is one above the largest handle.     *)

IsNextHandle(n, used) ==
    /\ \A h \in used : h < n
    /\ IF used = {} THEN n = 1 ELSE n - 1 \in used

Migrated(file, n, ids) ==
    [form |-> "v1", rev |-> 1, next |-> n,
     servers |-> [h \in Handle |->
        IF file.servers[h] = NoRecord THEN NoRecord
        ELSE [file.servers[h] EXCEPT !.instance = ids[h], !.bound = FALSE]]]

-----------------------------------------------------------------------------
(* The edits of a transaction, each with the overflow check that guards it.*)

(* A slip: only the newest record is compared.                             *)
SocketTakenByNewest(file, s) ==
    \E h \in Present(file) :
        h = file.next - 1 /\ file.servers[h].socket = s

(* A valid record on the socket, or an invalid one on its port.            *)
SocketTaken(file, s) ==
    \E h \in Present(file) :
        IF file.servers[h].valid
        THEN file.servers[h].socket = s
        ELSE file.servers[h].socket.port = s.port

CanAllocate(file) == file.next < MaxU64 /\ file.rev < MaxU64
Allocated(file)   == [file EXCEPT !.next = @ + 1, !.rev = @ + 1]

Bound(i, s) == [instance |-> i, socket |-> s, valid |-> TRUE, bound |-> TRUE]

CanInsert(file, h) == file.servers[h] = NoRecord /\ file.rev < MaxU64
Inserted(file, h, r) ==
    [file EXCEPT !.servers[h] = r, !.rev = @ + 1]

Matches(file, h, i) ==
    file.servers[h] # NoRecord /\ file.servers[h].instance = i
(* Slips: the revision is left alone; the handle is recycled.              *)
DeletedSilently(file, h) == [file EXCEPT !.servers[h] = NoRecord]
DeletedAndRecycled(file, h) ==
    [file EXCEPT !.servers[h] = NoRecord, !.rev = @ + 1, !.next = h]

CanDelete(file) == file.rev < MaxU64
Deleted(file, h) ==
    [file EXCEPT !.servers[h] = NoRecord, !.rev = @ + 1]

-----------------------------------------------------------------------------
(* The three ways one file may succeed another.                            *)

MigrationOf(old, new) ==
    /\ Migratable(old)
    /\ \E n \in Handle, ids \in [Handle -> Instances] :
          /\ IsNextHandle(n, Present(old))
          /\ new = Migrated(old, n, ids)

RegistrationOf(old, new) ==
    /\ Loadable(old)
    /\ \E i \in Instances, s \in Sockets :
          /\ ~ SocketTaken(old, s)
          /\ CanAllocate(old)
          /\ CanInsert(Allocated(old), old.next)
          /\ new = Inserted(Allocated(AsV1(old)), old.next, Bound(i, s))

DeletionOf(old, new) ==
    /\ Loadable(old)
    /\ \E h \in Handle, i \in Instances :
          /\ Matches(old, h, i)
          /\ CanDelete(old)
          /\ new = Deleted(AsV1(old), h)

-----------------------------------------------------------------------------
(* Two identity-bound records never name the same socket.                  *)
SocketsDistinct(file) ==
    \A h, k \in Present(file) :
        /\ h # k
        /\ file.servers[h].bound /\ file.servers[k].bound
        => file.servers[h].socket # file.servers[k].socket

(* What a file of the given form holds: legacy rows have no instance id,   *)
(* schema v1 records have one, bound records validate (start_server        *)
(* registers nothing else), and a missing file reads as the empty          *)
(* registry.                                                               *)
WellFormed(file) ==
    /\ file.form = "missing" => file = Empty
    /\ file.form = "legacy" =>
          /\ file.rev = 0
          /\ \A h \in Present(file) :
              file.servers[h].instance = NoInstance /\ ~ file.servers[h].bound
    /\ file.form = "v1" =>
          \A h \in Present(file) :
              /\ file.servers[h].instance \in Instances
              /\ file.servers[h].bound => file.servers[h].valid

ASSUME BoundsAssumption  == MaxU64 \in Nat \ {0}
ASSUME NoRecordAssumption == NoRecord \notin Record
ASSUME NoInstanceAssumption == NoInstance \notin Instances
ASSUME SocketAssumption ==
    \A s \in Sockets : DOMAIN s = {"ip", "port"}
ASSUME InitialDisksAssumption ==
    \A d \in InitialDisks :
        d \in DiskFile /\ WellFormed(d) /\ SocketsDistinct(d)

=============================================================================
