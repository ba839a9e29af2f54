-------------------------- MODULE JupyterRegistry ---------------------------
(***************************************************************************)
(* Concurrent `gila jupyter` processes sharing servers.json through        *)
(* servers.lock: RegistryStore and RegistryTransaction of gila_jupyter.rs. *)
(*                                                                         *)
(* Each process runs one transaction at a time, for one of the three jobs  *)
(* the code has: take a snapshot (every command), register a ready server  *)
(* (start_server), delete the record of an instance it knows from an       *)
(* earlier transaction (stop_server, and start_server's own clean-up).     *)
(* A transaction waits for the lock, loads (and perhaps migrates) the      *)
(* file, edits its private copy, replaces the file and lets the lock go.   *)
(* A process may crash anywhere; the operating system drops its lock.      *)
(* Instance ids are drawn without assuming that draws differ.              *)
(***************************************************************************)
EXTENDS RegistryData

CONSTANTS
    Procs,          \* processes
    NoProc,         \* the lock is free
    LockPatience    \* lock retries before REGISTRY_LOCK_TIMEOUT has passed

ASSUME ProcAssumption     == NoProc \notin Procs
ASSUME PatienceAssumption == LockPatience \in Nat

VARIABLES
    disk,     \* servers.json
    lock,     \* the holder of servers.lock
    pc,       \* where each process is in its transaction
    job,      \* what the transaction is for
    waited,   \* lock retries so far
    tx,       \* RegistryTransaction.data, private to the process
    seen,     \* the (handle, instance) a process knows from a transaction
    owner     \* history: the first instance committed under each handle

vars == <<disk, lock, pc, job, waited, tx, seen, owner>>

Jobs    == {"none", "snapshot", "register", "delete"}
Holding == {"loading", "migrating", "migrated", "open", "writing", "replaced"}
Places  == {"idle", "waiting"} \cup Holding

Known   == [handle : U64, instance : Instances \cup {NoInstance}]
Nothing == [handle |-> 0, instance |-> NoInstance]

FirstOwner(file) ==
    [h \in Handle |-> IF file.servers[h] = NoRecord THEN NoInstance
                      ELSE file.servers[h].instance]

Init ==
    /\ disk \in InitialDisks
    /\ lock = NoProc
    /\ pc     = [p \in Procs |-> "idle"]
    /\ job    = [p \in Procs |-> "none"]
    /\ waited = [p \in Procs |-> 0]
    /\ tx     = [p \in Procs |-> Empty]
    /\ seen   = [p \in Procs |-> Nothing]
    /\ owner  = FirstOwner(disk)

Goto(p, place) == pc' = [pc EXCEPT ![p] = place]

(* The transaction is over and its lock file is closed.                    *)
Release(p) ==
    /\ lock' = NoProc
    /\ Goto(p, "idle")
    /\ job' = [job EXCEPT ![p] = "none"]
    /\ tx'  = [tx EXCEPT ![p] = Empty]
    /\ UNCHANGED waited

-----------------------------------------------------------------------------
(* Waiting for the lock.                                                   *)

Begin(p, j) ==
    /\ pc[p] = "idle"
    /\ j = "delete" => seen[p] # Nothing
    /\ Goto(p, "waiting")
    /\ job'    = [job EXCEPT ![p] = j]
    /\ waited' = [waited EXCEPT ![p] = 0]
    /\ UNCHANGED <<disk, lock, tx, seen, owner>>

Acquire(p) ==
    /\ pc[p] = "waiting"
    /\ lock = NoProc
    /\ lock' = p
    /\ Goto(p, "loading")
    /\ UNCHANGED <<disk, job, waited, tx, seen, owner>>

(* A slip: every retry restarts the clock.                                 *)
LockRetryRestarts(p) ==
    /\ pc[p] = "waiting"
    /\ lock # NoProc
    /\ waited' = [waited EXCEPT ![p] = 0]
    /\ UNCHANGED <<disk, lock, pc, job, tx, seen, owner>>

LockRetry(p) ==
    /\ pc[p] = "waiting"
    /\ lock # NoProc
    /\ waited[p] < LockPatience
    /\ waited' = [waited EXCEPT ![p] = @ + 1]
    /\ UNCHANGED <<disk, lock, pc, job, tx, seen, owner>>

LockTimeout(p) ==
    /\ pc[p] = "waiting"
    /\ lock # NoProc
    /\ waited[p] >= LockPatience
    /\ Goto(p, "idle")
    /\ job' = [job EXCEPT ![p] = "none"]
    /\ UNCHANGED <<disk, lock, waited, tx, seen, owner>>

-----------------------------------------------------------------------------
(* Loading the file under the lock.                                        *)

LoadRefused(p) ==
    /\ pc[p] = "loading"
    /\ ~ Loadable(disk) /\ ~ Migratable(disk)
    /\ Release(p)
    /\ UNCHANGED <<disk, seen, owner>>

(* A slip: next_handle is recomputed from the live records.                *)
LoadRenumbered(p) ==
    /\ pc[p] = "loading"
    /\ Loadable(disk)
    /\ \E n \in Handle :
          /\ IsNextHandle(n, Present(disk))
          /\ tx' = [tx EXCEPT ![p] = [AsV1(disk) EXCEPT !.next = n]]
    /\ Goto(p, "open")
    /\ UNCHANGED <<disk, lock, job, waited, seen, owner>>

Load(p) ==
    /\ pc[p] = "loading"
    /\ Loadable(disk)
    /\ tx' = [tx EXCEPT ![p] = AsV1(disk)]
    /\ Goto(p, "open")
    /\ UNCHANGED <<disk, lock, job, waited, seen, owner>>

LoadLegacy(p) ==
    /\ pc[p] = "loading"
    /\ Migratable(disk)
    /\ \E n \in Handle, ids \in [Handle -> Instances] :
          /\ IsNextHandle(n, Present(disk))
          /\ tx' = [tx EXCEPT ![p] = Migrated(disk, n, ids)]
    /\ Goto(p, "migrating")
    /\ UNCHANGED <<disk, lock, job, waited, seen, owner>>

-----------------------------------------------------------------------------
(* The three jobs, on the private copy.                                    *)

(* snapshot() clones the data and drops the transaction; the caller goes   *)
(* on with one of the records, or with none.                               *)
Snapshot(p) ==
    /\ pc[p] = "open" /\ job[p] = "snapshot"
    /\ \/ seen' = [seen EXCEPT ![p] = Nothing]
       \/ \E h \in Present(tx[p]) :
             seen' = [seen EXCEPT ![p] =
                [handle |-> h, instance |-> tx[p].servers[h].instance]]
    /\ Release(p)
    /\ UNCHANGED <<disk, owner>>

(* ensure_socket_available, allocate_handle and insert, in that order.     *)
Register(p, i, s) ==
    /\ pc[p] = "open" /\ job[p] = "register"
    /\ ~ SocketTaken(tx[p], s)
    /\ CanAllocate(tx[p])
    /\ LET h == tx[p].next
           d == Allocated(tx[p])
       IN /\ CanInsert(d, h)
          /\ tx' = [tx EXCEPT ![p] = Inserted(d, h, Bound(i, s))]
    /\ Goto(p, "writing")
    /\ UNCHANGED <<disk, lock, job, waited, seen, owner>>

(* One of the three refused: the transaction is dropped, nothing written.  *)
RegisterRefused(p, s) ==
    /\ pc[p] = "open" /\ job[p] = "register"
    /\ \/ SocketTaken(tx[p], s)
       \/ ~ CanAllocate(tx[p])
       \/ ~ CanInsert(Allocated(tx[p]), tx[p].next)
    /\ Release(p)
    /\ UNCHANGED <<disk, seen, owner>>

Delete(p) ==
    /\ pc[p] = "open" /\ job[p] = "delete"
    /\ Matches(tx[p], seen[p].handle, seen[p].instance)
    /\ CanDelete(tx[p])
    /\ tx' = [tx EXCEPT ![p] = Deleted(tx[p], seen[p].handle)]
    /\ Goto(p, "writing")
    /\ UNCHANGED <<disk, lock, job, waited, seen, owner>>

(* The record is gone or another instance's, or the revision is exhausted. *)
DeleteRefused(p) ==
    /\ pc[p] = "open" /\ job[p] = "delete"
    /\ \/ ~ Matches(tx[p], seen[p].handle, seen[p].instance)
       \/ ~ CanDelete(tx[p])
    /\ Release(p)
    /\ UNCHANGED <<disk, seen, owner>>

-----------------------------------------------------------------------------
(* atomic_write_registry_with, for the migration and for commit.           *)

(* The temporary file is renamed over servers.json.                        *)
Replace(p) ==
    /\ pc[p] \in {"migrating", "writing"}
    /\ ValidRegistry(tx[p])
    /\ disk' = tx[p]
    /\ owner' = [h \in Handle |->
                    IF owner[h] = NoInstance THEN FirstOwner(tx[p])[h]
                    ELSE owner[h]]
    /\ Goto(p, IF pc[p] = "migrating" THEN "migrated" ELSE "replaced")
    /\ UNCHANGED <<lock, job, waited, tx, seen>>

(* A slip: the file is truncated and rewritten in place.                   *)
ReplaceFailsTorn(p) ==
    /\ pc[p] \in {"migrating", "writing"}
    /\ disk' = [Empty EXCEPT !.form = "unreadable"]
    /\ Release(p)
    /\ UNCHANGED <<seen, owner>>

(* Encoding, creating, writing or renaming the temporary file failed.      *)
ReplaceFails(p) ==
    /\ pc[p] \in {"migrating", "writing"}
    /\ Release(p)
    /\ UNCHANGED <<disk, seen, owner>>

(* The file is in place, and what follows the rename (syncing the          *)
(* directory, checking the access list on Windows) reports an error.       *)
ReplaceReportsError(p) ==
    /\ pc[p] \in {"migrated", "replaced"}
    /\ Release(p)
    /\ UNCHANGED <<disk, seen, owner>>

MigrationDone(p) ==
    /\ pc[p] = "migrated"
    /\ Goto(p, "open")
    /\ UNCHANGED <<disk, lock, job, waited, tx, seen, owner>>

(* Only a commit that returns Ok tells start_server its handle.            *)
CommitDone(p) ==
    /\ pc[p] = "replaced"
    /\ IF job[p] = "register"
       THEN LET h == tx[p].next - 1
            IN seen' = [seen EXCEPT ![p] =
                  [handle |-> h, instance |-> tx[p].servers[h].instance]]
       ELSE UNCHANGED seen
    /\ Release(p)
    /\ UNCHANGED <<disk, owner>>

(* The process dies; a later process starts with nothing known.            *)
Crash(p) ==
    /\ pc[p] # "idle" \/ seen[p] # Nothing
    /\ lock' = IF lock = p THEN NoProc ELSE lock
    /\ Goto(p, "idle")
    /\ job'    = [job EXCEPT ![p] = "none"]
    /\ tx'     = [tx EXCEPT ![p] = Empty]
    /\ seen'   = [seen EXCEPT ![p] = Nothing]
    /\ UNCHANGED <<disk, waited, owner>>

-----------------------------------------------------------------------------
Step(p) ==
    \/ \E j \in Jobs \ {"none"} : Begin(p, j)
    \/ Acquire(p)
    \/ LockRetry(p)
    \/ LockTimeout(p)
    \/ LoadRefused(p)
    \/ Load(p)
    \/ LoadLegacy(p)
    \/ Snapshot(p)
    \/ \E i \in Instances, s \in Sockets : Register(p, i, s)
    \/ \E s \in Sockets : RegisterRefused(p, s)
    \/ Delete(p)
    \/ DeleteRefused(p)
    \/ Replace(p)
    \/ ReplaceFails(p)
    \/ ReplaceReportsError(p)
    \/ MigrationDone(p)
    \/ CommitDone(p)
    \/ Crash(p)

Next == \E p \in Procs : Step(p)

Spec == Init /\ [][Next]_vars

(* A waiter's own retry loop runs; nothing is assumed of the lock holder.  *)
WaiterFairness ==
    \A p \in Procs :
        WF_vars(Acquire(p) \/ LockRetry(p) \/ LockTimeout(p))

FairSpec == Spec /\ WaiterFairness

-----------------------------------------------------------------------------
TypeOK ==
    /\ disk \in DiskFile
    /\ lock \in Procs \cup {NoProc}
    /\ pc \in [Procs -> Places]
    /\ job \in [Procs -> Jobs]
    /\ waited \in [Procs -> 0 .. LockPatience]
    /\ tx \in [Procs -> DiskFile]
    /\ seen \in [Procs -> Known]
    /\ owner \in [Handle -> Instances \cup {NoInstance}]

(* Everything between taking servers.lock and the end of the atomic        *)
(* replacement happens under that lock, so two transactions never overlap: *)
(* "keep the exact handle that acquired the lock alive until the atomic    *)
(* replacement (or its failure) has completed".                            *)
OneTransaction ==
    \A p, q \in Procs : pc[p] \in Holding /\ pc[q] \in Holding => p = q

(* A handle names one server instance for the whole life of the registry:  *)
(* whatever was registered, deleted, aborted, crashed or migrated since,   *)
(* a record under a handle belongs to the first instance committed there.  *)
(* A stop or status command given an old handle never reaches another      *)
(* server.                                                                 *)
HandleNamesOneInstance ==
    disk.form = "v1" /\ ValidRegistry(disk) =>
        \A h \in Present(disk) : disk.servers[h].instance = owner[h]

(* The (handle, instance) pair stop_server took from its snapshot, and     *)
(* uses long after it let the lock go, is never stale in a harmful way:    *)
(* the handle still names that instance or no record at all, so            *)
(* compare_and_delete removes the right record or nothing.                 *)
SeenIsSameOrGone ==
    \A p \in Procs :
        seen[p] # Nothing =>
            \/ disk.servers[seen[p].handle] = NoRecord
            \/ disk.servers[seen[p].handle].instance = seen[p].instance

(* Two identity-bound servers never share a socket, however their starts   *)
(* interleave (ensure_socket_available is checked inside the transaction   *)
(* that inserts).                                                          *)
BoundSocketsDistinct == SocketsDistinct(disk)

(* What a handle, a remembered pair and a socket are taken to mean stays   *)
(* true across every interleaving, crash and migration.                    *)
RecordsStayTrue ==
    HandleNamesOneInstance /\ SeenIsSameOrGone /\ BoundSocketsDistinct

(* Every change of servers.json raises its revision and never lowers       *)
(* next_handle, so a reader can tell any two contents of it apart.         *)
RevisionTellsFilesApart ==
    [][ /\ disk'.rev > disk.rev
        /\ disk.form = "v1" => disk'.next >= disk.next ]_disk

(* A file the loader refuses (malformed, unsupported, inconsistent, or     *)
(* legacy with an exhausted handle) is never overwritten.                  *)
RefusedFilePreserved ==
    [][ /\ disk.form # "unreadable"
        /\ disk.form = "v1" => \A h \in Present(disk) : h < disk.next
        /\ disk.form = "legacy" => MaxU64 \notin Present(disk) ]_disk

(* Waiting for the registry lock ends, even when the holder is wedged and  *)
(* never lets go.                                                          *)
WaitEnds == \A p \in Procs : pc[p] = "waiting" ~> pc[p] # "waiting"

(* The file behaves as one value changed by indivisible steps: no update   *)
(* is lost, none is applied halfway, none is computed from a stale copy.   *)
Promise == INSTANCE AtomicRegistry WITH file <- disk
AtomicFile == Promise!ASpec

-----------------------------------------------------------------------------
(* The inductive invariant.  The lock and the program counters agree; a    *)
(* private copy is the current file, or a legal successor of it that waits *)
(* to be written; the file itself is sound; each handle keeps its first    *)
(* owner; and what a process knows is what the owner history says.         *)

LockMatches == \A p \in Procs : pc[p] \in Holding <=> lock = p

CopyMatches(p) ==
    /\ pc[p] = "migrating" => MigrationOf(disk, tx[p])
    /\ pc[p] \in {"migrated", "open"} =>
          Loadable(disk) /\ tx[p] = AsV1(disk)
    /\ pc[p] = "writing" =>
          \/ job[p] = "register" /\ RegistrationOf(disk, tx[p])
          \/ job[p] = "delete" /\ DeletionOf(disk, tx[p])
    /\ pc[p] = "replaced" =>
          /\ Loadable(disk) /\ tx[p] = disk
          /\ job[p] = "register" => disk.next - 1 \in Present(disk)

FileSound == WellFormed(disk) /\ SocketsDistinct(disk)

OwnersFixed ==
    /\ disk.form = "legacy" => \A h \in Handle : owner[h] = NoInstance
    /\ Loadable(disk) => \A h \in Handle :
          /\ h \in Present(disk) => owner[h] = disk.servers[h].instance
          /\ h >= disk.next => owner[h] = NoInstance

SeenOwned(p) ==
    /\ job[p] = "delete" => seen[p] # Nothing
    /\ seen[p] # Nothing =>
          /\ Loadable(disk)
          /\ seen[p].handle \in Handle
          /\ seen[p].instance \in Instances
          /\ owner[seen[p].handle] = seen[p].instance

(* Everything the proofs carry from one step of the registry code to the   *)
(* next.                                                                   *)
IInv ==
    /\ TypeOK
    /\ LockMatches
    /\ \A p \in Procs : CopyMatches(p)
    /\ FileSound
    /\ OwnersFixed
    /\ \A p \in Procs : SeenOwned(p)

=============================================================================
