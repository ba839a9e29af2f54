------------------------ MODULE JupyterRegistryProofs -----------------------
(***************************************************************************)
(* Proofs about JupyterRegistry, for every set of processes, instances and *)
(* sockets, every u64 bound and every set of first files.                  *)
(***************************************************************************)
EXTENDS JupyterRegistry, RegistryDataProofs, TLAPS

-----------------------------------------------------------------------------
(* The inductive step, one lemma per conjunct of IInv.                     *)

(* Under the lock, an edit of the private copy is an edit of the file.     *)
LEMMA CopyRegisters ==
    ASSUME IInv, NEW p \in Procs, NEW i \in Instances, NEW s \in Sockets,
           Register(p, i, s)
    PROVE  RegistrationOf(disk, tx'[p])
<1>1. Loadable(disk) /\ tx[p] = AsV1(disk) /\ disk \in DiskFile
  BY DEF Register, IInv, CopyMatches, TypeOK
<1>2. /\ tx[p].next = disk.next /\ tx[p].rev = disk.rev
      /\ tx[p].servers = disk.servers
  BY <1>1, AsV1Type
<1>3. /\ ~ SocketTaken(disk, s) /\ CanAllocate(disk)
      /\ tx'[p] = Inserted(Allocated(AsV1(disk)), disk.next, Bound(i, s))
  BY <1>1, <1>2 DEF Register, SocketTaken, CanAllocate, Present, IInv, TypeOK
<1>4. CanInsert(Allocated(disk), disk.next)
  <2>1. CanAllocate(AsV1(disk)) /\ AsV1(disk) \in DiskFile
    BY <1>1, <1>2, <1>3, AsV1Type DEF CanAllocate
  <2>2. /\ Allocated(AsV1(disk)).servers = disk.servers
        /\ Allocated(AsV1(disk)).rev = disk.rev + 1
    BY <1>1, <1>2, <2>1, AllocatedType
  <2>3. /\ Allocated(disk).servers = disk.servers
        /\ Allocated(disk).rev = disk.rev + 1
    BY <1>1, <1>3, AllocatedType
  <2>4. CanInsert(Allocated(AsV1(disk)), disk.next)
    BY <1>1, <1>2 DEF Register
  <2> QED
    BY <2>2, <2>3, <2>4 DEF CanInsert
<1> QED
  BY <1>1, <1>3, <1>4 DEF RegistrationOf

LEMMA CopyDeletes ==
    ASSUME IInv, NEW p \in Procs, Delete(p)
    PROVE  DeletionOf(disk, tx'[p])
<1>1. Loadable(disk) /\ tx[p] = AsV1(disk) /\ disk \in DiskFile
  BY DEF Delete, IInv, CopyMatches, TypeOK
<1>2. /\ tx[p].next = disk.next /\ tx[p].rev = disk.rev
      /\ tx[p].servers = disk.servers
  BY <1>1, AsV1Type
<1>3. seen[p].handle \in Handle /\ seen[p].instance \in Instances
  BY DEF Delete, IInv, SeenOwned
<1>4. /\ Matches(disk, seen[p].handle, seen[p].instance) /\ CanDelete(disk)
      /\ tx'[p] = Deleted(AsV1(disk), seen[p].handle)
  BY <1>1, <1>2 DEF Delete, Matches, CanDelete, IInv, TypeOK
<1> QED
  BY <1>1, <1>3, <1>4 DEF DeletionOf

(* Every step keeps the types.                                              *)
LEMMA TypeStep ==
    ASSUME IInv, NEW p \in Procs, Step(p)
    PROVE  TypeOK'
<1> USE DEF IInv, TypeOK
<1>1. ASSUME NEW j \in Jobs \ {"none"}, Begin(p, j) PROVE TypeOK'
  BY <1>1, PatienceAssumption DEF Begin, Goto, Places
<1>2. ASSUME Acquire(p) PROVE TypeOK'
  BY <1>2 DEF Acquire, Goto, Places, Holding, Jobs
<1>3. ASSUME LockRetry(p) PROVE TypeOK'
  BY <1>3, PatienceAssumption DEF LockRetry
<1>4. ASSUME LockTimeout(p) PROVE TypeOK'
  BY <1>4 DEF LockTimeout, Goto, Places, Holding, Jobs
<1>5. ASSUME LoadRefused(p) PROVE TypeOK'
  BY <1>5, EmptyType DEF LoadRefused, Release, Goto, Places, Jobs
<1>6. ASSUME Load(p) PROVE TypeOK'
  <2>1. tx' \in [Procs -> DiskFile]
    BY <1>6, AsV1Type DEF Load
  <2> QED
    BY <1>6, <2>1 DEF Load, Goto, Places, Holding
<1>7. ASSUME LoadLegacy(p) PROVE TypeOK'
  <2>1. PICK n \in Handle, ids \in [Handle -> Instances] :
            tx' = [tx EXCEPT ![p] = Migrated(disk, n, ids)]
    BY <1>7 DEF LoadLegacy
  <2>2. tx' \in [Procs -> DiskFile]
    BY <2>1, MigratedType
  <2> QED
    BY <1>7, <2>2 DEF LoadLegacy, Goto, Places, Holding
<1>8. ASSUME Snapshot(p) PROVE TypeOK'
  <2>1. ASSUME NEW h \in Present(tx[p])
        PROVE  [handle |-> h, instance |-> tx[p].servers[h].instance] \in Known
    <3>1. tx[p] \in DiskFile /\ h \in Handle /\ tx[p].servers[h] # NoRecord
      BY DEF Present
    <3>2. tx[p].servers[h] \in Record
      BY <3>1 DEF DiskFile, Servers
    <3> QED
      BY <3>1, <3>2 DEF Known, Record, Handle, U64
  <2>2. Nothing \in Known
    BY BoundsAssumption DEF Nothing, Known, U64
  <2>3. seen' \in [Procs -> Known]
    BY <1>8, <2>1, <2>2 DEF Snapshot
  <2> QED
    BY <1>8, <2>3, EmptyType DEF Snapshot, Release, Goto, Places, Jobs
<1>9. ASSUME NEW i \in Instances, NEW s \in Sockets, Register(p, i, s) PROVE TypeOK'
  <2>1. RegistrationOf(disk, tx'[p]) /\ Sound(disk)
    BY <1>9, CopyRegisters DEF FileSound, Sound
  <2>2. tx'[p] \in DiskFile
    BY <2>1, RegistrationSound DEF SoundV1
  <2>3. tx' \in [Procs -> DiskFile]
    BY <1>9, <2>2 DEF Register
  <2> QED
    BY <1>9, <2>3 DEF Register, Goto, Places, Holding
<1>10. ASSUME NEW s \in Sockets, RegisterRefused(p, s) PROVE TypeOK'
  BY <1>10, EmptyType DEF RegisterRefused, Release, Goto, Places, Jobs
<1>11. ASSUME Delete(p) PROVE TypeOK'
  <2>1. DeletionOf(disk, tx'[p]) /\ Sound(disk)
    BY <1>11, CopyDeletes DEF FileSound, Sound
  <2>2. tx'[p] \in DiskFile
    BY <2>1, DeletionSound DEF SoundV1
  <2>3. tx' \in [Procs -> DiskFile]
    BY <1>11, <2>2 DEF Delete
  <2> QED
    BY <1>11, <2>3 DEF Delete, Goto, Places, Holding
<1>12. ASSUME DeleteRefused(p) PROVE TypeOK'
  BY <1>12, EmptyType DEF DeleteRefused, Release, Goto, Places, Jobs
<1>13. ASSUME Replace(p) PROVE TypeOK'
  <2>1. FirstOwner(tx[p]) \in [Handle -> Instances \cup {NoInstance}]
    BY DEF FirstOwner, DiskFile, Servers, Record
  <2> QED
    BY <1>13, <2>1 DEF Replace, Goto, Places, Holding
<1>14. ASSUME ReplaceFails(p) PROVE TypeOK'
  BY <1>14, EmptyType DEF ReplaceFails, Release, Goto, Places, Jobs
<1>15. ASSUME ReplaceReportsError(p) PROVE TypeOK'
  BY <1>15, EmptyType DEF ReplaceReportsError, Release, Goto, Places, Jobs
<1>16. ASSUME MigrationDone(p) PROVE TypeOK'
  BY <1>16 DEF MigrationDone, Goto, Places, Holding, Jobs
<1>17. ASSUME CommitDone(p) PROVE TypeOK'
  <2>1. seen' \in [Procs -> Known]
    <3>1. CASE job[p] = "register"
      <4> DEFINE h == tx[p].next - 1
      <4>1. h \in Present(tx[p])
        BY <1>17, <3>1 DEF CommitDone, CopyMatches
      <4>2. h \in U64 /\ tx[p].servers[h].instance \in Instances \cup {NoInstance}
        <5> HIDE DEF h
        <5>1. h \in Handle /\ tx[p].servers[h] # NoRecord /\ tx[p] \in DiskFile
          BY <4>1 DEF Present
        <5>2. tx[p].servers[h] \in Record
          BY <5>1 DEF DiskFile, Servers
        <5> QED
          BY <5>1, <5>2 DEF Handle, U64, Record
      <4> HIDE DEF h
      <4>3. [handle |-> h, instance |-> tx[p].servers[h].instance] \in Known
        BY <4>2 DEF Known
      <4> QED
        BY <1>17, <3>1, <4>3 DEF CommitDone, h
    <3>2. CASE job[p] # "register"
      BY <1>17, <3>2 DEF CommitDone
    <3> QED
      BY <3>1, <3>2
  <2> QED
    BY <1>17, <2>1, EmptyType DEF CommitDone, Release, Goto, Places, Jobs
<1>18. ASSUME Crash(p) PROVE TypeOK'
  <2>1. Nothing \in Known
    BY BoundsAssumption DEF Nothing, Known, U64
  <2> QED
    BY <1>18, <2>1, EmptyType DEF Crash, Goto, Places, Jobs
<1> QED
  BY <1>1, <1>2, <1>3, <1>4, <1>5, <1>6, <1>7, <1>8, <1>9, <1>10, <1>11,
     <1>12, <1>13, <1>14, <1>15, <1>16, <1>17, <1>18 DEF Step

(* Every step keeps the lock and the program counters in agreement.         *)
LEMMA LockStep ==
    ASSUME IInv, NEW p \in Procs, Step(p)
    PROVE  LockMatches'
<1> USE ProcAssumption DEF IInv, TypeOK, LockMatches, Holding, Places
<1>1. ASSUME NEW j \in Jobs \ {"none"}, Begin(p, j) PROVE LockMatches'
  BY <1>1 DEF Begin, Goto
<1>2. ASSUME Acquire(p) PROVE LockMatches'
  BY <1>2 DEF Acquire, Goto
<1>3. ASSUME LockRetry(p) PROVE LockMatches'
  BY <1>3 DEF LockRetry
<1>4. ASSUME LockTimeout(p) PROVE LockMatches'
  BY <1>4 DEF LockTimeout, Goto
<1>5. ASSUME LoadRefused(p) PROVE LockMatches'
  BY <1>5 DEF LoadRefused, Release, Goto
<1>6. ASSUME Load(p) PROVE LockMatches'
  BY <1>6 DEF Load, Goto
<1>7. ASSUME LoadLegacy(p) PROVE LockMatches'
  BY <1>7 DEF LoadLegacy, Goto
<1>8. ASSUME Snapshot(p) PROVE LockMatches'
  BY <1>8 DEF Snapshot, Release, Goto
<1>9. ASSUME NEW i \in Instances, NEW s \in Sockets, Register(p, i, s) PROVE LockMatches'
  BY <1>9 DEF Register, Goto
<1>10. ASSUME NEW s \in Sockets, RegisterRefused(p, s) PROVE LockMatches'
  BY <1>10 DEF RegisterRefused, Release, Goto
<1>11. ASSUME Delete(p) PROVE LockMatches'
  BY <1>11 DEF Delete, Goto
<1>12. ASSUME DeleteRefused(p) PROVE LockMatches'
  BY <1>12 DEF DeleteRefused, Release, Goto
<1>13. ASSUME Replace(p) PROVE LockMatches'
  BY <1>13 DEF Replace, Goto
<1>14. ASSUME ReplaceFails(p) PROVE LockMatches'
  BY <1>14 DEF ReplaceFails, Release, Goto
<1>15. ASSUME ReplaceReportsError(p) PROVE LockMatches'
  BY <1>15 DEF ReplaceReportsError, Release, Goto
<1>16. ASSUME MigrationDone(p) PROVE LockMatches'
  BY <1>16 DEF MigrationDone, Goto
<1>17. ASSUME CommitDone(p) PROVE LockMatches'
  BY <1>17 DEF CommitDone, Release, Goto
<1>18. ASSUME Crash(p) PROVE LockMatches'
  BY <1>18 DEF Crash, Goto
<1> QED
  BY <1>1, <1>2, <1>3, <1>4, <1>5, <1>6, <1>7, <1>8, <1>9, <1>10, <1>11,
     <1>12, <1>13, <1>14, <1>15, <1>16, <1>17, <1>18 DEF Step

(* servers.json and the owner history change in Replace only.              *)
LEMMA OnlyReplaceWrites ==
    ASSUME NEW p \in Procs, Step(p)
    PROVE  UNCHANGED <<disk, owner>> \/ Replace(p)
BY DEF Step, Begin, Acquire, LockRetry, LockTimeout, LoadRefused, Load,
       LoadLegacy, Snapshot, Register, RegisterRefused, Delete, DeleteRefused,
       ReplaceFails, ReplaceReportsError, MigrationDone, CommitDone, Crash

LEMMA ReplaceSucceeds ==
    ASSUME IInv, NEW p \in Procs, Replace(p)
    PROVE  Successor(disk, disk')
BY DEF Replace, IInv, CopyMatches, Successor

(* A step of one process leaves the transaction of another as it was.      *)
LEMMA OthersKeep ==
    ASSUME IInv, NEW p \in Procs, Step(p), NEW q \in Procs, q # p
    PROVE  /\ pc'[q] = pc[q] /\ tx'[q] = tx[q] /\ job'[q] = job[q]
           /\ pc[q] \in Holding => disk' = disk
<1> USE DEF IInv, TypeOK
<1>1. pc'[q] = pc[q] /\ tx'[q] = tx[q] /\ job'[q] = job[q]
  BY DEF Step, Begin, Acquire, LockRetry, LockTimeout, LoadRefused, Load,
         LoadLegacy, Snapshot, Register, RegisterRefused, Delete,
         DeleteRefused, Replace, ReplaceFails, ReplaceReportsError,
         MigrationDone, CommitDone, Crash, Release, Goto
<1>2. ASSUME pc[q] \in Holding PROVE disk' = disk
  <2>1. ~ Replace(p)
    BY <1>2 DEF Replace, LockMatches, Holding
  <2> QED
    BY <2>1, OnlyReplaceWrites
<1> QED
  BY <1>1, <1>2

(* Every step keeps its own process's copy related to the file.             *)
LEMMA CopyStepSelf ==
    ASSUME IInv, NEW p \in Procs, Step(p)
    PROVE  CopyMatches(p)'
<1> USE DEF IInv, TypeOK
<1>1. ASSUME NEW j \in Jobs \ {"none"}, Begin(p, j) PROVE CopyMatches(p)'
  <2>1. pc'[p] \in {"idle", "waiting", "loading"}
    BY <1>1 DEF Begin, Goto
  <2> QED
    BY <2>1 DEF CopyMatches
<1>2. ASSUME Acquire(p) PROVE CopyMatches(p)'
  <2>1. pc'[p] \in {"idle", "waiting", "loading"}
    BY <1>2 DEF Acquire, Goto
  <2> QED
    BY <2>1 DEF CopyMatches
<1>3. ASSUME LockRetry(p) PROVE CopyMatches(p)'
  <2>1. pc'[p] \in {"idle", "waiting", "loading"}
    BY <1>3 DEF LockRetry
  <2> QED
    BY <2>1 DEF CopyMatches
<1>4. ASSUME LockTimeout(p) PROVE CopyMatches(p)'
  <2>1. pc'[p] \in {"idle", "waiting", "loading"}
    BY <1>4 DEF LockTimeout, Goto
  <2> QED
    BY <2>1 DEF CopyMatches
<1>5. ASSUME LoadRefused(p) PROVE CopyMatches(p)'
  <2>1. pc'[p] \in {"idle", "waiting", "loading"}
    BY <1>5 DEF LoadRefused, Release, Goto
  <2> QED
    BY <2>1 DEF CopyMatches
<1>6. ASSUME Load(p) PROVE CopyMatches(p)'
  <2>1. Loadable(disk') /\ tx'[p] = AsV1(disk') /\ pc'[p] = "open"
    BY <1>6 DEF Load, Goto
  <2> QED
    BY <2>1 DEF CopyMatches
<1>7. ASSUME LoadLegacy(p) PROVE CopyMatches(p)'
  <2>1. MigrationOf(disk, tx'[p])
    BY <1>7 DEF LoadLegacy, MigrationOf
  <2>2. disk' = disk /\ pc'[p] = "migrating"
    BY <1>7 DEF LoadLegacy, Goto
  <2> QED
    BY <2>1, <2>2 DEF CopyMatches
<1>8. ASSUME Snapshot(p) PROVE CopyMatches(p)'
  <2>1. pc'[p] \in {"idle", "waiting", "loading"}
    BY <1>8 DEF Snapshot, Release, Goto
  <2> QED
    BY <2>1 DEF CopyMatches
<1>9. ASSUME NEW i \in Instances, NEW s \in Sockets, Register(p, i, s) PROVE CopyMatches(p)'
  <2>1. RegistrationOf(disk, tx'[p])
    BY <1>9, CopyRegisters
  <2>2. disk' = disk /\ pc'[p] = "writing" /\ job'[p] = "register"
    BY <1>9 DEF Register, Goto
  <2> QED
    BY <2>1, <2>2 DEF CopyMatches
<1>10. ASSUME NEW s \in Sockets, RegisterRefused(p, s) PROVE CopyMatches(p)'
  <2>1. pc'[p] \in {"idle", "waiting", "loading"}
    BY <1>10 DEF RegisterRefused, Release, Goto
  <2> QED
    BY <2>1 DEF CopyMatches
<1>11. ASSUME Delete(p) PROVE CopyMatches(p)'
  <2>1. DeletionOf(disk, tx'[p])
    BY <1>11, CopyDeletes
  <2>2. disk' = disk /\ pc'[p] = "writing" /\ job'[p] = "delete"
    BY <1>11 DEF Delete, Goto
  <2> QED
    BY <2>1, <2>2 DEF CopyMatches
<1>12. ASSUME DeleteRefused(p) PROVE CopyMatches(p)'
  <2>1. pc'[p] \in {"idle", "waiting", "loading"}
    BY <1>12 DEF DeleteRefused, Release, Goto
  <2> QED
    BY <2>1 DEF CopyMatches
<1>13. ASSUME Replace(p) PROVE CopyMatches(p)'
  <2>1. /\ disk' = tx[p] /\ tx' = tx /\ job' = job
        /\ pc'[p] = IF pc[p] = "migrating" THEN "migrated" ELSE "replaced"
    BY <1>13 DEF Replace, Goto
  <2>2. SoundV1(disk')
    BY <1>13, ReplaceSucceeds, MigrationSound, RegistrationSound, DeletionSound
       DEF Successor, FileSound, Sound
  <2>3. Loadable(disk') /\ AsV1(disk') = disk'
    BY <2>2 DEF SoundV1, Loadable, AsV1, DiskFile
  <2>4. ASSUME pc[p] = "writing", job[p] = "register"
        PROVE  disk'.next - 1 \in Present(disk')
    <3>1. RegistrationOf(disk, disk') /\ disk \in DiskFile /\ Sound(disk)
      BY <2>1, <2>4 DEF CopyMatches, FileSound, Sound
    <3>2. disk'.next = disk.next + 1 /\ disk.next \in Present(disk')
      BY <3>1, RegistrationSound
    <3> QED
      BY <3>1, <3>2 DEF DiskFile, U64
  <2>5. pc[p] \in {"migrating", "writing"}
    BY <1>13 DEF Replace
  <2> QED
    BY <2>1, <2>3, <2>4, <2>5 DEF CopyMatches
<1>14. ASSUME ReplaceFails(p) PROVE CopyMatches(p)'
  <2>1. pc'[p] \in {"idle", "waiting", "loading"}
    BY <1>14 DEF ReplaceFails, Release, Goto
  <2> QED
    BY <2>1 DEF CopyMatches
<1>15. ASSUME ReplaceReportsError(p) PROVE CopyMatches(p)'
  <2>1. pc'[p] \in {"idle", "waiting", "loading"}
    BY <1>15 DEF ReplaceReportsError, Release, Goto
  <2> QED
    BY <2>1 DEF CopyMatches
<1>16. ASSUME MigrationDone(p) PROVE CopyMatches(p)'
  <2>1. /\ pc[p] = "migrated" /\ pc'[p] = "open"
        /\ disk' = disk /\ tx' = tx
    BY <1>16 DEF MigrationDone, Goto
  <2> QED
    BY <2>1 DEF CopyMatches
<1>17. ASSUME CommitDone(p) PROVE CopyMatches(p)'
  <2>1. pc'[p] \in {"idle", "waiting", "loading"}
    BY <1>17 DEF CommitDone, Release, Goto
  <2> QED
    BY <2>1 DEF CopyMatches
<1>18. ASSUME Crash(p) PROVE CopyMatches(p)'
  <2>1. pc'[p] \in {"idle", "waiting", "loading"}
    BY <1>18 DEF Crash, Goto
  <2> QED
    BY <2>1 DEF CopyMatches
<1> QED
  BY <1>1, <1>2, <1>3, <1>4, <1>5, <1>6, <1>7, <1>8, <1>9, <1>10, <1>11,
     <1>12, <1>13, <1>14, <1>15, <1>16, <1>17, <1>18 DEF Step

LEMMA CopyStep ==
    ASSUME IInv, NEW p \in Procs, Step(p), NEW q \in Procs
    PROVE  CopyMatches(q)'
<1>1. CASE q = p
  BY <1>1, CopyStepSelf
<1>2. CASE q # p
  <2>1. /\ pc'[q] = pc[q] /\ tx'[q] = tx[q] /\ job'[q] = job[q]
        /\ pc[q] \in Holding => disk' = disk
    BY <1>2, OthersKeep
  <2>2. CopyMatches(q)
    BY DEF IInv
  <2> QED
    BY <2>1, <2>2 DEF CopyMatches, Holding
<1> QED
  BY <1>1, <1>2

(* A replaced file is sound, keeps the owners it had and names a first     *)
(* owner only at a handle no one has owned.                                *)
LEMMA FileStep ==
    ASSUME IInv, NEW p \in Procs, Step(p)
    PROVE  FileSound'
<1>1. CASE Replace(p)
  BY <1>1, ReplaceSucceeds, MigrationSound, RegistrationSound, DeletionSound
     DEF Successor, FileSound, Sound, SoundV1, IInv, TypeOK
<1>2. CASE UNCHANGED <<disk, owner>>
  BY <1>2 DEF FileSound, IInv
<1> QED
  BY <1>1, <1>2, OnlyReplaceWrites

LEMMA OwnersStep ==
    ASSUME IInv, NEW p \in Procs, Step(p)
    PROVE  /\ OwnersFixed'
           /\ \A h \in Handle : owner[h] # NoInstance => owner'[h] = owner[h]
           /\ Loadable(disk) => Loadable(disk')
<1> USE DEF IInv, TypeOK
<1>1. CASE UNCHANGED <<disk, owner>>
  BY <1>1 DEF OwnersFixed
<1>2. CASE Replace(p)
  <2>1. /\ disk' = tx[p]
        /\ owner' = [h \in Handle |->
                        IF owner[h] = NoInstance THEN FirstOwner(disk')[h]
                        ELSE owner[h]]
    BY <1>2 DEF Replace
  <2>2. SoundV1(disk') /\ Sound(disk)
    BY <1>2, ReplaceSucceeds, MigrationSound, RegistrationSound, DeletionSound
       DEF Successor, FileSound, Sound
  <2>3. /\ disk'.form # "legacy" /\ Loadable(disk')
        /\ \A h \in Present(disk') : disk'.servers[h].instance \in Instances
    BY <2>2 DEF SoundV1, Loadable, Sound, WellFormed
  <2>4. \A h \in Handle : owner'[h] =
           IF owner[h] # NoInstance THEN owner[h]
           ELSE IF h \in Present(disk') THEN disk'.servers[h].instance
           ELSE NoInstance
    BY <2>1 DEF FirstOwner, Present
  <2>5. ASSUME NEW h \in Handle
        PROVE  /\ h \in Present(disk') => owner'[h] = disk'.servers[h].instance
               /\ h >= disk'.next => owner'[h] = NoInstance
    <3>1. CASE MigrationOf(disk, disk')
      <4>1. owner[h] = NoInstance
        BY <3>1, <2>2, MigrationSound DEF OwnersFixed
      <4>2. h >= disk'.next => h \notin Present(disk')
        BY <2>2 DEF SoundV1, ValidRegistry, DiskFile, U64, Handle
      <4> QED
        BY <2>4, <4>1, <4>2
    <3>2. CASE RegistrationOf(disk, disk')
      <4>1. /\ Loadable(disk) /\ disk'.next = disk.next + 1
            /\ h # disk.next => disk'.servers[h] = disk.servers[h]
        BY <3>2, <2>2, RegistrationSound
      <4>2. /\ h \in Present(disk) => owner[h] = disk.servers[h].instance
            /\ h >= disk.next => owner[h] = NoInstance
        BY <4>1 DEF OwnersFixed
      <4>3. h >= disk'.next => h \notin Present(disk')
        BY <2>2 DEF SoundV1, ValidRegistry, DiskFile, U64, Handle
      <4>4. h >= disk'.next => h >= disk.next
        BY <4>1 DEF DiskFile, U64, Handle
      <4>5. CASE h = disk.next
        <5>1. owner[h] = NoInstance
          BY <4>2, <4>5 DEF Handle
        <5> QED
          BY <2>4, <4>3, <5>1
      <4>6. CASE h # disk.next
        <5>1. h \in Present(disk') => h \in Present(disk)
          BY <4>1, <4>6 DEF Present
        <5>2. h \in Present(disk') => disk'.servers[h] = disk.servers[h]
          BY <4>1, <4>6
        <5>3. h \in Present(disk') => owner[h] = disk'.servers[h].instance
          BY <4>2, <5>1, <5>2
        <5> QED
          BY <2>4, <4>2, <4>3, <4>4, <5>3
      <4> QED
        BY <4>5, <4>6
    <3>3. CASE DeletionOf(disk, disk')
      <4>1. /\ Loadable(disk) /\ disk'.next = disk.next
            /\ h \in Present(disk') =>
                  h \in Present(disk) /\ disk'.servers[h] = disk.servers[h]
        BY <3>3, <2>2, DeletionSound
      <4>2. /\ h \in Present(disk) => owner[h] = disk.servers[h].instance
            /\ h >= disk.next => owner[h] = NoInstance
        BY <4>1 DEF OwnersFixed
      <4>3. h >= disk'.next => h \notin Present(disk')
        BY <2>2 DEF SoundV1, ValidRegistry, DiskFile, U64, Handle
      <4> QED
        BY <2>4, <4>1, <4>2, <4>3
    <3> QED
      BY <1>2, <3>1, <3>2, <3>3, ReplaceSucceeds DEF Successor
  <2> QED
    BY <2>3, <2>4, <2>5 DEF OwnersFixed
<1> QED
  BY <1>1, <1>2, OnlyReplaceWrites

(* Knowledge about another process's record, or one's own, outlives every  *)
(* step: owners are never replaced.                                        *)
LEMMA SeenStep ==
    ASSUME IInv, NEW p \in Procs, Step(p), NEW q \in Procs
    PROVE  SeenOwned(q)'
<1> USE DEF IInv, TypeOK
<1>1. /\ \A h \in Handle : owner[h] # NoInstance => owner'[h] = owner[h]
      /\ Loadable(disk) => Loadable(disk')
  BY OwnersStep
<1>2. ASSUME seen'[q] = seen[q], job'[q] = "delete" => seen[q] # Nothing
      PROVE  SeenOwned(q)'
  <2>1. seen[q].instance # NoInstance \/ seen[q] = Nothing
    BY NoInstanceAssumption DEF SeenOwned
  <2> QED
    BY <1>1, <1>2, <2>1 DEF SeenOwned
<1>3. CASE q # p
  <2>1. seen'[q] = seen[q] /\ job'[q] = job[q]
    BY <1>3 DEF Step, Begin, Acquire, LockRetry, LockTimeout, LoadRefused,
         Load, LoadLegacy, Snapshot, Register, RegisterRefused, Delete,
         DeleteRefused, Replace, ReplaceFails, ReplaceReportsError,
         MigrationDone, CommitDone, Crash, Release, Goto
  <2> QED
    BY <1>2, <2>1 DEF SeenOwned
<1>4. CASE q = p
  <2>1. ASSUME Snapshot(p) PROVE SeenOwned(p)'
    <3>1. /\ disk' = disk /\ owner' = owner /\ job'[p] = "none"
          /\ Loadable(disk) /\ tx[p] = AsV1(disk)
      BY <2>1 DEF Snapshot, Release, CopyMatches
    <3>2. CASE seen'[p] = Nothing
      BY <3>1, <3>2 DEF SeenOwned
    <3>3. CASE seen'[p] # Nothing
      <4>1. PICK h \in Present(tx[p]) :
               seen'[p] = [handle |-> h, instance |-> tx[p].servers[h].instance]
        BY <2>1, <3>3 DEF Snapshot
      <4>2. h \in Present(disk) /\ tx[p].servers = disk.servers
        BY <3>1, <4>1, AsV1Type DEF Present
      <4>3. h \in Handle /\ disk.form = "v1"
        BY <3>1, <4>2
           DEF Loadable, FileSound, WellFormed, Empty, NoServers, Present
      <4>4. disk.servers[h].instance \in Instances
        BY <4>2, <4>3 DEF FileSound, WellFormed
      <4>5. owner[h] = disk.servers[h].instance
        BY <3>1, <4>2, <4>3 DEF OwnersFixed
      <4> QED
        BY <3>1, <4>1, <4>2, <4>3, <4>4, <4>5 DEF SeenOwned
    <3> QED
      BY <3>2, <3>3
  <2>2. ASSUME CommitDone(p) PROVE SeenOwned(p)'
    <3>1. /\ disk' = disk /\ owner' = owner /\ job'[p] = "none"
          /\ Loadable(disk) /\ tx[p] = disk
      BY <2>2 DEF CommitDone, Release, CopyMatches
    <3>2. CASE job[p] # "register"
      <4>1. seen'[q] = seen[q] /\ job'[q] = "none"
        BY <1>4, <2>2, <3>1, <3>2 DEF CommitDone
      <4> QED
        BY <1>2, <1>4, <4>1
    <3>3. CASE job[p] = "register"
      <4> DEFINE h == disk.next - 1
      <4>1. h \in Present(disk)
        BY <2>2, <3>3 DEF CommitDone, CopyMatches
      <4>2. seen'[p] = [handle |-> h, instance |-> disk.servers[h].instance]
        BY <2>2, <3>1, <3>3 DEF CommitDone
      <4> HIDE DEF h
      <4>3. h \in Handle /\ disk.form = "v1"
        BY <3>1, <4>1
           DEF Loadable, FileSound, WellFormed, Empty, NoServers, Present
      <4>4. disk.servers[h].instance \in Instances
        BY <4>1, <4>3 DEF FileSound, WellFormed
      <4>5. owner[h] = disk.servers[h].instance
        BY <3>1, <4>1, <4>3 DEF OwnersFixed
      <4> QED
        BY <3>1, <4>2, <4>3, <4>4, <4>5 DEF SeenOwned
    <3> QED
      BY <3>2, <3>3
  <2>3. ASSUME Crash(p) PROVE SeenOwned(p)'
    BY <2>3 DEF Crash, SeenOwned
  <2>4. ASSUME ~ Snapshot(p), ~ CommitDone(p), ~ Crash(p)
        PROVE  seen'[p] = seen[p] /\ (job'[p] = "delete" => seen[p] # Nothing)
    BY <2>4 DEF Step, Begin, Acquire, LockRetry, LockTimeout, LoadRefused,
         Load, LoadLegacy, Register, RegisterRefused, Delete,
         DeleteRefused, Replace, ReplaceFails, ReplaceReportsError,
         MigrationDone, Release, Goto, SeenOwned
  <2> QED
    BY <1>2, <1>4, <2>1, <2>2, <2>3, <2>4
<1> QED
  BY <1>3, <1>4

-----------------------------------------------------------------------------
LEMMA IInvInit == Init => IInv
<1> SUFFICES ASSUME Init PROVE IInv
  OBVIOUS
<1>1. disk \in DiskFile /\ WellFormed(disk) /\ SocketsDistinct(disk)
  BY InitialDisksAssumption DEF Init
<1>2. FirstOwner(disk) \in [Handle -> Instances \cup {NoInstance}]
  BY <1>1 DEF FirstOwner, DiskFile, Servers, Record
<1>3. Nothing \in Known
  BY BoundsAssumption DEF Nothing, Known, U64
<1>4. TypeOK
  BY <1>1, <1>2, <1>3, EmptyType, PatienceAssumption
     DEF Init, TypeOK, Places, Jobs
<1>5. LockMatches
  BY ProcAssumption DEF Init, LockMatches, Holding
<1>6. OwnersFixed
  BY <1>1 DEF Init, OwnersFixed, FirstOwner, Present, WellFormed, Loadable,
              ValidRegistry, Handle, DiskFile, U64
<1> QED
  BY <1>1, <1>4, <1>5, <1>6
     DEF Init, IInv, CopyMatches, FileSound, SeenOwned

LEMMA IInvStep == IInv /\ [Next]_vars => IInv'
<1>1. ASSUME IInv, NEW p \in Procs, Step(p) PROVE IInv'
  BY <1>1, TypeStep, LockStep, CopyStep, FileStep, OwnersStep, SeenStep DEF IInv
<1>2. ASSUME IInv, UNCHANGED vars PROVE IInv'
  BY <1>2 DEF IInv, vars, TypeOK, LockMatches, CopyMatches, FileSound,
              OwnersFixed, SeenOwned
<1> QED
  BY <1>1, <1>2 DEF Next

LEMMA Inductive == Spec => []IInv
<1> QED
  BY IInvInit, IInvStep, PTL DEF Spec

-----------------------------------------------------------------------------
(* Every variable keeps its type: no handle, revision or retry count       *)
(* leaves its range, whatever the width of the integers.                   *)
THEOREM TypeCorrect == Spec => []TypeOK
BY Inductive, PTL DEF IInv

(* At most one process is between taking servers.lock and finishing the    *)
(* replacement of servers.json.                                            *)
THEOREM TransactionsExclude == Spec => []OneTransaction
<1>1. IInv => OneTransaction
  BY DEF IInv, LockMatches, OneTransaction
<1> QED
  BY <1>1, Inductive, PTL

(* A handle never comes to name a second server instance.                  *)
THEOREM HandlesNeverReused == Spec => []HandleNamesOneInstance
<1>1. IInv => HandleNamesOneInstance
  BY DEF IInv, OwnersFixed, HandleNamesOneInstance, Loadable, Present
<1> QED
  BY <1>1, Inductive, PTL

(* The record a process remembers from an earlier transaction is still     *)
(* that record, or is gone.                                                *)
THEOREM SeenStaysTrue == Spec => []SeenIsSameOrGone
<1>1. IInv => SeenIsSameOrGone
  BY DEF IInv, OwnersFixed, SeenOwned, SeenIsSameOrGone, Present
<1> QED
  BY <1>1, Inductive, PTL

(* No two identity-bound records ever name one socket.                     *)
THEOREM SocketsStayDistinct == Spec => []BoundSocketsDistinct
<1>1. IInv => BoundSocketsDistinct
  BY DEF IInv, FileSound, BoundSocketsDistinct
<1> QED
  BY <1>1, Inductive, PTL

(* What a record said when it was read, before the lock was released, stays *)
(* true of that handle, that instance and that socket.                     *)
THEOREM RecordsStay == Spec => []RecordsStayTrue
<1>1. HandleNamesOneInstance /\ SeenIsSameOrGone /\ BoundSocketsDistinct
        => RecordsStayTrue
  BY DEF RecordsStayTrue
<1> QED
  BY <1>1, HandlesNeverReused, SeenStaysTrue, SocketsStayDistinct, PTL

(* A file the loader refuses is never overwritten.                         *)
THEOREM RefusedFilesSurvive == Spec => RefusedFilePreserved
<1>1. ASSUME IInv, [Next]_vars
      PROVE  [/\ disk.form # "unreadable"
              /\ disk.form = "v1" => \A h \in Present(disk) : h < disk.next
              /\ disk.form = "legacy" => MaxU64 \notin Present(disk)]_disk
  <2>1. CASE UNCHANGED vars
    BY <2>1 DEF vars
  <2>2. ASSUME NEW p \in Procs, Replace(p)
        PROVE  /\ disk.form # "unreadable"
               /\ disk.form = "v1" => \A h \in Present(disk) : h < disk.next
               /\ disk.form = "legacy" => MaxU64 \notin Present(disk)
    <3>1. Loadable(disk) \/ Migratable(disk)
      BY <1>1, <2>2, ReplaceSucceeds
         DEF Successor, MigrationOf, RegistrationOf, DeletionOf
    <3> QED
      BY <3>1 DEF Loadable, Migratable, ValidRegistry
  <2> QED
    BY <1>1, <2>1, <2>2, OnlyReplaceWrites DEF Next
<1> QED
  BY <1>1, Inductive, PTL DEF Spec, RefusedFilePreserved

(* Every replacement raises the revision and never lowers next_handle.     *)
THEOREM RevisionsRise == Spec => RevisionTellsFilesApart
<1>1. ASSUME IInv, [Next]_vars
      PROVE  [/\ disk'.rev > disk.rev
              /\ disk.form = "v1" => disk'.next >= disk.next]_disk
  <2>1. CASE UNCHANGED vars
    BY <2>1 DEF vars
  <2>2. ASSUME NEW p \in Procs, Replace(p)
        PROVE  /\ disk'.rev > disk.rev
               /\ disk.form = "v1" => disk'.next >= disk.next
    <3>1. Successor(disk, disk') /\ disk \in DiskFile /\ Sound(disk)
      BY <1>1, <2>2, ReplaceSucceeds DEF IInv, TypeOK, FileSound, Sound
    <3>2. /\ disk'.rev > disk.rev
          /\ \/ disk.form = "legacy"
             \/ disk'.next = disk.next + 1
             \/ disk'.next = disk.next
      BY <3>1, MigrationSound, RegistrationSound, DeletionSound DEF Successor
    <3>3. disk.next \in Nat
      BY <3>1 DEF DiskFile, U64
    <3> QED
      BY <3>2, <3>3
  <2> QED
    BY <1>1, <2>1, <2>2, OnlyReplaceWrites DEF Next
<1> QED
  BY <1>1, Inductive, PTL DEF Spec, RevisionTellsFilesApart

(* The instance of AtomicRegistry means by its operators what this module  *)
(* means by them.                                                          *)
LEMMA SameSuccessors ==
    ASSUME NEW old, NEW new
    PROVE  /\ MigrationOf(old, new) <=> Promise!MigrationOf(old, new)
           /\ RegistrationOf(old, new) <=> Promise!RegistrationOf(old, new)
           /\ DeletionOf(old, new) <=> Promise!DeletionOf(old, new)
<1>1. /\ Promise!Handle = Handle
      /\ \A f : Promise!Present(f) = Present(f)
      /\ \A f : Promise!AsV1(f) = AsV1(f)
  BY DEF Handle, Promise!Handle, Present, Promise!Present, AsV1, Promise!AsV1
<1>2. \A f : /\ Promise!Migratable(f) <=> Migratable(f)
             /\ Promise!Loadable(f) <=> Loadable(f)
  BY <1>1 DEF Migratable, Promise!Migratable, Loadable, Promise!Loadable,
              ValidRegistry, Promise!ValidRegistry
<1>3. MigrationOf(old, new) <=> Promise!MigrationOf(old, new)
  <2>1. /\ \A n, used : Promise!IsNextHandle(n, used) <=> IsNextHandle(n, used)
        /\ \A f, n, ids : Promise!Migrated(f, n, ids) = Migrated(f, n, ids)
    BY <1>1 DEF IsNextHandle, Promise!IsNextHandle, Migrated, Promise!Migrated
  <2> QED
    BY <1>1, <1>2, <2>1 DEF MigrationOf, Promise!MigrationOf
<1>4. RegistrationOf(old, new) <=> Promise!RegistrationOf(old, new)
  <2>1. \A f, s : Promise!SocketTaken(f, s) <=> SocketTaken(f, s)
    BY <1>1 DEF SocketTaken, Promise!SocketTaken
  <2>2. \A f : /\ Promise!CanAllocate(f) <=> CanAllocate(f)
               /\ Promise!Allocated(f) = Allocated(f)
    BY DEF CanAllocate, Promise!CanAllocate, Allocated, Promise!Allocated
  <2>3. /\ \A f, h : Promise!CanInsert(f, h) <=> CanInsert(f, h)
        /\ \A f, h, r : Promise!Inserted(f, h, r) = Inserted(f, h, r)
        /\ \A i, s : Promise!Bound(i, s) = Bound(i, s)
    BY DEF CanInsert, Promise!CanInsert, Inserted, Promise!Inserted,
           Bound, Promise!Bound
  <2> QED
    BY <1>1, <1>2, <2>1, <2>2, <2>3 DEF RegistrationOf, Promise!RegistrationOf
<1>5. DeletionOf(old, new) <=> Promise!DeletionOf(old, new)
  <2>1. /\ \A f, h, i : Promise!Matches(f, h, i) <=> Matches(f, h, i)
        /\ \A f : Promise!CanDelete(f) <=> CanDelete(f)
        /\ \A f, h : Promise!Deleted(f, h) = Deleted(f, h)
    BY DEF Matches, Promise!Matches, CanDelete, Promise!CanDelete,
           Deleted, Promise!Deleted
  <2> QED
    BY <1>1, <1>2, <2>1 DEF DeletionOf, Promise!DeletionOf
<1> QED
  BY <1>3, <1>4, <1>5

(* The locked, crash-prone, multi-process file implements one atomic       *)
(* registry: each step replaces the current file by a legal successor of   *)
(* it or leaves it alone.                                                  *)
THEOREM ImplementsAtomicRegistry == Spec => AtomicFile
<1>1. Init => Promise!AInit
  BY DEF Init, Promise!AInit
<1>2. IInv /\ [Next]_vars => [Promise!ANext]_disk
  <2> SUFFICES ASSUME IInv, [Next]_vars PROVE [Promise!ANext]_disk
    OBVIOUS
  <2>1. CASE UNCHANGED vars
    BY <2>1 DEF vars
  <2>2. ASSUME NEW p \in Procs, Replace(p) PROVE Promise!ANext
    <3>1. Successor(disk, disk')
      BY <2>2, ReplaceSucceeds
    <3> QED
      BY <3>1, SameSuccessors DEF Successor, Promise!ANext,
         Promise!AMigrate, Promise!ARegister, Promise!ADeregister
  <2> QED
    BY <2>1, <2>2, OnlyReplaceWrites DEF Next
<1> QED
  BY <1>1, <1>2, Inductive, PTL DEF Spec, AtomicFile, Promise!ASpec

=============================================================================
