------------------------- MODULE RegistryDataProofs -------------------------
(***************************************************************************)
(* What the edits of the registry return and what a legal successor of a   *)
(* sound file keeps, for every set of instances and sockets and every u64  *)
(* bound.  JupyterRegistryProofs and JupyterLifecycleProofs rest on these. *)
(***************************************************************************)
EXTENDS RegistryData, TLAPS

-----------------------------------------------------------------------------
LEMMA EmptyType == Empty \in DiskFile
BY BoundsAssumption DEF Empty, DiskFile, U64, Servers, Handle, NoServers

LEMMA AsV1Type ==
    ASSUME NEW file \in DiskFile
    PROVE  /\ AsV1(file) \in DiskFile
           /\ AsV1(file).form = "v1"
           /\ AsV1(file).rev = file.rev
           /\ AsV1(file).next = file.next
           /\ AsV1(file).servers = file.servers
BY DEF AsV1, DiskFile

LEMMA MigratedType ==
    ASSUME NEW file \in DiskFile, NEW n \in Handle,
           NEW ids \in [Handle -> Instances]
    PROVE  Migrated(file, n, ids) \in DiskFile
<1>1. ASSUME NEW h \in Handle, file.servers[h] # NoRecord
      PROVE  [file.servers[h] EXCEPT !.instance = ids[h], !.bound = FALSE]
                \in Record
  BY <1>1 DEF DiskFile, Servers, Record
<1>2. 1 \in U64 /\ n \in U64
  BY BoundsAssumption DEF U64, Handle
<1> QED
  BY <1>1, <1>2 DEF Migrated, DiskFile, Servers

LEMMA AllocatedType ==
    ASSUME NEW file \in DiskFile, CanAllocate(file)
    PROVE  /\ Allocated(file) \in DiskFile
           /\ Allocated(file).form = file.form
           /\ Allocated(file).next = file.next + 1
           /\ Allocated(file).rev = file.rev + 1
           /\ Allocated(file).servers = file.servers
<1>1. file.next + 1 \in U64 /\ file.rev + 1 \in U64
  BY BoundsAssumption DEF CanAllocate, DiskFile, U64
<1> QED
  BY <1>1 DEF Allocated, DiskFile

LEMMA InsertedType ==
    ASSUME NEW file \in DiskFile, NEW h \in Handle, NEW r \in Record,
           CanInsert(file, h)
    PROVE  /\ Inserted(file, h, r) \in DiskFile
           /\ Inserted(file, h, r).form = file.form
           /\ Inserted(file, h, r).next = file.next
           /\ Inserted(file, h, r).rev = file.rev + 1
           /\ Inserted(file, h, r).servers = [file.servers EXCEPT ![h] = r]
<1>1. file.rev + 1 \in U64
  BY BoundsAssumption DEF CanInsert, DiskFile, U64
<1>2. [file.servers EXCEPT ![h] = r] \in Servers
  BY DEF DiskFile, Servers
<1> QED
  BY <1>1, <1>2 DEF Inserted, DiskFile

LEMMA DeletedType ==
    ASSUME NEW file \in DiskFile, NEW h \in Handle, CanDelete(file)
    PROVE  /\ Deleted(file, h) \in DiskFile
           /\ Deleted(file, h).form = file.form
           /\ Deleted(file, h).next = file.next
           /\ Deleted(file, h).rev = file.rev + 1
           /\ Deleted(file, h).servers = [file.servers EXCEPT ![h] = NoRecord]
<1>1. file.rev + 1 \in U64
  BY BoundsAssumption DEF CanDelete, DiskFile, U64
<1>2. [file.servers EXCEPT ![h] = NoRecord] \in Servers
  BY DEF DiskFile, Servers
<1> QED
  BY <1>1, <1>2 DEF Deleted, DiskFile

LEMMA BoundType ==
    ASSUME NEW i \in Instances, NEW s \in Sockets
    PROVE  Bound(i, s) \in Record
BY DEF Bound, Record

-----------------------------------------------------------------------------
(* What a legal successor of a sound file is: a sound v1 file with a       *)
(* higher revision, whose records are old ones or lie at or above the old  *)
(* next_handle.                                                            *)

Successor(old, new) ==
    \/ MigrationOf(old, new)
    \/ RegistrationOf(old, new)
    \/ DeletionOf(old, new)

Sound(file) == WellFormed(file) /\ SocketsDistinct(file)

SoundV1(file) ==
    /\ file \in DiskFile
    /\ file.form = "v1"
    /\ ValidRegistry(file)
    /\ Sound(file)

LEMMA MigrationSound ==
    ASSUME NEW old \in DiskFile, Sound(old), NEW new, MigrationOf(old, new)
    PROVE  /\ SoundV1(new)
           /\ new.rev > old.rev
           /\ old.form = "legacy"
<1>1. PICK n \in Handle, ids \in [Handle -> Instances] :
          IsNextHandle(n, Present(old)) /\ new = Migrated(old, n, ids)
  BY DEF MigrationOf
<1>2. old.form = "legacy" /\ old.rev = 0
  BY DEF MigrationOf, Migratable, Sound, WellFormed
<1>3. /\ new \in DiskFile
      /\ new.form = "v1" /\ new.rev = 1 /\ new.next = n
  BY <1>1, MigratedType DEF Migrated
<1>4. ASSUME NEW h \in Handle
      PROVE  /\ new.servers[h] = NoRecord <=> old.servers[h] = NoRecord
             /\ new.servers[h] # NoRecord =>
                   /\ new.servers[h] \in Record
                   /\ new.servers[h].instance \in Instances
                   /\ new.servers[h].bound = FALSE
  <2>1. CASE old.servers[h] = NoRecord
    BY <1>1, <2>1 DEF Migrated
  <2>2. CASE old.servers[h] # NoRecord
    <3>1. old.servers[h] \in Record
      BY <2>2 DEF DiskFile, Servers
    <3>2. new.servers[h] =
             [old.servers[h] EXCEPT !.instance = ids[h], !.bound = FALSE]
      BY <1>1, <2>2 DEF Migrated
    <3>3. /\ new.servers[h] \in Record
          /\ new.servers[h].instance = ids[h]
          /\ new.servers[h].bound = FALSE
      BY <3>1, <3>2 DEF Record
    <3> QED
      BY <2>2, <3>3, NoRecordAssumption
  <2> QED
    BY <2>1, <2>2
<1>5. Present(new) = Present(old)
  BY <1>4 DEF Present
<1>6. ValidRegistry(new)
  BY <1>1, <1>3, <1>5 DEF ValidRegistry, IsNextHandle, Handle
<1>7. WellFormed(new) /\ SocketsDistinct(new)
  BY <1>3, <1>4 DEF WellFormed, SocketsDistinct, Present
<1> QED
  BY <1>2, <1>3, <1>6, <1>7 DEF SoundV1, Sound

LEMMA RegistrationSound ==
    ASSUME NEW old \in DiskFile, Sound(old), NEW new, RegistrationOf(old, new)
    PROVE  /\ SoundV1(new)
           /\ new.rev > old.rev
           /\ Loadable(old)
           /\ new.next = old.next + 1
           /\ old.next \in Present(new)
           /\ \A h \in Handle :
                 h # old.next => new.servers[h] = old.servers[h]
<1>1. PICK i \in Instances, s \in Sockets :
          /\ ~ SocketTaken(old, s)
          /\ CanAllocate(old)
          /\ CanInsert(Allocated(old), old.next)
          /\ new = Inserted(Allocated(AsV1(old)), old.next, Bound(i, s))
  BY DEF RegistrationOf
<1>2. Loadable(old) /\ ValidRegistry(old)
  BY DEF RegistrationOf, Loadable
<1> DEFINE mid == Allocated(AsV1(old))
<1>3. /\ mid \in DiskFile /\ mid.form = "v1"
      /\ mid.next = old.next + 1 /\ mid.rev = old.rev + 1
      /\ mid.servers = old.servers
  <2>1. CanAllocate(AsV1(old))
    BY <1>1, AsV1Type DEF CanAllocate
  <2> QED
    BY <2>1, AsV1Type, AllocatedType
<1>4. old.next \in Handle
  BY <1>1, <1>2, BoundsAssumption
     DEF CanAllocate, ValidRegistry, DiskFile, U64, Handle
<1>5. CanInsert(mid, old.next)
  BY <1>1, <1>3, AllocatedType DEF CanInsert
<1>6. Bound(i, s) \in Record
  BY BoundType
<1>7. /\ new \in DiskFile /\ new.form = "v1"
      /\ new.next = old.next + 1 /\ new.rev = old.rev + 2
      /\ new.servers = [old.servers EXCEPT ![old.next] = Bound(i, s)]
  <2> HIDE DEF mid
  <2>1. new = Inserted(mid, old.next, Bound(i, s))
    BY <1>1 DEF mid
  <2>2. /\ new \in DiskFile /\ new.form = "v1"
        /\ new.next = mid.next /\ new.rev = mid.rev + 1
        /\ new.servers = [mid.servers EXCEPT ![old.next] = Bound(i, s)]
    BY <1>3, <1>4, <1>5, <1>6, <2>1, InsertedType
  <2> QED
    BY <1>3, <2>2 DEF DiskFile, U64
<1>8. \A h \in Handle : new.servers[h] =
          IF h = old.next THEN Bound(i, s) ELSE old.servers[h]
  BY <1>4, <1>7 DEF DiskFile, Servers
<1>9. Present(new) = Present(old) \cup {old.next}
  BY <1>4, <1>6, <1>8, NoRecordAssumption DEF Present
<1>10. ValidRegistry(new)
  BY <1>2, <1>4, <1>7, <1>9 DEF ValidRegistry, Present, Handle
<1>11. WellFormed(new)
  <2>1. ASSUME NEW h \in Present(new)
        PROVE  /\ new.servers[h].instance \in Instances
               /\ new.servers[h].bound => new.servers[h].valid
    <3>1. CASE h = old.next
      BY <1>4, <1>8, <3>1 DEF Bound
    <3>2. CASE h # old.next
      <4>1. h \in Present(old) /\ new.servers[h] = old.servers[h]
        BY <1>8, <1>9, <2>1, <3>2 DEF Present
      <4>2. old.form # "missing"
        BY <4>1 DEF Sound, WellFormed, Empty, NoServers, Present
      <4> QED
        BY <1>2, <4>1, <4>2 DEF Sound, WellFormed, Loadable
    <3> QED
      BY <3>1, <3>2
  <2> QED
    BY <1>7, <2>1 DEF WellFormed
<1>12. SocketsDistinct(new)
  <2>1. ASSUME NEW h \in Present(old), old.servers[h].bound
        PROVE  old.servers[h].socket # s
    <3>1. old.form = "v1"
      BY <1>2, <2>1 DEF Loadable, Sound, WellFormed, Empty, NoServers, Present
    <3>2. old.servers[h].valid
      BY <2>1, <3>1 DEF Sound, WellFormed
    <3> QED
      BY <1>1, <3>2 DEF SocketTaken
  <2>2. old.next \notin Present(old)
    BY <1>2 DEF ValidRegistry, DiskFile, U64
  <2>3. \A h \in Present(new) :
           IF h = old.next THEN new.servers[h].socket = s
           ELSE h \in Present(old) /\ new.servers[h] = old.servers[h]
    BY <1>4, <1>8, <1>9 DEF Bound, Present
  <2> QED
    BY <2>1, <2>2, <2>3 DEF SocketsDistinct, Sound
<1> QED
  BY <1>2, <1>4, <1>7, <1>8, <1>9, <1>10, <1>11, <1>12
     DEF SoundV1, Sound, DiskFile, U64

LEMMA DeletionSound ==
    ASSUME NEW old \in DiskFile, Sound(old), NEW new, DeletionOf(old, new)
    PROVE  /\ SoundV1(new)
           /\ new.rev > old.rev
           /\ Loadable(old)
           /\ new.next = old.next
           /\ \A h \in Present(new) :
                 h \in Present(old) /\ new.servers[h] = old.servers[h]
<1>1. PICK k \in Handle, i \in Instances :
          /\ Matches(old, k, i)
          /\ CanDelete(old)
          /\ new = Deleted(AsV1(old), k)
  BY DEF DeletionOf
<1>2. Loadable(old) /\ ValidRegistry(old)
  BY DEF DeletionOf, Loadable
<1>3. k \in Present(old)
  BY <1>1 DEF Matches, Present
<1>4. old.form = "v1"
  BY <1>2, <1>3 DEF Loadable, Sound, WellFormed, Empty, NoServers, Present
<1>5. /\ new \in DiskFile /\ new.form = "v1"
      /\ new.next = old.next /\ new.rev = old.rev + 1
      /\ new.servers = [old.servers EXCEPT ![k] = NoRecord]
  <2>1. CanDelete(AsV1(old))
    BY <1>1, AsV1Type DEF CanDelete
  <2> QED
    BY <1>1, <2>1, AsV1Type, DeletedType
<1>6. \A h \in Present(new) :
          h \in Present(old) /\ new.servers[h] = old.servers[h]
  BY <1>5 DEF Present, DiskFile, Servers
<1>7. ValidRegistry(new)
  BY <1>2, <1>5, <1>6 DEF ValidRegistry
<1>8. WellFormed(new) /\ SocketsDistinct(new)
  BY <1>4, <1>5, <1>6 DEF WellFormed, SocketsDistinct, Sound
<1> QED
  BY <1>2, <1>5, <1>6, <1>7, <1>8 DEF SoundV1, Sound, DiskFile, U64

=============================================================================
