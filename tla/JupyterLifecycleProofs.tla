----------------------- MODULE JupyterLifecycleProofs -----------------------
(***************************************************************************)
(* Proofs about JupyterLifecycle, for any number of start and stop         *)
(* commands, sockets and mishaps, every u64 bound and every set of first   *)
(* files.                                                                  *)
(*                                                                         *)
(* The safety properties follow from one inductive invariant.  It says for *)
(* each place of a start command what its directory, its secrets, its      *)
(* child and its record are by then (StartFits, CalmFits), and for each    *)
(* place of a stop command what it may rely on (StopFits).  What lets the  *)
(* commands work beside one another is in Lasting and Listing: the few     *)
(* facts about an instance that, once true, no step of anybody undoes.     *)
(***************************************************************************)
EXTENDS JupyterLifecycle, RegistryDataProofs, FiniteSetTheorems, TLAPS

(* Before the record may be committed, while the secrets are hidden, and   *)
(* on the way to a failure.                                                *)
Early   == {"new", "creating", "polling", "registering"}
Hiding  == {"erase", "hideToken", "dropToken", "hideConfig", "dropConfig"}
Undoing == {"rollback", "discard", "unregister", "failed"} \cup CleanPlaces

Bare    == {"dir", "marker", "runtime"}
Made    == Bare \cup Secrets
Growing == {{}, {"dir"}, {"dir", "marker"}, Bare, Bare \cup {"token"}, Made}

(* The entries a start command left in its directory, by its place.        *)
Left(place) ==
    CASE place \in {"erase", "hideToken"} -> Made
      [] place = "dropToken" -> Bare \cup {"config", "scratch"}
      [] place = "hideConfig" -> Bare \cup {"config"}
      [] place = "dropConfig" -> Bare \cup {"scratch"}
      [] OTHER -> Bare

(* A cleaner took the directory away, or it has these entries and perhaps  *)
(* the child's server file.                                                *)
Holds(i, entries) == dir[i] = {} \/ dir[i] \ {"info"} = entries

(* A stop command works on instance i; somebody may know of i; and the     *)
(* child of i has listened, where its server file says.                    *)
Aims(c, i)   == target[c] # NoTarget /\ Subject(c) = i
Known(i)     == Listed(i) \/ \E c \in Stoppers : Aims(c, i)
Announced(i) == child[i] = "gone" \/ listener[endpoint[i]] = i

(* A record of a start command names the socket its child listened on;     *)
(* every other record is a migrated row.                                   *)
RecordTrue(r) ==
    IF r.instance \in Starters THEN r = Bound(r.instance, endpoint[r.instance])
    ELSE ~ r.bound

OneRecordEach(f) ==
    \A h, k \in Present(f) :
        f.form = "v1" /\ f.servers[h].instance = f.servers[k].instance => h = k

FileFits ==
    /\ Sound(file)
    /\ OneRecordEach(file)
    /\ \A h \in Present(file) : RecordTrue(file.servers[h])
    /\ (\E a \in Actors : pc[a] \notin {"new", "fresh"}) => Loadable(file)

ChildFits(i) ==
    /\ \A s \in Sockets :
          listener[s] = i => child[i] \in {"up", "stopping"} /\ endpoint[i] = s
    /\ child[i] = "stopping" => listener[endpoint[i]] = i
    /\ Known(i) => Announced(i)

StartFits(i) ==
    /\ pc[i] \in StartPlaces \cup CleanPlaces
    /\ pc[i] \in Early => ~ Known(i) /\ child[i] # "stopping"
    /\ pc[i] \in Early \cup {"erase", "started"} => ~ trouble[i]
    /\ pc[i] = "new" => dir[i] = {}
    /\ pc[i] \in {"new", "creating"} => child[i] = "none"
    /\ pc[i] = "creating" => dir[i] \in Growing
    /\ pc[i] \in {"polling", "registering"} => dir[i] \ {"info"} = Made
    /\ pc[i] = "registering" =>
          Announced(i) /\ (child[i] # "gone" => "info" \in dir[i])
    /\ pc[i] \in Hiding \cup {"started"} =>
          /\ Announced(i)
          /\ child[i] # "gone" => Listed(i) /\ {"marker", "info"} \subseteq dir[i]
          /\ ~ trouble[i] => Holds(i, Left(pc[i]))
          /\ ~ trouble[i] /\ pc[i] # "erase" => content[i] = {}

(* As long as nothing crashed and no call failed.                          *)
CalmFits(i) ==
    mishaps = 0 =>
       /\ trouble[i] => content[i] = {} /\ dir[i] = {}
       /\ pc[i] \in {"rollback", "discard", "inspect", "rename"} => Holds(i, Made)
       /\ pc[i] \in {"purge", "judge", "unregister", "failed"} => dir[i] = {}
       /\ pc[i] \in Undoing \ {"rollback"} => child[i] \in {"none", "gone"}
       /\ pc[i] \in Undoing \ {"rollback", "discard"} => content[i] = {}
       /\ pc[i] \in Undoing \ {"failed"} /\ ~ trouble[i] => ~ Listed(i)
       /\ pc[i] = "failed" /\ Listed(i) => ~ CanDelete(file)

StopFits(c) ==
    /\ pc[c] \in StopPlaces \cup CleanPlaces
    /\ target[c] # NoTarget =>
          /\ target[c].handle \in Handle
          /\ target[c].record \in Record
          /\ Subject(c) \in Instances
          /\ RecordTrue(target[c].record)
    /\ pc[c] = "fresh" => target[c] = NoTarget
    /\ pc[c] \notin {"fresh", "returned", "crashed"} => target[c] # NoTarget
    /\ result[c] # "none" => pc[c] = "returned"
    /\ pc[c] \in CleanPlaces \cup {"racing"} => Subject(c) \in Starters
    /\ pc[c] \in CleanPlaces \cup {"racing", "delete"} /\ Subject(c) \in Starters
       => child[Subject(c)] = "gone"
    /\ pc[c] \in {"purge", "delete"} /\ Subject(c) \in Starters
       => dir[Subject(c)] = {}
    /\ result[c] = "true" =>
          /\ target[c] # NoTarget
          /\ ~ Listed(Subject(c))
          /\ Subject(c) \in Starters =>
                child[Subject(c)] = "gone" /\ dir[Subject(c)] = {}

OneTrue ==
    \A c, d \in Stoppers :
        result[c] = "true" /\ result[d] = "true" /\ Subject(c) = Subject(d)
        => c = d

IInv ==
    /\ TypeOK
    /\ FileFits
    /\ \A i \in Starters : ChildFits(i) /\ StartFits(i) /\ CalmFits(i)
    /\ \A c \in Stoppers : StopFits(c)
    /\ OneTrue

-----------------------------------------------------------------------------
(* The shapes.                                                             *)

LEMMA BoundIn ==
    ASSUME NEW i \in Starters, NEW s \in Sockets
    PROVE  Bound(i, s) \in Record /\ Bound(i, s) # NoRecord
<1>1. Bound(i, s) \in Record
  BY BoundType, ActorAssumption
<1> QED
  BY <1>1, NoRecordAssumption

(* Whose instance a place may speak of.                                    *)
LEMMA SubjectKnown ==
    ASSUME IInv, NEW a \in Actors, pc[a] \in CleanPlaces
    PROVE  Subject(a) \in Starters
BY DEF IInv, StopFits, Subject, Actors

LEMMA WorldTypes == ASSUME IInv, World PROVE TypeOK'
<1> USE DEF IInv, TypeOK
<1>1. ASSUME NEW i \in Starters, NEW s \in Sockets, ChildListens(i, s)
      PROVE  TypeOK'
  BY <1>1 DEF ChildListens, startVars, stopVars, Names
<1>2. ASSUME NEW i \in Starters, ChildDies(i) PROVE TypeOK'
  BY <1>2 DEF ChildDies, Unlisten, startVars, stopVars
<1>3. ASSUME NEW i \in Starters, ChildExits(i) PROVE TypeOK'
  BY <1>3 DEF ChildExits, Unlisten, startVars, stopVars
<1>4. ASSUME NEW s \in Sockets, StrangerComes(s) PROVE TypeOK'
  BY <1>4 DEF StrangerComes, startVars, stopVars
<1>5. ASSUME NEW s \in Sockets, StrangerLeaves(s) PROVE TypeOK'
  BY <1>5 DEF StrangerLeaves, startVars, stopVars
<1> QED
  BY <1>1, <1>2, <1>3, <1>4, <1>5 DEF World

LEMMA CleanTypes ==
    ASSUME IInv, NEW a \in Actors, CleanStep(a) \/ Crash(a)
    PROVE  TypeOK'
<1> USE DEF IInv, TypeOK, Places, StartPlaces, StopPlaces, CleanPlaces, Goto,
            world, startVars, stopVars
<1>1. ASSUME Inspect(a) PROVE TypeOK'
  BY <1>1 DEF Inspect, Cleaned
<1>2. ASSUME Rename(a) PROVE TypeOK'
  <2>1. Subject(a) \in Starters
    BY <1>2, SubjectKnown DEF Rename
  <2> QED
    BY <1>2, <2>1 DEF Rename
<1>3. ASSUME Purge(a) PROVE TypeOK'
  BY <1>3 DEF Purge, Cleaned
<1>4. ASSUME PurgeFails(a) PROVE TypeOK'
  BY <1>4, MishapAssumption DEF PurgeFails, Mishap
<1>5. ASSUME Judge(a) PROVE TypeOK'
  BY <1>5 DEF Judge, Cleaned
<1>6. ASSUME Crash(a) PROVE TypeOK'
  BY <1>6, MishapAssumption DEF Crash, Mishap
<1> QED
  BY <1>1, <1>2, <1>3, <1>4, <1>5, <1>6 DEF CleanStep

LEMMA MishapTyped ==
    ASSUME IInv, Mishap
    PROVE  mishaps' \in 0 .. MaxMishaps /\ mishaps' # 0
BY MishapAssumption DEF IInv, TypeOK, Mishap

LEMMA ArtifactIs ==
    ASSUME NEW k \in DOMAIN Artifacts
    PROVE  k \in 1 .. 5 /\ Artifacts[k] \in Names
BY DEF Artifacts, Names

(* What a registration and a deletion make of the file.                     *)
LEMMA RegisterIs ==
    ASSUME IInv, NEW i \in Starters, pc[i] = "registering", Registered(i)
    PROVE  /\ RegistrationOf(file, file')
           /\ SoundV1(file')
           /\ file'.rev > file.rev
           /\ file.next \in Handle
           /\ file.next \notin Present(file)
           /\ \A h \in Handle : file'.servers[h] =
                 IF h = file.next THEN Bound(i, endpoint[i]) ELSE file.servers[h]
<1>1. /\ file \in DiskFile /\ Sound(file) /\ Loadable(file)
      /\ i \in Actors /\ i \in Instances /\ endpoint[i] \in Sockets
  BY ActorAssumption DEF IInv, TypeOK, FileFits, Actors
<1>2. RegistrationOf(file, file')
  BY <1>1 DEF RegistrationOf, Registered
<1>3. SoundV1(file') /\ file'.rev > file.rev
  BY <1>1, <1>2, RegistrationSound
<1>4. /\ file.next \in Handle /\ file.next + 1 \in U64
      /\ file.next \notin Present(file)
  BY <1>1, BoundsAssumption DEF Registered, CanAllocate, Loadable,
                                ValidRegistry,
     DiskFile, U64, Handle
<1>5. /\ Allocated(AsV1(file)) \in DiskFile
      /\ Allocated(AsV1(file)).servers = file.servers
  <2>1. CanAllocate(AsV1(file))
    BY <1>1, AsV1Type DEF CanAllocate, Registered
  <2> QED
    BY <1>1, <2>1, AsV1Type, AllocatedType
<1>6. file'.servers = [file.servers EXCEPT ![file.next] = Bound(i, endpoint[i])]
  BY <1>5 DEF Registered, Inserted, DiskFile
<1>7. \A h \in Handle : file'.servers[h] =
          IF h = file.next THEN Bound(i, endpoint[i]) ELSE file.servers[h]
  BY <1>1, <1>4, <1>6 DEF DiskFile, Servers
<1> QED
  BY <1>2, <1>3, <1>4, <1>7

LEMMA DeleteIs ==
    ASSUME IInv, Loadable(file), NEW h \in Handle, NEW i \in Instances,
           Matches(file, h, i), CanDelete(file), file' = Deleted(file, h)
    PROVE  /\ DeletionOf(file, file')
           /\ SoundV1(file')
           /\ file.form = "v1"
           /\ file'.rev > file.rev
           /\ \A k \in Handle : file'.servers[k] =
                 IF k = h THEN NoRecord ELSE file.servers[k]
<1>1. file \in DiskFile /\ Sound(file)
  BY DEF IInv, TypeOK, FileFits
<1>2. file.form = "v1"
  BY <1>1 DEF Loadable, Sound, WellFormed, Empty, NoServers, Matches
<1>3. AsV1(file) = file
  BY <1>1, <1>2 DEF AsV1, DiskFile
<1>4. DeletionOf(file, file')
  BY <1>3 DEF DeletionOf
<1>5. SoundV1(file') /\ file'.rev > file.rev
  BY <1>1, <1>4, DeletionSound
<1>6. \A k \in Handle : file'.servers[k] =
          IF k = h THEN NoRecord ELSE file.servers[k]
  <2>1. file'.servers = [file.servers EXCEPT ![h] = NoRecord]
    BY <1>1, DeletedType
  <2> QED
    BY <1>1, <2>1 DEF DiskFile, Servers
<1> QED
  BY <1>2, <1>4, <1>5, <1>6

LEMMA StartTypes ==
    ASSUME IInv, NEW i \in Starters, StartStep(i)
    PROVE  TypeOK'
<1> USE DEF IInv, TypeOK, Places, StartPlaces, Goto, world, startVars, stopVars
<1>1. ASSUME BeginStart(i) PROVE TypeOK'
  BY <1>1 DEF BeginStart
<1>2. ASSUME CreateArtifact(i) PROVE TypeOK'
  <2>1. PICK k \in DOMAIN Artifacts :
          /\ dir' = [dir EXCEPT ![i] = @ \cup {Artifacts[k]}]
          /\ content' = [content EXCEPT ![i] = @ \cup ({Artifacts[k]} \cap Secrets)]
    BY <1>2 DEF CreateArtifact
  <2>2. Artifacts[k] \in Names
    BY ArtifactIs
  <2>3. dir' \in [Starters -> SUBSET Names]
    BY <2>1, <2>2
  <2>4. content' \in [Starters -> SUBSET Secrets]
    BY <2>1
  <2> QED
    BY <1>2, <2>3, <2>4 DEF CreateArtifact
<1>3. ASSUME CreateFails(i) PROVE TypeOK'
  BY <1>3, MishapTyped DEF CreateFails, CleanPlaces
<1>4. ASSUME Spawn(i) PROVE TypeOK'
  BY <1>4 DEF Spawn
<1>5. ASSUME Ready(i) \/ GiveUp(i) \/ RegisterFails(i) PROVE TypeOK'
  BY <1>5 DEF Ready, GiveUp, RegisterFails
<1>6. ASSUME Register(i) PROVE TypeOK'
  <2>1. file' \in DiskFile
    BY <1>6, RegisterIs DEF Register, SoundV1
  <2> QED
    BY <1>6, <2>1, MishapTyped DEF Register
<1>7. ASSUME Rollback(i) PROVE TypeOK'
  BY <1>7, MishapTyped DEF Rollback, Unlisten
<1>8. ASSUME Discard(i) PROVE TypeOK'
  BY <1>8, MishapTyped DEF Discard, CleanPlaces
<1>9. ASSUME Unregister(i) PROVE TypeOK'
  <2>1. file' \in DiskFile
    <3>1. CASE UNCHANGED file
      BY <3>1
    <3>2. CASE file' # file
      <4>1. PICK h \in Handle : Matches(file, h, i) /\ file' = Deleted(file, h)
        BY <1>9, <3>2 DEF Unregister
      <4> QED
        BY <1>9, <3>2, <4>1, DeletedType DEF Unregister
    <3> QED
      BY <3>1, <3>2
  <2> QED
    BY <1>9, <2>1, MishapTyped DEF Unregister
<1>10. ASSUME Erase(i) PROVE TypeOK'
  BY <1>10, MishapTyped DEF Erase, Trouble
<1>11. ASSUME NEW f \in Secrets, Hide(i, f) PROVE TypeOK'
  BY <1>11 DEF Hide, DropAt, Names
<1>12. ASSUME NEW f \in Secrets, HideFails(i, f) PROVE TypeOK'
  BY <1>12, MishapTyped DEF HideFails, AfterSecret, Trouble
<1>13. ASSUME NEW f \in Secrets, Drop(i, f) PROVE TypeOK'
  BY <1>13 DEF Drop, AfterSecret, Trouble
<1>14. ASSUME NEW f \in Secrets, DropFails(i, f) PROVE TypeOK'
  BY <1>14, MishapTyped DEF DropFails, AfterSecret, Trouble
<1> QED
  BY <1>1, <1>2, <1>3, <1>4, <1>5, <1>6, <1>7, <1>8, <1>9, <1>10, <1>11, <1>12,
     <1>13, <1>14 DEF StartStep

LEMMA StopTypes ==
    ASSUME IInv, NEW c \in Stoppers, StopStep(c)
    PROVE  TypeOK'
<1> USE DEF IInv, TypeOK, Places, StopPlaces, Goto, world, startVars, stopVars,
            Return, CleanUp, CleanPlaces
<1>1. ASSUME NEW h \in Handle, BeginStop(c, h) PROVE TypeOK'
  <2>1. h \in U64 /\ file.servers[h] \in Record \cup {NoRecord}
    <3>1. h \in U64
      BY BoundsAssumption DEF U64, Handle
    <3> QED
      BY <3>1 DEF DiskFile, Servers
  <2>2. target' \in [Stoppers -> [handle : U64, record : Record \cup {NoRecord}]]
    <3>1. [handle |-> h, record |-> file.servers[h]]
             \in [handle : U64, record : Record \cup {NoRecord}]
      BY <2>1
    <3>2. UNCHANGED target \/ target' =
             [target EXCEPT ![c] = [handle |-> h, record |-> file.servers[h]]]
      BY <1>1 DEF BeginStop
    <3> QED
      BY <3>1, <3>2
  <2>3. /\ pc' \in [Actors -> Places]
        /\ result' \in [Stoppers -> {"none", "true", "false", "error"}]
    BY <1>1 DEF BeginStop
  <2> QED
    BY <1>1, <2>2, <2>3 DEF BeginStop
<1>2. ASSUME FirstRefusal(c) PROVE TypeOK'
  BY <1>2 DEF FirstRefusal
<1>3. ASSUME Accepting(c) \/ Verified(c) \/ Unverified(c) \/ PostFails(c)
      PROVE  TypeOK'
  BY <1>3 DEF Accepting, Verified, Unverified, PostFails
<1>4. ASSUME Post(c) PROVE TypeOK'
  BY <1>4 DEF Post
<1>5. ASSUME LaterRefusal(c) \/ GiveUpStop(c) PROVE TypeOK'
  BY <1>5 DEF LaterRefusal, GiveUpStop
<1>6. ASSUME RaceLost(c) \/ DeleteGone(c) \/ DeleteFails(c) PROVE TypeOK'
  BY <1>6 DEF RaceLost, DeleteGone, DeleteFails
<1>7. ASSUME DeleteRecord(c) PROVE TypeOK'
  <2>1. target[c].handle \in Handle
    BY <1>7 DEF DeleteRecord, StopFits
  <2>2. file' \in DiskFile
    BY <1>7, <2>1, DeletedType DEF DeleteRecord
  <2> QED
    BY <1>7, <2>2 DEF DeleteRecord
<1> QED
  BY <1>1, <1>2, <1>3, <1>4, <1>5, <1>6, <1>7 DEF StopStep

-----------------------------------------------------------------------------
(* What no step of anybody undoes.                                         *)

Lasting(i) ==
    /\ child[i] = "gone" => child'[i] = "gone"
    /\ Announced(i) => endpoint'[i] = endpoint[i] /\ Announced(i)'
    /\ pc[i] \notin Early /\ dir[i] = {} => dir'[i] = {}

(* The frame of a step of one command.                                      *)
OthersWait(a) == \A b \in Actors : b # a => pc'[b] = pc[b]
OthersAim(c)  ==
    \A d \in Stoppers : d # c => target'[d] = target[d] /\ result'[d] = result[d]
OthersHold(i) ==
    \A j \in Starters : j # i =>
        /\ child'[j] = child[j] /\ dir'[j] = dir[j]
        /\ content'[j] = content[j] /\ trouble'[j] = trouble[j]

(* The steps after which a child, a socket or a directory is another.      *)
LEMMA StartTouches ==
    ASSUME TypeOK, NEW i \in Starters, StartStep(i)
    PROVE  \/ UNCHANGED <<listener, child, endpoint, dir>>
           \/ CreateArtifact(i) \/ Spawn(i) \/ Rollback(i)
           \/ \E f \in Secrets : Hide(i, f) \/ Drop(i, f)
<1> USE DEF world, startVars, stopVars
<1>1. ASSUME BeginStart(i) \/ CreateFails(i) \/ Ready(i) \/ GiveUp(i)
      PROVE  UNCHANGED <<listener, child, endpoint, dir>>
  BY <1>1 DEF BeginStart, CreateFails, Ready, GiveUp
<1>2. ASSUME Register(i) \/ RegisterFails(i) \/ Discard(i) \/ Unregister(i) \/ Erase(i)
      PROVE  UNCHANGED <<listener, child, endpoint, dir>>
  BY <1>2 DEF Register, RegisterFails, Discard, Unregister, Erase
<1>3. ASSUME NEW f \in Secrets, HideFails(i, f) \/ DropFails(i, f)
      PROVE  UNCHANGED <<listener, child, endpoint, dir>>
  BY <1>3 DEF HideFails, DropFails
<1> QED
  BY <1>1, <1>2, <1>3 DEF StartStep

LEMMA StopTouches ==
    ASSUME TypeOK, NEW c \in Stoppers, StopStep(c)
    PROVE  /\ UNCHANGED <<listener, endpoint, dir, attic, content, trouble,
                          mishaps>>
           /\ UNCHANGED child \/ Post(c)
           /\ UNCHANGED file \/ DeleteRecord(c)
           /\ OthersWait(c)
           /\ OthersAim(c)
<1> USE DEF TypeOK, OthersWait, OthersAim, OthersHold, Actors, world,
            startVars, stopVars, Goto, Return, CleanUp
<1>1. ASSUME NEW h \in Handle, BeginStop(c, h)
      PROVE  /\ UNCHANGED <<world, dir, attic, content, trouble, mishaps>>
             /\ OthersWait(c)
             /\ OthersAim(c)
  BY <1>1 DEF BeginStop
<1>2. ASSUME \/ FirstRefusal(c) \/ Accepting(c) \/ Verified(c) \/ Unverified(c)
             \/ PostFails(c) \/ LaterRefusal(c)
      PROVE  /\ UNCHANGED <<world, dir, attic, content, trouble, mishaps>>
             /\ OthersWait(c)
             /\ OthersAim(c)
  BY <1>2 DEF FirstRefusal, Accepting, Verified, Unverified, PostFails,
              LaterRefusal
<1>3. ASSUME GiveUpStop(c) \/ RaceLost(c) \/ DeleteGone(c) \/ DeleteFails(c)
      PROVE  /\ UNCHANGED <<world, dir, attic, content, trouble, mishaps>>
             /\ OthersWait(c)
             /\ OthersAim(c)
  BY <1>3 DEF GiveUpStop, RaceLost, DeleteGone, DeleteFails
<1>4. ASSUME Post(c)
      PROVE  /\ UNCHANGED <<file, listener, endpoint, dir, attic, content,
                            trouble, mishaps>>
             /\ OthersWait(c)
             /\ OthersAim(c)
  BY <1>4 DEF Post
<1>5. ASSUME DeleteRecord(c)
      PROVE  /\ UNCHANGED <<listener, child, endpoint, dir, attic, content,
                            trouble, mishaps>>
             /\ OthersWait(c)
             /\ OthersAim(c)
  BY <1>5 DEF DeleteRecord
<1> QED
  BY <1>1, <1>2, <1>3, <1>4, <1>5 DEF StopStep

LEMMA CleanTouches ==
    ASSUME TypeOK, NEW a \in Actors, CleanStep(a) \/ Crash(a)
    PROVE  /\ UNCHANGED <<file, listener, child, endpoint, trouble, target,
                          result>>
           /\ UNCHANGED dir \/ Rename(a)
           /\ OthersWait(a)
<1> USE DEF TypeOK, OthersWait, OthersAim, OthersHold, Actors, world,
            startVars, stopVars, Goto, Cleaned
<1>1. ASSUME Inspect(a) \/ Rename(a) \/ Purge(a)
      PROVE  /\ UNCHANGED <<file, listener, child, endpoint, trouble, target,
                            result>>
             /\ UNCHANGED dir \/ Rename(a)
             /\ OthersWait(a)
  BY <1>1 DEF Inspect, Rename, Purge
<1>2. ASSUME PurgeFails(a) \/ Judge(a) \/ Crash(a)
      PROVE  /\ UNCHANGED <<file, listener, child, endpoint, trouble, target,
                            result>>
             /\ UNCHANGED dir
             /\ OthersWait(a)
  BY <1>2 DEF PurgeFails, Judge, Crash
<1> QED
  BY <1>1, <1>2 DEF CleanStep

LEMMA StartTouchesOwn ==
    ASSUME TypeOK, NEW i \in Starters, StartStep(i)
    PROVE  /\ UNCHANGED <<endpoint, attic, target, early, result>>
           /\ UNCHANGED file \/ Register(i) \/ Unregister(i)
           /\ OthersWait(i)
           /\ OthersHold(i)
<1> DEFINE Own ==
             /\ UNCHANGED <<endpoint, attic, target, early, result>>
             /\ OthersWait(i)
             /\ OthersHold(i)
<1> USE DEF TypeOK, OthersWait, OthersAim, OthersHold, Actors, world,
            startVars, stopVars, Goto
<1>1. ASSUME BeginStart(i) \/ CreateArtifact(i) \/ CreateFails(i) \/ Spawn(i)
      PROVE  Own /\ UNCHANGED file
  BY <1>1 DEF BeginStart, CreateArtifact, CreateFails, Spawn
<1>2. ASSUME Ready(i) \/ GiveUp(i) \/ RegisterFails(i) \/ Rollback(i) \/ Discard(i)
      PROVE  Own /\ UNCHANGED file
  BY <1>2 DEF Ready, GiveUp, RegisterFails, Rollback, Discard
<1>3. ASSUME Register(i) \/ Unregister(i)
      PROVE  Own
  BY <1>3 DEF Register, Unregister
<1>4. ASSUME Erase(i) PROVE Own /\ UNCHANGED file
  BY <1>4 DEF Erase, Trouble
<1>5. ASSUME NEW f \in Secrets, Hide(i, f) \/ HideFails(i, f)
      PROVE  Own /\ UNCHANGED file
  BY <1>5 DEF Hide, HideFails, AfterSecret, Trouble
<1>6. ASSUME NEW f \in Secrets, Drop(i, f) \/ DropFails(i, f)
      PROVE  Own /\ UNCHANGED file
  BY <1>6 DEF Drop, DropFails, AfterSecret, Trouble
<1> HIDE DEF Own
<1>7. Own /\ (UNCHANGED file \/ Register(i) \/ Unregister(i))
  BY <1>1, <1>2, <1>3, <1>4, <1>5, <1>6 DEF StartStep
<1> QED
  BY <1>7 DEF Own

LEMMA LastingKept ==
    ASSUME NEW i \in Starters, UNCHANGED <<listener, child, endpoint, dir>>
    PROVE  Lasting(i)
BY DEF Lasting, Announced

LEMMA WorldLasts ==
    ASSUME IInv, World, NEW i \in Starters
    PROVE  Lasting(i)
<1> USE DEF IInv, TypeOK, ChildFits, Lasting, Announced
<1>0. i # Nobody /\ i # Stranger
  BY ActorAssumption, ListenAssumption
<1>1. ASSUME NEW j \in Starters, NEW s \in Sockets, ChildListens(j, s)
      PROVE  Lasting(i)
  <2>1. /\ \A r \in Sockets : listener'[r] = IF r = s THEN j ELSE listener[r]
        /\ \A k \in Starters : endpoint'[k] = IF k = j THEN s ELSE endpoint[k]
        /\ child' = child /\ listener[s] = Nobody
        /\ dir[i] = {} => dir'[i] = {}
    BY <1>1 DEF ChildListens
  <2>2. Announced(i) => i # j /\ (child[i] # "gone" => endpoint[i] # s)
    BY <1>0, <1>1 DEF ChildListens, Listening
  <2> QED
    BY <2>1, <2>2
<1>2. ASSUME NEW j \in Starters, ChildDies(j) \/ ChildExits(j)
      PROVE  Lasting(i)
  <2>1. /\ \A k \in Starters : child'[k] = IF k = j THEN "gone" ELSE child[k]
        /\ \A r \in Sockets : listener'[r] =
              IF listener[r] = j THEN Nobody ELSE listener[r]
        /\ endpoint' = endpoint
        /\ dir[i] = {} => dir'[i] = {}
    BY <1>2 DEF ChildDies, ChildExits, Unlisten
  <2> QED
    BY <2>1
<1>3. ASSUME NEW s \in Sockets, StrangerComes(s) \/ StrangerLeaves(s)
      PROVE  Lasting(i)
  <2>1. /\ UNCHANGED <<child, endpoint, dir>>
        /\ \A r \in Sockets : r # s => listener'[r] = listener[r]
        /\ listener[s] \in {Nobody, Stranger}
    BY <1>3 DEF StrangerComes, StrangerLeaves
  <2> QED
    BY <1>0, <2>1
<1> QED
  BY <1>1, <1>2, <1>3 DEF World

LEMMA StartLasts ==
    ASSUME IInv, NEW j \in Starters, StartStep(j), NEW i \in Starters
    PROVE  Lasting(i)
<1> USE DEF IInv, TypeOK, ChildFits, StartFits, Lasting, Announced, Early,
            Goto, world, startVars, stopVars
<1>1. CASE UNCHANGED <<listener, child, endpoint, dir>>
  BY <1>1, LastingKept
<1>2. CASE CreateArtifact(j)
  BY <1>2 DEF CreateArtifact
<1>3. CASE Spawn(j)
  BY <1>3 DEF Spawn
<1>4. CASE Rollback(j)
  <2>1. /\ \A k \in Starters : child'[k] = child[k] \/ child'[k] = "gone"
        /\ \A k \in Starters : k # j => child'[k] = child[k]
        /\ \/ UNCHANGED <<child, listener>>
           \/ child'[j] = "gone" /\ listener' = Unlisten(j)
        /\ UNCHANGED <<endpoint, dir>>
    BY <1>4 DEF Rollback
  <2>2. \A r \in Sockets : listener'[r] = listener[r] \/ listener[r] = j
    BY <2>1 DEF Unlisten
  <2> QED
    BY <2>1, <2>2
<1>5. CASE \E f \in Secrets : Hide(j, f) \/ Drop(j, f)
  <2>1. PICK f \in Secrets : Hide(j, f) \/ Drop(j, f)
    BY <1>5
  <2>2. UNCHANGED <<listener, child, endpoint>>
    BY <2>1 DEF Hide, Drop
  <2>3. i # j => dir'[i] = dir[i]
    BY StartTouchesOwn DEF OthersHold
  <2>4. dir[j] # {}
    BY <2>1 DEF Hide, Drop
  <2> QED
    BY <2>2, <2>3, <2>4
<1> QED
  BY <1>1, <1>2, <1>3, <1>4, <1>5, StartTouches

LEMMA StopLasts ==
    ASSUME IInv, NEW c \in Stoppers, StopStep(c), NEW i \in Starters
    PROVE  Lasting(i)
<1> USE DEF IInv, TypeOK, Lasting, Announced
<1>1. UNCHANGED <<listener, endpoint, dir>>
  BY StopTouches
<1>2. CASE UNCHANGED child
  BY <1>1, <1>2, LastingKept
<1>3. CASE Post(c)
  <2>1. child[i] = "gone" => child'[i] = "gone"
    <3>1. CASE Subject(c) # i
      BY <1>3, <3>1 DEF Post
    <3>2. CASE Subject(c) = i
      <4>1. Socket(c) \in Sockets
        BY <1>3 DEF Post, Socket, StopFits, Record
      <4>2. child[i] # "gone"
        BY <1>3, <3>2, <4>1 DEF Post, ChildFits
      <4> QED
        BY <4>2
    <3> QED
      BY <3>1, <3>2
  <2> QED
    BY <1>1, <2>1
<1> QED
  BY <1>2, <1>3, StopTouches

LEMMA CleanLasts ==
    ASSUME IInv, NEW a \in Actors, CleanStep(a) \/ Crash(a), NEW i \in Starters
    PROVE  Lasting(i)
<1> USE DEF IInv, TypeOK
<1>1. UNCHANGED <<listener, child, endpoint>>
  BY CleanTouches
<1>2. dir'[i] = dir[i] \/ dir'[i] = {}
  BY CleanTouches DEF Rename
<1> QED
  BY <1>1, <1>2 DEF Lasting, Announced

LEMMA EverythingLasts ==
    ASSUME IInv, Next, NEW i \in Starters
    PROVE  Lasting(i)
BY WorldLasts, StartLasts, StopLasts, CleanLasts DEF Next

(* What a step may make of the list of records: a start command adds its   *)
(* own, and a record goes when its child is gone or its start gives it up. *)
Registers(i) ==
    i \in Starters /\ pc[i] = "registering" /\ pc'[i] # "registering"

Listing(i) ==
    /\ Listed(i)' => Listed(i) \/ Registers(i)
    /\ i \in Starters /\ Listed(i) /\ child[i] # "gone" /\ pc[i] # "unregister"
       => Listed(i)'

LEMMA ListingKept ==
    ASSUME UNCHANGED file, NEW i
    PROVE  Listed(i)' <=> Listed(i)
BY DEF Listed, Present

LEMMA RegisterLists ==
    ASSUME IInv, NEW j \in Starters, Register(j)
    PROVE  \A i : Listed(i)' <=> Listed(i) \/ i = j
<1>1. /\ file.next \in Handle /\ file.next \notin Present(file)
      /\ \A h \in Handle : file'.servers[h] =
            IF h = file.next THEN Bound(j, endpoint[j]) ELSE file.servers[h]
  BY RegisterIs DEF Register
<1>2. Bound(j, endpoint[j]) # NoRecord /\ Bound(j, endpoint[j]).instance = j
  BY BoundIn DEF IInv, TypeOK, Bound
<1>3. \A h \in Handle : h \in Present(file') <=> h \in Present(file) \/ h = file.next
  BY <1>1, <1>2 DEF Present
<1> QED
  BY <1>1, <1>2, <1>3 DEF Listed, Present

(* A deletion takes the one record of its instance.                        *)
LEMMA DeleteUnlists ==
    ASSUME IInv, Loadable(file), NEW h \in Handle, NEW j \in Instances,
           Matches(file, h, j), CanDelete(file), file' = Deleted(file, h)
    PROVE  \A i : Listed(i)' <=> Listed(i) /\ i # j
<1>1. /\ file.form = "v1"
      /\ \A k \in Handle : file'.servers[k] =
            IF k = h THEN NoRecord ELSE file.servers[k]
  BY DeleteIs
<1>2. h \in Present(file) /\ file.servers[h].instance = j
  BY DEF Matches, Present
<1>3. \A k \in Handle : k \in Present(file') <=> k \in Present(file) /\ k # h
  BY <1>1 DEF Present
<1>4. \A k \in Present(file) : file.servers[k].instance = j => k = h
  BY <1>1, <1>2 DEF IInv, FileFits, OneRecordEach
<1> QED
  BY <1>1, <1>2, <1>3, <1>4 DEF Listed, Present

(* Past the snapshot that begins a command the file can be loaded.         *)
LEMMA BegunLoads ==
    ASSUME IInv, NEW a \in Actors, pc[a] \notin {"new", "fresh"}
    PROVE  Loadable(file)
BY DEF IInv, FileFits

LEMMA UnregisterLists ==
    ASSUME IInv, NEW j \in Starters, Unregister(j)
    PROVE  \/ UNCHANGED file
           \/ /\ \A i : Listed(i)' <=> Listed(i) /\ i # j
              /\ DeletionOf(file, file') /\ SoundV1(file') /\ file.form = "v1"
              /\ \A k \in Handle :
                    file'.servers[k] \in {NoRecord, file.servers[k]}
<1>1. Loadable(file) /\ j \in Instances
  BY BegunLoads, ActorAssumption DEF Unregister, Actors
<1>2. CASE file' # file
  <2>1. PICK h \in Handle : Matches(file, h, j) /\ file' = Deleted(file, h)
    BY <1>2 DEF Unregister
  <2>2. CanDelete(file)
    BY <1>2 DEF Unregister
  <2> QED
    BY <1>1, <2>1, <2>2, DeleteUnlists, DeleteIs
<1> QED
  BY <1>2

LEMMA DeleteRecordLists ==
    ASSUME IInv, NEW c \in Stoppers, DeleteRecord(c)
    PROVE  /\ \A i : Listed(i)' <=> Listed(i) /\ i # Subject(c)
           /\ Listed(Subject(c))
           /\ DeletionOf(file, file') /\ SoundV1(file') /\ file.form = "v1"
           /\ \A k \in Handle : file'.servers[k] \in {NoRecord, file.servers[k]}
<1>1. /\ pc[c] = "delete" /\ c \in Actors
      /\ Matches(file, target[c].handle, Subject(c)) /\ CanDelete(file)
      /\ file' = Deleted(file, target[c].handle)
  BY DEF DeleteRecord, Actors
<1>2. target[c].handle \in Handle /\ Subject(c) \in Instances
  BY <1>1 DEF IInv, StopFits
<1>3. Loadable(file)
  BY <1>1, BegunLoads
<1>4. Listed(Subject(c))
  BY <1>1, <1>2 DEF Matches, Listed, Present
<1> QED
  BY <1>1, <1>2, <1>3, <1>4, DeleteUnlists, DeleteIs

LEMMA ListingStep ==
    ASSUME IInv, Next, NEW i
    PROVE  Listing(i)
<1>1. CASE UNCHANGED file
  BY <1>1, ListingKept DEF Listing
<1>2. CASE \E j \in Starters : Register(j)
  <2>1. PICK j \in Starters : Register(j)
    BY <1>2
  <2>2. Registers(j) /\ pc[j] # "unregister"
    BY <2>1 DEF Register, Registers, Goto, IInv, TypeOK, Actors
  <2> QED
    BY <2>1, <2>2, RegisterLists DEF Listing
<1>3. CASE \E j \in Starters : Unregister(j)
  BY <1>1, <1>3, UnregisterLists DEF Listing, Unregister
<1>4. CASE \E c \in Stoppers : DeleteRecord(c)
  <2>1. PICK c \in Stoppers : DeleteRecord(c)
    BY <1>4
  <2>2. Subject(c) \in Starters => child[Subject(c)] = "gone"
    BY <2>1 DEF DeleteRecord, IInv, StopFits
  <2> QED
    BY <2>1, <2>2, DeleteRecordLists DEF Listing
<1>5. ASSUME World PROVE UNCHANGED file
  BY <1>5 DEF World, ChildListens, ChildDies, ChildExits, StrangerComes,
              StrangerLeaves
<1> QED
  BY <1>1, <1>2, <1>3, <1>4, <1>5, StartTouchesOwn, StopTouches, CleanTouches
     DEF Next, IInv

(* A stop command learns of an instance from its record.                   *)
LEMMA AimStep ==
    ASSUME IInv, Next, NEW c \in Stoppers, NEW i, Aims(c, i)'
    PROVE  Aims(c, i) \/ Listed(i)
<1>1. CASE target'[c] = target[c]
  BY <1>1, ActorAssumption DEF Aims, Subject
<1>2. CASE target'[c] # target[c]
  <2>1. StopStep(c)
    <3>1. World => UNCHANGED target
      BY DEF World, ChildListens, ChildDies, ChildExits, StrangerComes,
             StrangerLeaves, stopVars
    <3> QED
      BY <1>2, <3>1, StartTouchesOwn, StopTouches, CleanTouches
         DEF Next, IInv, OthersAim
  <2>2. PICK h \in Handle : BeginStop(c, h)
    <3>1. \/ \E h \in Handle : BeginStop(c, h)
          \/ UNCHANGED target
      BY <2>1 DEF StopStep, FirstRefusal, Accepting, Verified, Unverified,
                  Post,
         PostFails, LaterRefusal, GiveUpStop, RaceLost, DeleteRecord, DeleteGone,
         DeleteFails, Return, stopVars
    <3> QED
      BY <1>2, <3>1
  <2>3. /\ file.servers[h] # NoRecord
        /\ target' = [target EXCEPT ![c] =
                         [handle |-> h, record |-> file.servers[h]]]
    BY <1>2, <2>2 DEF BeginStop
  <2>4. target'[c] = [handle |-> h, record |-> file.servers[h]]
    BY <2>3 DEF IInv, TypeOK
  <2>5. c \notin Starters
    BY ActorAssumption
  <2>6. file.servers[h].instance = i
    BY <2>4, <2>5 DEF Aims, Subject
  <2> QED
    BY <2>3, <2>6 DEF Listed, Present
<1> QED
  BY <1>1, <1>2

LEMMA KnownStep ==
    ASSUME IInv, Next, NEW i \in Starters, Known(i)'
    PROVE  Known(i) \/ Registers(i)
<1>1. CASE Listed(i)'
  BY <1>1, ListingStep DEF Listing, Known
<1>2. ASSUME NEW c \in Stoppers, Aims(c, i)' PROVE Known(i)
  BY <1>2, AimStep DEF Known
<1> QED
  BY <1>1, <1>2 DEF Known

-----------------------------------------------------------------------------
(* The registry, and the child with its socket.                            *)

LEMMA Begins ==
    ASSUME IInv, Next, NEW a \in Actors, pc'[a] \notin {"new", "fresh"}
    PROVE  Loadable(file)
<1>1. ASSUME NEW i \in Starters, StartStep(i)
      PROVE  Loadable(file) \/ pc[i] \notin {"new", "fresh"}
  <2>1. ASSUME NEW f \in Secrets, pc[i] \in {HideAt(f), DropAt(f)}
        PROVE  pc[i] \notin {"new", "fresh"}
    BY <2>1 DEF HideAt, DropAt
  <2> QED
    BY <1>1, <2>1 DEF StartStep, BeginStart, CreateArtifact, CreateFails,
                      Spawn,
       Ready, GiveUp, Register, RegisterFails, Rollback, Discard, Unregister,
       Erase, Hide, HideFails, Drop, DropFails
<1>2. ASSUME NEW c \in Stoppers, StopStep(c)
      PROVE  Loadable(file) \/ pc[c] \notin {"new", "fresh"}
  BY <1>2 DEF StopStep, BeginStop, FirstRefusal, Accepting, Verified,
              Unverified,
     Post, PostFails, LaterRefusal, GiveUpStop, RaceLost, DeleteRecord, DeleteGone,
     DeleteFails
<1>3. ASSUME NEW b \in Actors, CleanStep(b) \/ Crash(b)
      PROVE  pc[b] \notin {"new", "fresh"}
  BY <1>3 DEF CleanStep, Inspect, Rename, Purge, PurgeFails, Judge, Crash,
              Final
<1>4. World => UNCHANGED pc
  BY DEF World, ChildListens, ChildDies, ChildExits, StrangerComes,
         StrangerLeaves
<1>5. pc'[a] = pc[a] \/ (\E b \in Actors : pc[b] \notin {"new", "fresh"})
                     \/ Loadable(file)
  BY <1>1, <1>2, <1>3, <1>4, StartTouchesOwn, StopTouches, CleanTouches
     DEF Next, IInv, OthersWait, Actors
<1> QED
  BY <1>5, BegunLoads

LEMMA RecordKept ==
    ASSUME IInv, Next, NEW r, RecordTrue(r),
           r.instance \in Starters => Known(r.instance)
    PROVE  IF r.instance \in Starters
           THEN r = Bound(r.instance, endpoint'[r.instance])
           ELSE ~ r.bound
<1>1. r.instance \in Starters => endpoint'[r.instance] = endpoint[r.instance]
  BY EverythingLasts DEF Lasting, IInv, ChildFits
<1> QED
  BY <1>1 DEF RecordTrue

LEMMA FileStep == ASSUME IInv, Next PROVE FileFits'
<1> USE DEF IInv
<1>1. ASSUME NEW h \in Present(file), h \in Present(file'),
             file'.servers[h] = file.servers[h]
      PROVE  RecordTrue(file.servers[h])'
  <2>1. file.servers[h].instance \in Starters => Known(file.servers[h].instance)
    BY DEF Known, Listed
  <2>2. RecordTrue(file.servers[h])
    BY DEF FileFits
  <2> QED
    BY <1>1, <2>1, <2>2, RecordKept DEF RecordTrue
<1>2. CASE UNCHANGED file
  <2>1. Sound(file)' /\ OneRecordEach(file)'
    BY <1>2 DEF FileFits, Sound, WellFormed, SocketsDistinct, OneRecordEach,
                Present
  <2>2. Loadable(file)' <=> Loadable(file)
    BY <1>2 DEF Loadable, ValidRegistry, Present
  <2>3. ASSUME NEW h \in Present(file)' PROVE RecordTrue(file.servers[h])'
    BY <1>1, <1>2, <2>3
  <2> QED
    BY <2>1, <2>2, <2>3, Begins DEF FileFits
<1>3. ASSUME NEW i \in Starters, Register(i) PROVE FileFits'
  <2>1. /\ SoundV1(file') /\ file.next \in Handle
        /\ \A h \in Handle : file'.servers[h] =
              IF h = file.next THEN Bound(i, endpoint[i]) ELSE file.servers[h]
    BY <1>3, RegisterIs DEF Register
  <2>2. ~ Listed(i) /\ UNCHANGED endpoint /\ Loadable(file)
    BY <1>3, BegunLoads DEF Register, StartFits, Early, Known, Actors
  <2>3. /\ Bound(i, endpoint[i]).instance = i
        /\ Bound(i, endpoint[i]) # NoRecord
    BY BoundIn DEF TypeOK, Bound
  <2>4. \A h \in Handle :
           h \in Present(file') <=> h \in Present(file) \/ h = file.next
    BY <2>1, <2>3 DEF Present
  <2>5. OneRecordEach(file')
    <3>1. \A h \in Present(file) : file.servers[h].instance # i
      BY <2>2 DEF Listed
    <3>2. file.form = "v1" \/ Present(file) = {}
      BY <2>2 DEF Loadable, FileFits, Sound, WellFormed, Empty, NoServers,
                  Present
    <3>3. ASSUME NEW h \in Present(file'), NEW k \in Present(file'),
                 file'.servers[h].instance = file'.servers[k].instance
          PROVE  h = k
      BY <2>1, <2>3, <2>4, <3>1, <3>2, <3>3 DEF FileFits, OneRecordEach,
       Present
    <3> QED
      BY <3>3 DEF OneRecordEach
  <2>6. ASSUME NEW h \in Present(file') PROVE RecordTrue(file.servers[h])'
    <3>1. CASE h = file.next
      BY <2>1, <2>2, <2>3, <3>1 DEF RecordTrue
    <3>2. CASE h # file.next
      BY <1>1, <2>1, <2>4, <3>2 DEF Present
    <3> QED
      BY <3>1, <3>2
  <2> QED
    BY <2>1, <2>5, <2>6 DEF FileFits, SoundV1, Loadable
<1>4. ASSUME SoundV1(file'), file.form = "v1",
             \A h \in Handle : file'.servers[h] \in {NoRecord, file.servers[h]}
      PROVE  FileFits'
  <2>1. \A h \in Present(file') :
           h \in Present(file) /\ file'.servers[h] = file.servers[h]
    BY <1>4 DEF Present
  <2>2. OneRecordEach(file')
    BY <1>4, <2>1 DEF OneRecordEach, FileFits
  <2>3. ASSUME NEW h \in Present(file') PROVE RecordTrue(file.servers[h])'
    BY <1>1, <2>1
  <2> QED
    BY <1>4, <2>2, <2>3 DEF FileFits, SoundV1, Loadable
<1>5. ASSUME NEW i \in Starters, Unregister(i) PROVE FileFits'
  BY <1>2, <1>4, <1>5, UnregisterLists
<1>6. ASSUME NEW c \in Stoppers, DeleteRecord(c) PROVE FileFits'
  BY <1>4, <1>6, DeleteRecordLists
<1>7. ASSUME World PROVE UNCHANGED file
  BY <1>7 DEF World, ChildListens, ChildDies, ChildExits, StrangerComes,
              StrangerLeaves
<1> QED
  BY <1>2, <1>3, <1>5, <1>6, <1>7, StartTouchesOwn, StopTouches, CleanTouches
     DEF Next

LEMMA AnnouncedStep ==
    ASSUME IInv, Next, NEW i \in Starters, Known(i)'
    PROVE  Announced(i)'
BY KnownStep, EverythingLasts DEF IInv, ChildFits, StartFits, Lasting,
                                  Registers

(* The child listens on one socket, and a child asked to stop does.        *)
Listens(i) ==
    /\ \A s \in Sockets :
          listener[s] = i => child[i] \in {"up", "stopping"} /\ endpoint[i] = s
    /\ child[i] = "stopping" => listener[endpoint[i]] = i

LEMMA ListensKept ==
    ASSUME NEW i \in Starters, Listens(i), UNCHANGED <<listener, child,
                                                       endpoint>>
    PROVE  Listens(i)'
BY DEF Listens

LEMMA WorldListens ==
    ASSUME IInv, World, NEW i \in Starters, Listens(i)
    PROVE  Listens(i)'
<1> USE DEF IInv, TypeOK, Listens
<1>0. i # Nobody /\ i # Stranger
  BY ActorAssumption, ListenAssumption
<1>1. ASSUME NEW j \in Starters, NEW s \in Sockets, ChildListens(j, s)
      PROVE  Listens(i)'
  <2>1. /\ \A r \in Sockets : listener'[r] = IF r = s THEN j ELSE listener[r]
        /\ \A k \in Starters : endpoint'[k] = IF k = j THEN s ELSE endpoint[k]
        /\ child' = child /\ listener[s] = Nobody /\ child[j] = "up"
    BY <1>1 DEF ChildListens
  <2>2. \A r \in Sockets : listener[r] # j
    BY <1>1 DEF ChildListens, Listening
  <2> QED
    BY <1>0, <2>1, <2>2
<1>2. ASSUME NEW j \in Starters, ChildDies(j) \/ ChildExits(j)
      PROVE  Listens(i)'
  <2>1. /\ \A k \in Starters : child'[k] = IF k = j THEN "gone" ELSE child[k]
        /\ \A r \in Sockets : listener'[r] =
              IF listener[r] = j THEN Nobody ELSE listener[r]
        /\ endpoint' = endpoint
    BY <1>2 DEF ChildDies, ChildExits, Unlisten
  <2> QED
    BY <1>0, <2>1
<1>3. ASSUME NEW s \in Sockets, StrangerComes(s) \/ StrangerLeaves(s)
      PROVE  Listens(i)'
  <2>1. /\ UNCHANGED <<child, endpoint>>
        /\ \A r \in Sockets : r # s => listener'[r] = listener[r]
        /\ listener[s] \in {Nobody, Stranger}
        /\ listener'[s] \in {Nobody, Stranger}
    BY <1>3 DEF StrangerComes, StrangerLeaves
  <2> QED
    BY <1>0, <2>1
<1> QED
  BY <1>1, <1>2, <1>3 DEF World

LEMMA StartListens ==
    ASSUME IInv, NEW j \in Starters, StartStep(j), NEW i \in Starters, Listens(i)
    PROVE  Listens(i)'
<1> USE DEF IInv, TypeOK, Goto, world, startVars, stopVars
<1>0. i # Nobody
  BY ActorAssumption, ListenAssumption
<1>1. CASE UNCHANGED <<listener, child, endpoint>>
  BY <1>1, ListensKept
<1>2. CASE CreateArtifact(j) \/ \E f \in Secrets : Hide(j, f) \/ Drop(j, f)
  <2>1. UNCHANGED <<listener, child, endpoint>>
    BY <1>2 DEF CreateArtifact, Hide, Drop
  <2> QED
    BY <2>1, ListensKept
<1>3. CASE Spawn(j)
  <2>1. /\ UNCHANGED <<listener, endpoint>> /\ child[j] = "none"
        /\ \A k \in Starters : k # j => child'[k] = child[k]
        /\ child'[j] \in {"none", "up"}
    BY <1>3 DEF Spawn, StartFits
  <2> QED
    BY <2>1 DEF Listens
<1>4. CASE Rollback(j)
  <2>1. \/ UNCHANGED <<listener, child, endpoint>>
        \/ /\ \A k \in Starters : child'[k] = IF k = j THEN "gone" ELSE child[k]
           /\ \A r \in Sockets : listener'[r] =
                 IF listener[r] = j THEN Nobody ELSE listener[r]
           /\ endpoint' = endpoint
    BY <1>4 DEF Rollback, Unlisten
  <2> QED
    BY <1>0, <2>1 DEF Listens
<1> QED
  BY <1>1, <1>2, <1>3, <1>4, StartTouches

LEMMA StopListens ==
    ASSUME IInv, NEW c \in Stoppers, StopStep(c), NEW i \in Starters, Listens(i)
    PROVE  Listens(i)'
<1> USE DEF IInv, TypeOK
<1>1. CASE UNCHANGED child
  BY <1>1, StopTouches, ListensKept
<1>2. CASE Post(c)
  <2>1. /\ UNCHANGED <<listener, endpoint>>
        /\ \A k \in Starters : child'[k] = IF k = Subject(c) THEN "stopping"
                                           ELSE child[k]
        /\ Socket(c) \in Sockets /\ listener[Socket(c)] = Subject(c)
    BY <1>2 DEF Post, Socket, StopFits, Record
  <2> QED
    BY <2>1 DEF Listens
<1> QED
  BY <1>1, <1>2, StopTouches

LEMMA ChildStep ==
    ASSUME IInv, Next, NEW i \in Starters
    PROVE  ChildFits(i)'
<1>1. Listens(i)
  BY DEF IInv, ChildFits, Listens
<1>2. ASSUME NEW a \in Actors, CleanStep(a) \/ Crash(a) PROVE Listens(i)'
  BY <1>1, <1>2, CleanTouches, ListensKept DEF IInv
<1>3. Listens(i)'
  BY <1>1, <1>2, WorldListens, StartListens, StopListens DEF Next
<1> QED
  BY <1>3, AnnouncedStep DEF ChildFits, Listens

-----------------------------------------------------------------------------
(* What the steps of others leave a start command.                         *)

Undisturbed(i) ==
    /\ pc'[i] = pc[i] /\ trouble'[i] = trouble[i]
    /\ content'[i] = content[i] \/ content'[i] = {}
    /\ \/ child'[i] = child[i]
       \/ child[i] # "none" /\ child'[i] = "gone"
       \/ child[i] # "none" /\ child'[i] = "stopping" /\ Known(i)
    /\ \/ dir'[i] = dir[i]
       \/ child[i] # "none" /\ dir[i] # {} /\ dir'[i] = dir[i] \cup {"info"}
       \/ child[i] # "none" /\ child'[i] = "gone" /\ dir'[i] = dir[i] \ {"info"}
       \/ Known(i) /\ child[i] = "gone" /\ dir'[i] = {}

LEMMA WorldSpares ==
    ASSUME IInv, World, NEW i \in Starters
    PROVE  Undisturbed(i)
<1> USE DEF IInv, TypeOK, Undisturbed, startVars
<1>0. i \in Actors
  BY DEF Actors
<1>1. ASSUME NEW j \in Starters, NEW s \in Sockets, ChildListens(j, s)
      PROVE  Undisturbed(i)
  <2>1. /\ UNCHANGED <<child, pc, content, trouble>>
        /\ child[j] = "up"
        /\ dir'[i] = IF i = j /\ "runtime" \in dir[i]
                     THEN dir[i] \cup {"info"} ELSE dir[i]
    BY <1>1 DEF ChildListens
  <2> QED
    BY <2>1
<1>2. ASSUME NEW j \in Starters, ChildDies(j)
      PROVE  Undisturbed(i)
  BY <1>2 DEF ChildDies
<1>3. ASSUME NEW j \in Starters, ChildExits(j)
      PROVE  Undisturbed(i)
  <2>1. /\ UNCHANGED <<pc, content, trouble>>
        /\ child[j] = "stopping"
        /\ child'[i] = IF i = j THEN "gone" ELSE child[i]
        /\ dir'[i] = IF i = j THEN dir[i] \ {"info"} ELSE dir[i]
    BY <1>3 DEF ChildExits
  <2> QED
    BY <2>1
<1>4. ASSUME NEW s \in Sockets, StrangerComes(s) \/ StrangerLeaves(s)
      PROVE  Undisturbed(i)
  BY <1>4 DEF StrangerComes, StrangerLeaves
<1> QED
  BY <1>1, <1>2, <1>3, <1>4 DEF World

LEMMA StartSpares ==
    ASSUME IInv, NEW j \in Starters, StartStep(j), NEW i \in Starters, i # j
    PROVE  Undisturbed(i)
BY StartTouchesOwn DEF IInv, OthersWait, OthersHold, Undisturbed, Actors

LEMMA StopSpares ==
    ASSUME IInv, NEW c \in Stoppers, StopStep(c), NEW i \in Starters
    PROVE  Undisturbed(i)
<1>1. /\ UNCHANGED <<dir, content, trouble>> /\ pc'[i] = pc[i]
      /\ UNCHANGED child \/ Post(c)
  BY StopTouches, ActorAssumption DEF IInv, OthersWait, Actors
<1>2. CASE Post(c)
  <2>1. CASE Subject(c) = i
    <3>1. child[i] # "none" /\ child'[i] = "stopping"
      <4>1. Socket(c) \in Sockets
        BY <1>2 DEF Post, Socket, IInv, StopFits, Record
      <4>2. child[i] \in {"up", "stopping"}
        BY <1>2, <2>1, <4>1 DEF Post, IInv, ChildFits
      <4> QED
        BY <1>2, <2>1, <4>2 DEF Post, IInv, TypeOK
    <3>2. Known(i)
      BY <1>2, <2>1 DEF Post, IInv, StopFits, Known, Aims
    <3> QED
      BY <1>1, <3>1, <3>2 DEF Undisturbed
  <2>2. CASE Subject(c) # i
    BY <1>1, <1>2, <2>2 DEF Post, IInv, TypeOK, Undisturbed
  <2> QED
    BY <2>1, <2>2
<1> QED
  BY <1>1, <1>2 DEF Undisturbed

LEMMA CleanSpares ==
    ASSUME IInv, NEW a \in Actors, CleanStep(a) \/ Crash(a),
           NEW i \in Starters, i # a
    PROVE  Undisturbed(i)
<1>1. /\ UNCHANGED <<child, trouble>> /\ pc'[i] = pc[i]
  BY CleanTouches DEF IInv, OthersWait, Actors
<1>2. content'[i] = content[i] \/ content'[i] = {}
  BY DEF CleanStep, Inspect, Rename, Purge, PurgeFails, Judge, Crash, Cleaned,
         startVars, IInv, TypeOK
<1>3. CASE UNCHANGED dir
  BY <1>1, <1>2, <1>3 DEF Undisturbed
<1>4. CASE Rename(a)
  <2>1. dir'[i] = dir[i] \/ (Subject(a) = i /\ dir'[i] = {})
    BY <1>4 DEF Rename, IInv, TypeOK
  <2>2. CASE Subject(a) = i
    <3>1. a \in Stoppers /\ pc[a] = "rename"
      BY <1>4, <2>2 DEF Subject, Actors, Rename
    <3>2. target[a] # NoTarget /\ child[i] = "gone"
      BY <2>2, <3>1 DEF IInv, StopFits, CleanPlaces
    <3>3. Known(i)
      BY <2>2, <3>1, <3>2 DEF Known, Aims
    <3> QED
      BY <1>1, <1>2, <2>1, <3>2, <3>3 DEF Undisturbed
  <2> QED
    BY <1>1, <1>2, <2>1, <2>2 DEF Undisturbed
<1> QED
  BY <1>3, <1>4, CleanTouches DEF IInv

(* So it is as it was for the start command.                               *)
LEMMA HoldsKept ==
    ASSUME NEW i \in Starters, Undisturbed(i), NEW E, Holds(i, E), "info" \notin E,
           dir[i] = {} => dir'[i] = {}
    PROVE  dir'[i] = {} \/ dir'[i] \ {"info"} = E
BY DEF Holds, Undisturbed

LEMMA StartKept ==
    ASSUME IInv, Next, NEW i \in Starters, Undisturbed(i)
    PROVE  StartFits(i)'
<1>1. /\ StartFits(i) /\ Lasting(i) /\ (Announced(i) => Announced(i)')
      /\ child'[i] # "gone" => child[i] # "gone"
  BY EverythingLasts DEF Lasting, IInv
<1> USE DEF Undisturbed
<1>2. Known(i)' => Known(i)
  BY KnownStep DEF Registers
<1>3. pc[i] \in Early => ~ Known(i)' /\ child'[i] # "stopping"
  BY <1>1, <1>2 DEF StartFits
<1>4. /\ pc[i] = "new" => dir'[i] = {}
      /\ pc[i] \in {"new", "creating"} => child'[i] = "none"
      /\ pc[i] = "creating" => dir'[i] \in Growing
  BY <1>1 DEF StartFits, Early
<1>5. pc[i] \in {"polling", "registering"} =>
         /\ dir'[i] \ {"info"} = Made
         /\ child'[i] # "gone" /\ "info" \in dir[i] => "info" \in dir'[i]
  BY <1>1 DEF StartFits, Early
<1>6. ASSUME pc[i] \in Hiding \cup {"started"}
      PROVE  /\ Announced(i)'
             /\ child'[i] # "gone" =>
                   Listed(i)' /\ {"marker", "info"} \subseteq dir'[i]
             /\ ~ trouble[i] =>
                   dir'[i] = {} \/ dir'[i] \ {"info"} = Left(pc[i])
             /\ ~ trouble[i] /\ pc[i] # "erase" => content'[i] = {}
  <2>1. child'[i] # "gone" => child[i] # "gone" /\ Listed(i)
    BY <1>1, <1>6 DEF StartFits
  <2>2. child'[i] # "gone" => Listed(i)'
    BY <1>6, <2>1, ListingStep DEF Listing, Hiding
  <2>3. child'[i] # "gone" => {"marker", "info"} \subseteq dir'[i]
    BY <1>1, <1>6, <2>1 DEF StartFits
  <2>4. "info" \notin Left(pc[i])
    BY <1>6 DEF Left, Hiding, Made, Bare, Secrets
  <2>5. pc[i] \notin Early
    BY <1>6 DEF Hiding, Early
  <2>6. dir[i] = {} => dir'[i] = {}
    BY <1>1, <2>5 DEF Lasting
  <2>7. ~ trouble[i] => Holds(i, Left(pc[i]))
    BY <1>1, <1>6 DEF StartFits
  <2>8. ~ trouble[i] => dir'[i] = {} \/ dir'[i] \ {"info"} = Left(pc[i])
    BY <2>4, <2>6, <2>7, HoldsKept
  <2> QED
    BY <1>1, <1>6, <2>2, <2>3, <2>8 DEF StartFits
<1>7. pc[i] = "registering" =>
         Announced(i)' /\ (child'[i] # "gone" => "info" \in dir'[i])
  BY <1>1, <1>5 DEF StartFits
<1> QED
  BY <1>1, <1>3, <1>4, <1>5, <1>6, <1>7 DEF StartFits, Holds

LEMMA FullStays ==
    ASSUME IInv, Next, ~ CanDelete(file)
    PROVE  UNCHANGED file
<1>1. file.rev = MaxU64
  <2>1. file.rev \in U64
    BY DEF IInv, TypeOK, DiskFile
  <2> QED
    BY <2>1, BoundsAssumption DEF U64, CanDelete
<1>2. ASSUME NEW i \in Starters, Register(i) PROVE FALSE
  BY <1>1, <1>2, BoundsAssumption DEF Register, Registered, CanAllocate
<1>3. ASSUME NEW i \in Starters, Unregister(i) PROVE UNCHANGED file
  BY <1>3 DEF Unregister
<1>4. ASSUME NEW c \in Stoppers, DeleteRecord(c) PROVE FALSE
  BY <1>4 DEF DeleteRecord
<1>5. ASSUME World PROVE UNCHANGED file
  BY <1>5 DEF World, ChildListens, ChildDies, ChildExits, StrangerComes,
              StrangerLeaves
<1> QED
  BY <1>2, <1>3, <1>4, <1>5, StartTouchesOwn, StopTouches, CleanTouches
     DEF Next, IInv

LEMMA MishapsStay ==
    ASSUME IInv, Next, mishaps' = 0
    PROVE  mishaps = 0
<1> USE DEF Mishap
<1>1. mishaps \in Nat
  BY MishapAssumption DEF IInv, TypeOK
<1>2. ASSUME World PROVE UNCHANGED mishaps
  BY <1>2 DEF World, ChildListens, ChildDies, ChildExits, StrangerComes,
              StrangerLeaves
<1>3. ASSUME NEW a \in Actors, CleanStep(a) \/ Crash(a)
      PROVE  UNCHANGED mishaps \/ Mishap
  BY <1>3 DEF CleanStep, Inspect, Rename, Purge, PurgeFails, Judge, Crash
<1>4. ASSUME NEW i \in Starters, StartStep(i)
      PROVE  UNCHANGED mishaps \/ Mishap
  BY <1>4 DEF StartStep, BeginStart, CreateArtifact, CreateFails, Spawn, Ready,
     GiveUp, Register, RegisterFails, Rollback, Discard, Unregister, Erase, Hide,
     HideFails, Drop, DropFails
<1>5. ASSUME NEW c \in Stoppers, StopStep(c) PROVE UNCHANGED mishaps
  BY <1>5, StopTouches DEF IInv
<1> QED
  BY <1>1, <1>2, <1>3, <1>4, <1>5 DEF Next

LEMMA CalmKept ==
    ASSUME IInv, Next, NEW i \in Starters, Undisturbed(i)
    PROVE  CalmFits(i)'
<1> SUFFICES ASSUME mishaps' = 0 PROVE CalmFits(i)'
  BY DEF CalmFits
<1>1. mishaps = 0 /\ CalmFits(i) /\ StartFits(i) /\ Lasting(i)
  BY MishapsStay, EverythingLasts DEF IInv
<1>2. pc[i] \in Undoing \/ trouble[i] => pc[i] \notin Early
  BY <1>1 DEF Undoing, CleanPlaces, Early, StartFits
<1>3. Listed(i)' => Listed(i)
  BY ListingStep DEF Listing, Registers, Undisturbed
<1>4. Listed(i)' /\ ~ CanDelete(file) => ~ CanDelete(file)'
  BY FullStays DEF CanDelete
<1>5. pc[i] \in Undoing \/ trouble[i] => (dir[i] = {} => dir'[i] = {})
  BY <1>1, <1>2 DEF Lasting
<1>6. pc[i] \in {"rollback", "discard", "inspect", "rename"} =>
         dir'[i] = {} \/ dir'[i] \ {"info"} = Made
  <2>1. "info" \notin Made
    BY DEF Made, Bare, Secrets
  <2> QED
    BY <1>1, <1>5, <2>1, HoldsKept DEF CalmFits, Undoing, CleanPlaces
<1>7. /\ trouble[i] => content'[i] = {} /\ dir'[i] = {}
      /\ pc[i] \in {"purge", "judge", "unregister", "failed"} => dir'[i] = {}
  BY <1>1, <1>5 DEF CalmFits, Undoing, CleanPlaces, Undisturbed
<1>8. /\ pc[i] \in Undoing \ {"rollback"} => child'[i] \in {"none", "gone"}
      /\ pc[i] \in Undoing \ {"rollback", "discard"} => content'[i] = {}
  <2>1. child[i] = "gone" => child'[i] = "gone"
    BY <1>1 DEF Lasting
  <2> QED
    BY <1>1, <2>1 DEF CalmFits, Undisturbed
<1>9. /\ pc[i] \in Undoing \ {"failed"} /\ ~ trouble[i] => ~ Listed(i)'
      /\ pc[i] = "failed" /\ Listed(i)' => ~ CanDelete(file)'
  BY <1>1, <1>3, <1>4 DEF CalmFits
<1> QED
  BY <1>6, <1>7, <1>8, <1>9 DEF CalmFits, Undisturbed, Holds

-----------------------------------------------------------------------------
(* The steps of a start command itself, up to the commit of its record.    *)

Fits(i) == StartFits(i) /\ CalmFits(i)

LEMMA OwnFacts ==
    ASSUME IInv, Next, NEW i \in Starters
    PROVE  /\ i \in Actors /\ StartFits(i) /\ CalmFits(i) /\ Lasting(i) /\ Listing(i)
           /\ Known(i)' => Known(i) \/ Registers(i)
           /\ mishaps' = 0 => mishaps = 0
BY EverythingLasts, ListingStep, KnownStep, MishapsStay DEF IInv, Actors

LEMMA BeginStartFits ==
    ASSUME IInv, Next, NEW i \in Starters, BeginStart(i)
    PROVE  Fits(i)'
<1>1. /\ pc[i] = "new" /\ pc'[i] = "creating"
      /\ UNCHANGED <<dir, child, content, trouble, mishaps>>
  BY OwnFacts DEF BeginStart, Goto, IInv, TypeOK, world, startVars
<1>2. StartFits(i)'
  BY <1>1, OwnFacts DEF StartFits, StartPlaces, Early, Hiding, Registers,
                        Growing
<1>3. CalmFits(i)'
  BY <1>1, OwnFacts DEF StartFits, CalmFits, Early, Undoing, CleanPlaces
<1> QED
  BY <1>2, <1>3 DEF Fits

(* One entry after the other.                                              *)
LEMMA Sizes ==
    /\ Cardinality({}) = 0
    /\ Cardinality({"dir"}) = 1
    /\ Cardinality({"dir", "marker"}) = 2
    /\ Cardinality(Bare) = 3
    /\ Cardinality(Bare \cup {"token"}) = 4
    /\ Cardinality(Made) = 5
<1>1. IsFiniteSet({}) /\ Cardinality({}) = 0
  BY FS_EmptySet
<1>2. IsFiniteSet({"dir"}) /\ Cardinality({"dir"}) = 1
  BY FS_Singleton
<1>3. IsFiniteSet({"dir", "marker"}) /\ Cardinality({"dir", "marker"}) = 2
  <2>1. {"dir", "marker"} = {"dir"} \cup {"marker"}
    OBVIOUS
  <2> QED
    BY <1>2, <2>1, FS_AddElement
<1>4. IsFiniteSet(Bare) /\ Cardinality(Bare) = 3
  <2>1. Bare = {"dir", "marker"} \cup {"runtime"} /\ "runtime" \notin {"dir", "marker"}
    BY DEF Bare
  <2> QED
    BY <1>3, <2>1, FS_AddElement
<1>5. IsFiniteSet(Bare \cup {"token"}) /\ Cardinality(Bare \cup {"token"}) = 4
  <2>1. "token" \notin Bare
    BY DEF Bare
  <2> QED
    BY <1>4, <2>1, FS_AddElement
<1>6. Cardinality(Made) = 5
  <2>1. Made = (Bare \cup {"token"}) \cup {"config"} /\ "config" \notin Bare \cup {"token"}
    BY DEF Made, Bare, Secrets
  <2> QED
    BY <1>5, <2>1, FS_AddElement
<1> QED
  BY <1>1, <1>2, <1>3, <1>4, <1>5, <1>6

LEMMA Grows ==
    ASSUME NEW d \in Growing, NEW k \in DOMAIN Artifacts, Cardinality(d) = k - 1
    PROVE  d \cup {Artifacts[k]} \in Growing
<1>1. k \in 1 .. 5 /\ Cardinality(d) + 1 = k
  <2>1. k \in 1 .. 5
    BY ArtifactIs
  <2>2. Cardinality(d) = k - 1
    OBVIOUS
  <2> QED
    BY <2>1, <2>2
<1>2. /\ Artifacts[1] = "dir" /\ Artifacts[2] = "marker" /\ Artifacts[3] = "runtime"
      /\ Artifacts[4] = "token" /\ Artifacts[5] = "config"
  BY DEF Artifacts
<1>3. CASE d = {}
  BY <1>1, <1>2, <1>3, Sizes DEF Growing
<1>4. CASE d = {"dir"}
  BY <1>1, <1>2, <1>4, Sizes DEF Growing
<1>5. CASE d = {"dir", "marker"}
  BY <1>1, <1>2, <1>5, Sizes DEF Growing, Bare
<1>6. CASE d = Bare
  BY <1>1, <1>2, <1>6, Sizes DEF Growing
<1>7. CASE d = Bare \cup {"token"}
  BY <1>1, <1>2, <1>7, Sizes DEF Growing, Made, Secrets
<1>8. CASE d = Made
  BY <1>1, <1>8, Sizes
<1> QED
  BY <1>3, <1>4, <1>5, <1>6, <1>7, <1>8 DEF Growing

LEMMA CreateArtifactFits ==
    ASSUME IInv, Next, NEW i \in Starters, CreateArtifact(i)
    PROVE  Fits(i)'
<1>1. /\ pc[i] = "creating" /\ pc'[i] = "creating"
      /\ UNCHANGED <<child, trouble, mishaps>>
  BY DEF CreateArtifact, world
<1>2. dir'[i] \in Growing
  <2>1. PICK k \in DOMAIN Artifacts :
            Cardinality(dir[i]) = k - 1 /\ dir'[i] = dir[i] \cup {Artifacts[k]}
    BY DEF CreateArtifact, IInv, TypeOK
  <2> QED
    BY <1>1, <2>1, OwnFacts, Grows DEF StartFits
<1>3. StartFits(i)'
  BY <1>1, <1>2, OwnFacts DEF StartFits, StartPlaces, Early, Hiding, Registers
<1>4. CalmFits(i)'
  BY <1>1, OwnFacts DEF StartFits, CalmFits, Early, Undoing, CleanPlaces
<1> QED
  BY <1>3, <1>4 DEF Fits

LEMMA CreateFailsFits ==
    ASSUME IInv, Next, NEW i \in Starters, CreateFails(i)
    PROVE  Fits(i)'
<1>1. pc'[i] \in {"failed", "inspect"} /\ mishaps' # 0
  BY OwnFacts, MishapTyped DEF CreateFails, Goto, IInv, TypeOK
<1> QED
  BY <1>1 DEF Fits, StartFits, CalmFits, StartPlaces, CleanPlaces, Early,
              Hiding

LEMMA SpawnFits ==
    ASSUME IInv, Next, NEW i \in Starters, Spawn(i)
    PROVE  Fits(i)'
<1>1. /\ pc[i] = "creating"
      /\ UNCHANGED <<dir, content, trouble, mishaps, file>>
      /\ \/ child'[i] = "up" /\ pc'[i] = "polling"
         \/ child'[i] = child[i] /\ pc'[i] = "discard"
  BY OwnFacts DEF Spawn, Goto, IInv, TypeOK, world, startVars
<1>2. dir[i] = Made
  <2>1. dir[i] \in Growing /\ Cardinality(dir[i]) = Len(Artifacts)
    BY <1>1, OwnFacts DEF StartFits, Spawn
  <2>2. Len(Artifacts) = 5
    BY DEF Artifacts
  <2> QED
    BY <2>1, <2>2, Sizes DEF Growing
<1>3. Made \ {"info"} = Made
  BY DEF Made, Bare, Secrets
<1>4. StartFits(i)'
  BY <1>1, <1>2, <1>3, OwnFacts
     DEF StartFits, StartPlaces, Early, Hiding, Registers
<1>5. CalmFits(i)'
  BY <1>1, <1>2, <1>3, OwnFacts, ListingKept
     DEF StartFits, CalmFits, Early, Undoing, CleanPlaces, Holds, Known
<1> QED
  BY <1>4, <1>5 DEF Fits

LEMMA PollFits ==
    ASSUME IInv, Next, NEW i \in Starters, Ready(i) \/ GiveUp(i) \/ RegisterFails(i)
    PROVE  Fits(i)'
<1>1. /\ UNCHANGED <<dir, child, content, trouble, mishaps, file, listener,
                     endpoint>>
      /\ \/ /\ pc[i] = "polling" /\ pc'[i] = "registering"
            /\ "info" \in dir[i] /\ listener[endpoint[i]] = i
         \/ pc[i] \in {"polling", "registering"} /\ pc'[i] = "rollback"
  BY OwnFacts DEF Ready, GiveUp, RegisterFails, Goto, IInv, TypeOK, world,
                  startVars
<1>2. StartFits(i)'
  BY <1>1, OwnFacts
     DEF StartFits, StartPlaces, Early, Hiding, Registers, Announced
<1>3. CalmFits(i)'
  BY <1>1, OwnFacts, ListingKept
     DEF StartFits, CalmFits, Early, Undoing, CleanPlaces, Holds, Known
<1> QED
  BY <1>2, <1>3 DEF Fits

LEMMA RegisterFits ==
    ASSUME IInv, Next, NEW i \in Starters, Register(i)
    PROVE  Fits(i)'
<1>1. /\ UNCHANGED <<dir, child, content, trouble, listener, endpoint>>
      /\ pc[i] = "registering"
      /\ \/ pc'[i] = "erase" \/ (mishaps' # 0 /\ pc'[i] = "rollback")
  BY OwnFacts, MishapTyped DEF Register, Goto, IInv, TypeOK, startVars
<1>2. Listed(i)'
  BY RegisterLists
<1>3. pc[i] = "registering" =>
         /\ {"marker", "info"} \subseteq dir[i] \/ child[i] = "gone"
         /\ dir[i] \ {"info"} = Made /\ Announced(i) /\ ~ trouble[i]
  <2>1. "marker" \in Made
    BY DEF Made, Bare
  <2> QED
    BY <2>1, OwnFacts DEF StartFits, Early
<1>4. StartFits(i)'
  BY <1>1, <1>2, <1>3
     DEF StartFits, StartPlaces, Early, Hiding, Announced, Holds, Left
<1>5. CalmFits(i)'
  BY <1>1, <1>3 DEF CalmFits, Undoing, CleanPlaces
<1> QED
  BY <1>4, <1>5 DEF Fits

-----------------------------------------------------------------------------
(* The steps of a start command itself, after the commit and to its end.   *)

LEMMA EraseFits ==
    ASSUME IInv, Next, NEW i \in Starters, Erase(i)
    PROVE  Fits(i)'
<1>1. /\ UNCHANGED <<dir, child, file>>
      /\ pc[i] = "erase" /\ pc'[i] = "hideToken"
      /\ \/ content'[i] = {} /\ trouble'[i] = trouble[i] /\ mishaps' = mishaps
         \/ mishaps' # 0 /\ trouble'[i]
  BY OwnFacts, MishapTyped DEF Erase, Goto, IInv, TypeOK, world, Trouble
<1>2. StartFits(i)'
  BY <1>1, OwnFacts, ListingKept
     DEF StartFits, StartPlaces, Early, Hiding, Lasting, Holds, Left
<1>3. CalmFits(i)'
  BY <1>1, OwnFacts DEF StartFits, CalmFits, Undoing, CleanPlaces, Early
<1> QED
  BY <1>2, <1>3 DEF Fits

(* By its place, what a start command hides, drops and has left.           *)
LEMMA SecretPlaces ==
    ASSUME NEW f \in Secrets
    PROVE  /\ HideAt(f) \in {"hideToken", "hideConfig"}
           /\ DropAt(f) \in {"dropToken", "dropConfig"}
           /\ f = "token" => HideAt(f) = "hideToken" /\ DropAt(f) = "dropToken"
           /\ f = "config" => HideAt(f) = "hideConfig" /\ DropAt(f) = "dropConfig"
           /\ f \notin Bare \cup {"info", "scratch"}
           /\ f \in Left(HideAt(f)) /\ "scratch" \in Left(DropAt(f))
           /\ "scratch" \notin Left(HideAt(f)) /\ "info" \notin Left(HideAt(f))
           /\ (Left(HideAt(f)) \ {f}) \cup {"scratch"} = Left(DropAt(f))
           /\ Left(DropAt(f)) \ {"scratch"} =
                 IF f = "token" THEN Left("hideConfig") ELSE Left("started")
           /\ "info" \notin Left(DropAt(f))
BY DEF HideAt, DropAt, Secrets, Bare, Made, Left

(* What all the steps that hide and drop the secrets have to show.         *)
LEMMA HidingFits ==
    ASSUME IInv, Next, NEW i \in Starters, UNCHANGED <<child, file>>,
           pc[i] \in Hiding, pc'[i] \in (Hiding \ {"erase"}) \cup {"started"},
           {"marker", "info"} \subseteq dir[i] => {"marker", "info"} \subseteq dir'[i],
           pc'[i] = "started" => ~ trouble'[i],
           ~ trouble'[i] =>
               /\ content'[i] = {}
               /\ dir'[i] = {} \/ dir'[i] \ {"info"} = Left(pc'[i])
    PROVE  StartFits(i)'
<1>1. /\ child'[i] # "gone" => Listed(i)' /\ {"marker", "info"} \subseteq dir'[i]
      /\ Announced(i)'
  BY OwnFacts, ListingKept DEF StartFits, Lasting
<1>2. pc'[i] \notin Early \cup {"erase"} /\ pc'[i] \in StartPlaces
  BY DEF Early, StartPlaces, Hiding
<1> QED
  BY <1>1, <1>2 DEF StartFits, Holds, Early

LEMMA HideFits ==
    ASSUME IInv, Next, NEW i \in Starters, NEW f \in Secrets, Hide(i, f)
    PROVE  Fits(i)'
<1>1. /\ UNCHANGED <<child, file, content, trouble, mishaps>>
      /\ pc[i] = HideAt(f) /\ pc'[i] = DropAt(f) /\ f \in dir[i]
      /\ dir'[i] = (dir[i] \ {f}) \cup {"scratch"}
  BY OwnFacts DEF Hide, Goto, IInv, TypeOK, world, startVars
<1>2. /\ pc[i] \in Hiding \ {"erase"} /\ pc'[i] \in Hiding \ {"erase"}
      /\ pc'[i] # "started"
  BY <1>1, SecretPlaces DEF Hiding
<1>3. ASSUME ~ trouble[i]
      PROVE  content[i] = {} /\ dir'[i] \ {"info"} = Left(DropAt(f))
  <2>1. content[i] = {} /\ dir[i] \ {"info"} = Left(HideAt(f))
    BY <1>1, <1>2, <1>3, OwnFacts DEF StartFits, Holds
  <2>2. dir'[i] \ {"info"} = ((dir[i] \ {"info"}) \ {f}) \cup {"scratch"}
    BY <1>1
  <2> QED
    BY <2>1, <2>2, SecretPlaces
<1>4. StartFits(i)'
  BY <1>1, <1>2, <1>3, HidingFits, SecretPlaces DEF Bare
<1>5. CalmFits(i)'
  <2>1. mishaps' = 0 => ~ trouble[i]
    BY <1>1, OwnFacts DEF CalmFits
  <2> QED
    BY <1>1, <1>2, <2>1, OwnFacts DEF CalmFits, Undoing, CleanPlaces, Hiding
<1> QED
  BY <1>4, <1>5 DEF Fits

(* Without a mishap a file that is not there means that the directory is   *)
(* not there.                                                              *)
LEMMA MissingIsGone ==
    ASSUME IInv, NEW i \in Starters, mishaps = 0, pc[i] \in Hiding \ {"erase"},
           NEW e, e \in Left(pc[i]), e \notin dir[i]
    PROVE  dir[i] = {} /\ content[i] = {}
<1>1. StartFits(i) /\ CalmFits(i)
  BY DEF IInv
<1>2. CASE trouble[i]
  BY <1>1, <1>2 DEF CalmFits
<1>3. CASE ~ trouble[i]
  BY <1>1, <1>3 DEF StartFits, Holds
<1> QED
  BY <1>2, <1>3

(* The two steps that find or meet an error.                               *)
LEMMA SecretFailsFits ==
    ASSUME IInv, Next, NEW i \in Starters, NEW f \in Secrets,
           HideFails(i, f) \/ DropFails(i, f)
    PROVE  Fits(i)'
<1>1. /\ UNCHANGED <<child, file, dir, content>>
      /\ pc[i] \in {HideAt(f), DropAt(f)}
      /\ pc'[i] = IF f = "token" THEN "hideConfig" ELSE "rollback"
      /\ trouble'[i] = TRUE
  BY OwnFacts DEF HideFails, DropFails, AfterSecret, Trouble, Goto, IInv,
                  TypeOK, world
<1>2. /\ pc[i] \in Hiding \ {"erase"}
      /\ pc'[i] \in {"hideConfig", "rollback"}
  BY <1>1, SecretPlaces DEF Hiding
<1>3. ASSUME mishaps' = 0
      PROVE  dir[i] = {} /\ content[i] = {}
  <2>1. CASE HideFails(i, f)
    <3>1. pc[i] = HideAt(f) /\ f \notin dir[i] /\ mishaps = 0
      BY <1>3, <2>1, MishapTyped, OwnFacts DEF HideFails
    <3> QED
      BY <1>2, <3>1, MissingIsGone, SecretPlaces
  <2>2. CASE DropFails(i, f)
    <3>1. pc[i] = DropAt(f) /\ "scratch" \notin dir[i] /\ mishaps = 0
      BY <1>3, <2>2, MishapTyped, OwnFacts DEF DropFails
    <3> QED
      BY <1>2, <3>1, MissingIsGone, SecretPlaces
  <2> QED
    BY <2>1, <2>2
<1>4. StartFits(i)'
  <2>1. CASE pc'[i] = "hideConfig"
    BY <1>1, <1>2, <2>1, HidingFits DEF Hiding
  <2>2. CASE pc'[i] = "rollback"
    BY <2>2 DEF StartFits, StartPlaces, Early, Hiding
  <2> QED
    BY <1>2, <2>1, <2>2
<1>5. CalmFits(i)'
  BY <1>1, <1>2, <1>3 DEF CalmFits, Undoing, CleanPlaces, Holds
<1> QED
  BY <1>4, <1>5 DEF Fits

LEMMA DropFits ==
    ASSUME IInv, Next, NEW i \in Starters, NEW f \in Secrets, Drop(i, f)
    PROVE  Fits(i)'
<1>1. /\ UNCHANGED <<child, file, mishaps>> /\ trouble'[i] = trouble[i]
      /\ pc[i] = DropAt(f)
      /\ pc'[i] = IF f = "token" THEN "hideConfig"
                  ELSE IF trouble[i] THEN "rollback" ELSE "started"
      /\ dir'[i] = dir[i] \ {"scratch"} /\ content'[i] = content[i] \ {f}
      /\ "scratch" \in dir[i]
  BY OwnFacts DEF Drop, AfterSecret, Trouble, Goto, IInv, TypeOK, world
<1>2. /\ pc[i] \in Hiding \ {"erase"}
      /\ pc'[i] \in {"hideConfig", "rollback", "started"}
  BY <1>1, SecretPlaces DEF Hiding
<1>3. ASSUME ~ trouble[i]
      PROVE  /\ content'[i] = {}
             /\ dir'[i] \ {"info"} =
                   IF f = "token" THEN Left("hideConfig") ELSE Left("started")
  <2>1. content[i] = {} /\ dir[i] \ {"info"} = Left(DropAt(f))
    BY <1>1, <1>2, <1>3, OwnFacts DEF StartFits, Holds
  <2>2. dir'[i] \ {"info"} = (dir[i] \ {"info"}) \ {"scratch"}
    BY <1>1
  <2> QED
    BY <1>1, <2>1, <2>2, SecretPlaces
<1>4. StartFits(i)'
  <2>1. CASE pc'[i] = "rollback"
    BY <2>1 DEF StartFits, StartPlaces, Early, Hiding
  <2>2. CASE pc'[i] # "rollback"
    <3>1. pc'[i] \in (Hiding \ {"erase"}) \cup {"started"}
      BY <1>2, <2>2 DEF Hiding
    <3>2. pc'[i] = IF f = "token" THEN "hideConfig" ELSE "started"
      BY <1>1, <2>2
    <3>3. pc'[i] = "started" => ~ trouble[i]
      BY <1>1
    <3> QED
      BY <1>1, <1>2, <1>3, <3>1, <3>2, <3>3, HidingFits
  <2> QED
    BY <2>1, <2>2
<1>5. CalmFits(i)'
  <2>1. mishaps' = 0 => ~ trouble[i]
    BY <1>1, OwnFacts DEF CalmFits
  <2> QED
    BY <1>1, <1>2, <2>1, OwnFacts DEF CalmFits, Undoing, CleanPlaces
<1> QED
  BY <1>4, <1>5 DEF Fits

LEMMA RollbackFits ==
    ASSUME IInv, Next, NEW i \in Starters, Rollback(i)
    PROVE  Fits(i)'
<1>1. /\ UNCHANGED <<file, dir, content, trouble>>
      /\ pc[i] = "rollback" /\ pc'[i] = "discard"
      /\ (child'[i] = "gone" /\ mishaps' = mishaps) \/ mishaps' # 0
  BY OwnFacts, MishapTyped DEF Rollback, Goto, IInv, TypeOK, startVars
<1> QED
  BY <1>1, OwnFacts, ListingKept
     DEF Fits, StartFits, CalmFits, StartPlaces, Early, Hiding, Undoing,
         CleanPlaces, Holds

LEMMA DiscardFits ==
    ASSUME IInv, Next, NEW i \in Starters, Discard(i)
    PROVE  Fits(i)'
<1>1. /\ UNCHANGED <<file, dir, child, trouble>>
      /\ pc[i] = "discard" /\ pc'[i] = "inspect"
      /\ \/ /\ content'[i] = (IF trouble[i] THEN content[i] ELSE {})
            /\ mishaps' = mishaps
         \/ mishaps' # 0
  BY OwnFacts, MishapTyped DEF Discard, Goto, IInv, TypeOK, world
<1> QED
  BY <1>1, OwnFacts, ListingKept
     DEF Fits, StartFits, CalmFits, StartPlaces, Early, Hiding, Undoing,
         CleanPlaces, Holds

LEMMA UnregisterFits ==
    ASSUME IInv, Next, NEW i \in Starters, Unregister(i)
    PROVE  Fits(i)'
<1>1. /\ UNCHANGED <<dir, child, content, trouble>>
      /\ pc[i] = "unregister" /\ pc'[i] = "failed"
  BY OwnFacts DEF Unregister, Goto, IInv, TypeOK, startVars
<1>2. ASSUME mishaps' = 0, Listed(i)' PROVE ~ CanDelete(file)'
  <2>1. CASE UNCHANGED file
    <3>1. Listed(i)
      BY <1>2, <2>1, ListingKept
    <3>2. CanDelete(file) => FALSE
      <4> SUFFICES ASSUME CanDelete(file) PROVE FALSE
        OBVIOUS
      <4>1. PICK h \in Handle : Matches(file, h, i) /\ file' = Deleted(file, h)
        BY <1>2, <3>1, MishapTyped DEF Unregister
      <4>2. file.servers[h] # NoRecord /\ file'.servers[h] = NoRecord
        <5>1. file.servers[h] # NoRecord
          BY <4>1 DEF Matches
        <5>2. file \in DiskFile
          BY DEF IInv, TypeOK
        <5>3. file'.servers = [file.servers EXCEPT ![h] = NoRecord]
          BY <4>1, <5>2, DeletedType
        <5> QED
          BY <5>1, <5>2, <5>3 DEF DiskFile, Servers
      <4> QED
        BY <2>1, <4>2
    <3> QED
      BY <2>1, <3>2 DEF CanDelete
  <2>2. CASE \A j : Listed(j)' <=> Listed(j) /\ j # i
    BY <1>2, <2>2
  <2> QED
    BY <2>1, <2>2, UnregisterLists
<1> QED
  BY <1>1, <1>2, OwnFacts
     DEF Fits, StartFits, CalmFits, StartPlaces, Early, Hiding, Undoing,
         CleanPlaces, Holds

(* The cleanup of its own directory, and a crash.                          *)
LEMMA CleanFits ==
    ASSUME IInv, Next, NEW i \in Starters, CleanStep(i) \/ Crash(i)
    PROVE  Fits(i)'
<1>0. Subject(i) = i /\ i \notin Stoppers
  BY ActorAssumption DEF Subject
<1> DEFINE End == IF trouble[i] THEN "unregister" ELSE "failed"
<1>1. UNCHANGED <<file, child, trouble>>
  BY OwnFacts, CleanTouches DEF IInv
<1>2. CASE Inspect(i)
  <2>1. /\ UNCHANGED <<dir, content, mishaps>>
        /\ pc[i] = "inspect"
        /\ IF dir[i] = {} THEN pc'[i] = End
           ELSE pc'[i] = IF Removable(dir[i]) THEN "rename" ELSE "judge"
    BY <1>0, <1>2, OwnFacts
       DEF Inspect, Cleaned, Goto, IInv, TypeOK, startVars
  <2>2. dir[i] \ {"info"} = Made => Removable(dir[i])
    BY DEF Removable, Made, Bare, Secrets
  <2> QED
    BY <1>1, <2>1, <2>2, OwnFacts, ListingKept
       DEF Fits, StartFits, CalmFits, StartPlaces, CleanPlaces, Early, Hiding,
           Undoing, Holds
<1>3. CASE Rename(i)
  <2>1. /\ UNCHANGED <<content, mishaps>>
        /\ pc[i] = "rename" /\ pc'[i] \in {"judge", "purge"} /\ dir'[i] = {}
    BY <1>0, <1>3, OwnFacts DEF Rename, Goto, IInv, TypeOK, startVars
  <2> QED
    BY <1>1, <2>1, OwnFacts, ListingKept
       DEF Fits, StartFits, CalmFits, StartPlaces, CleanPlaces, Early, Hiding,
           Undoing, Holds
<1>4. CASE Purge(i) \/ Judge(i)
  <2>1. /\ UNCHANGED <<dir, mishaps>>
        /\ pc[i] \in {"purge", "judge"} /\ pc'[i] = End
        /\ content'[i] = content[i] \/ content'[i] = {}
    BY <1>0, <1>4, OwnFacts DEF Purge, Judge, Cleaned, Goto, IInv, TypeOK,
                                startVars
  <2> QED
    BY <1>1, <2>1, OwnFacts, ListingKept
       DEF Fits, StartFits, CalmFits, StartPlaces, CleanPlaces, Early, Hiding,
           Undoing, Holds
<1>5. CASE PurgeFails(i) \/ Crash(i)
  <2>1. mishaps' # 0 /\ pc'[i] \in {"judge", "crashed"}
    BY <1>5, OwnFacts, MishapTyped DEF PurgeFails, Crash, Goto, IInv, TypeOK
  <2> QED
    BY <2>1 DEF Fits, StartFits, CalmFits, StartPlaces, CleanPlaces, Early,
                Hiding
<1> QED
  BY <1>2, <1>3, <1>4, <1>5 DEF CleanStep

LEMMA StartStepFits ==
    ASSUME IInv, Next, NEW i \in Starters, StartStep(i)
    PROVE  Fits(i)'
BY BeginStartFits, CreateArtifactFits, CreateFailsFits, SpawnFits, PollFits,
   RegisterFits, RollbackFits, DiscardFits, UnregisterFits, EraseFits, HideFits,
   SecretFailsFits, DropFits
   DEF StartStep

LEMMA StartsFit ==
    ASSUME IInv, Next, NEW i \in Starters
    PROVE  Fits(i)'
<1>1. CASE StartStep(i) \/ CleanStep(i) \/ Crash(i)
  BY <1>1, StartStepFits, CleanFits
<1>2. ASSUME Undisturbed(i) PROVE Fits(i)'
  BY <1>2, StartKept, CalmKept DEF Fits
<1> QED
  BY <1>1, <1>2, WorldSpares, StartSpares, StopSpares, CleanSpares DEF Next

-----------------------------------------------------------------------------
(* The stop commands.                                                      *)

(* What a stop command may rely on as long as it keeps its record.         *)
LEMMA TargetLasts ==
    ASSUME IInv, Next, NEW c \in Stoppers, target[c] # NoTarget,
           target'[c] = target[c]
    PROVE  /\ Subject(c)' = Subject(c)
           /\ RecordTrue(target[c].record)'
           /\ Listed(Subject(c))' => Listed(Subject(c))
           /\ Subject(c) \in Starters =>
                 /\ Announced(Subject(c))
                 /\ child[Subject(c)] = "gone" => child'[Subject(c)] = "gone"
                 /\ dir[Subject(c)] = {} => dir'[Subject(c)] = {}
<1>1. c \notin Starters
  BY ActorAssumption
<1>2. Subject(c) = target[c].record.instance /\ Subject(c)' = Subject(c)
  BY <1>1 DEF Subject
<1>3. Known(Subject(c)) /\ RecordTrue(target[c].record)
  BY DEF Known, Aims, IInv, StopFits
<1>4. Subject(c) \in Starters =>
         /\ Announced(Subject(c)) /\ pc[Subject(c)] \notin Early
         /\ Lasting(Subject(c))
  BY <1>3, EverythingLasts DEF IInv, ChildFits, StartFits
<1>5. RecordTrue(target[c].record)'
  <2>1. Subject(c) \in Starters =>
           endpoint'[Subject(c)] = endpoint[Subject(c)]
    BY <1>4 DEF Lasting
  <2> QED
    BY <1>2, <1>3, <2>1 DEF RecordTrue
<1>6. Listed(Subject(c))' => Listed(Subject(c))
  <2>1. ASSUME NEW i, i = Subject(c) PROVE Listed(i)' => Listed(i)
    BY <1>4, <2>1, ListingStep DEF Listing, Registers, Early
  <2> QED
    BY <1>2, <2>1 DEF Listed
<1> QED
  BY <1>2, <1>4, <1>5, <1>6 DEF Lasting

LEMMA StopKept ==
    ASSUME IInv, Next, NEW c \in Stoppers, pc'[c] = pc[c],
           target'[c] = target[c], result'[c] = result[c]
    PROVE  StopFits(c)'
<1>1. StopFits(c)
  BY DEF IInv
<1>2. CASE target[c] = NoTarget
  BY <1>1, <1>2 DEF StopFits, CleanPlaces
<1>3. CASE target[c] # NoTarget
  <2>1. /\ Subject(c)' = Subject(c) /\ RecordTrue(target[c].record)'
        /\ Listed(Subject(c))' => Listed(Subject(c))
        /\ Subject(c) \in Starters =>
              /\ child[Subject(c)] = "gone" => child'[Subject(c)] = "gone"
              /\ dir[Subject(c)] = {} => dir'[Subject(c)] = {}
    BY <1>3, TargetLasts
  <2> QED
    BY <1>1, <1>3, <2>1 DEF StopFits
<1> QED
  BY <1>2, <1>3

LEMMA BeginStopFits ==
    ASSUME IInv, Next, NEW c \in Stoppers, NEW h \in Handle, BeginStop(c, h)
    PROVE  StopFits(c)'
<1>1. /\ UNCHANGED <<file, endpoint>> /\ Loadable(file) /\ c \in Actors
      /\ c \notin Starters
  BY ActorAssumption DEF BeginStop, world, Actors
<1>2. CASE file.servers[h] = NoRecord
  <2>1. /\ target'[c] = NoTarget /\ pc'[c] = "returned" /\ result'[c] = "false"
    BY <1>1, <1>2 DEF BeginStop, Return, Goto, IInv, TypeOK, StopFits
  <2> QED
    BY <2>1 DEF StopFits, StopPlaces, CleanPlaces
<1>3. CASE file.servers[h] # NoRecord
  <2>1. /\ target'[c] = [handle |-> h, record |-> file.servers[h]]
        /\ \/ pc'[c] = "probing" /\ result'[c] = result[c]
           \/ pc'[c] = "returned" /\ result'[c] = "error"
    BY <1>1, <1>3 DEF BeginStop, Return, Goto, IInv, TypeOK
  <2>2. result[c] = "none"
    BY DEF BeginStop, IInv, StopFits, TypeOK
  <2>3. h \in Present(file)
    BY <1>3 DEF Present
  <2>4. file.servers[h] \in Record /\ file.servers[h].instance \in Instances
    <3>1. file \in DiskFile /\ WellFormed(file)
      BY DEF IInv, TypeOK, FileFits, Sound
    <3>2. file.form = "v1"
      BY <1>1, <1>3, <3>1 DEF Loadable, WellFormed, Empty, NoServers
    <3> QED
      BY <1>3, <2>3, <3>1, <3>2 DEF WellFormed, DiskFile, Servers
  <2>5. Subject(c)' = file.servers[h].instance
    BY <1>1, <2>1 DEF Subject
  <2>6. RecordTrue(target[c].record)'
    BY <1>1, <2>1, <2>3 DEF IInv, FileFits, RecordTrue
  <2>7. target'[c] # NoTarget
    BY <2>1, <1>3 DEF NoTarget
  <2> QED
    BY <2>1, <2>2, <2>4, <2>5, <2>6, <2>7 DEF StopFits, StopPlaces, CleanPlaces
<1> QED
  BY <1>2, <1>3

(* A refusal of the socket of a server's record means that it is gone.     *)
LEMMA RefusedIsGone ==
    ASSUME IInv, Next, NEW c \in Stoppers, target[c] # NoTarget,
           target'[c] = target[c], Refused(c)
    PROVE  /\ target[c].record.bound => Subject(c) \in Starters
           /\ Subject(c) \in Starters =>
                 target[c].record.bound /\ child[Subject(c)] = "gone"
<1>1. c \notin Starters /\ Subject(c) = target[c].record.instance
  BY ActorAssumption DEF Subject
<1>2. RecordTrue(target[c].record)
  BY DEF IInv, StopFits
<1>3. target[c].record.bound => Subject(c) \in Starters
  BY <1>1, <1>2 DEF RecordTrue
<1>4. ASSUME Subject(c) \in Starters
      PROVE  target[c].record.bound /\ child[Subject(c)] = "gone"
  <2>1. target[c].record = Bound(Subject(c), endpoint[Subject(c)])
    BY <1>1, <1>2, <1>4 DEF RecordTrue
  <2>2. target[c].record.bound /\ Socket(c) = endpoint[Subject(c)]
    BY <2>1 DEF Bound, Socket
  <2>3. Announced(Subject(c))
    BY <1>4, TargetLasts
  <2>4. Subject(c) # Nobody
    BY <1>4, ActorAssumption, ListenAssumption
  <2> QED
    BY <2>2, <2>3, <2>4 DEF Refused, Announced
<1> QED
  BY <1>3, <1>4

(* A step that keeps the record and leads to another place.                *)
LEMMA StopMoves ==
    ASSUME IInv, Next, NEW c \in Stoppers, target[c] # NoTarget,
           target'[c] = target[c],
           pc'[c] \in (StopPlaces \cup CleanPlaces) \ {"fresh"},
           result'[c] # "none" => pc'[c] = "returned",
           pc'[c] \in CleanPlaces \cup {"racing"} => Subject(c) \in Starters,
           pc'[c] \in CleanPlaces \cup {"racing", "delete"}
               /\ Subject(c) \in Starters => child'[Subject(c)] = "gone",
           pc'[c] \in {"purge", "delete"} /\ Subject(c) \in Starters
               => dir'[Subject(c)] = {},
           result'[c] = "true" =>
               /\ ~ Listed(Subject(c))'
               /\ Subject(c) \in Starters =>
                     child'[Subject(c)] = "gone" /\ dir'[Subject(c)] = {}
    PROVE  StopFits(c)'
<1>1. StopFits(c) /\ Subject(c)' = Subject(c) /\ RecordTrue(target[c].record)'
  BY TargetLasts DEF IInv
<1> QED
  BY <1>1 DEF StopFits

LEMMA StopPlaceFits ==
    ASSUME IInv, Next, NEW c \in Stoppers,
           \/ Accepting(c) \/ Verified(c) \/ Unverified(c) \/ Post(c)
           \/ PostFails(c) \/ FirstRefusal(c) \/ LaterRefusal(c)
    PROVE  StopFits(c)'
<1>1. c \in Actors /\ target'[c] = target[c] /\ result'[c] = result[c]
  BY DEF Accepting, Verified, Unverified, Post, PostFails, FirstRefusal,
         LaterRefusal, stopVars, Actors
<1>2. pc[c] \in {"probing", "verify", "post", "await", "recheck", "confirm"}
  BY DEF Accepting, Verified, Unverified, Post, PostFails, FirstRefusal,
         LaterRefusal
<1>3. target[c] # NoTarget /\ result[c] = "none"
  BY <1>2 DEF IInv, StopFits
<1>4. CASE pc'[c] \in {"verify", "await", "post", "confirm", "recheck"}
  BY <1>1, <1>3, <1>4, StopMoves DEF StopPlaces, CleanPlaces
<1>5. CASE FirstRefusal(c) \/ LaterRefusal(c)
  <2>1. Refused(c) /\ UNCHANGED <<child, dir>>
    BY <1>5 DEF FirstRefusal, LaterRefusal, world
  <2>2. pc'[c] = IF target[c].record.bound THEN "inspect" ELSE "delete"
    BY <1>1, <1>5 DEF FirstRefusal, LaterRefusal, CleanUp, Goto, IInv, TypeOK
  <2>3. /\ target[c].record.bound => Subject(c) \in Starters
        /\ Subject(c) \in Starters =>
              target[c].record.bound /\ child[Subject(c)] = "gone"
    BY <1>1, <1>3, <2>1, RefusedIsGone
  <2>4. pc'[c] \in (StopPlaces \cup CleanPlaces) \ {"fresh", "racing", "purge"}
    BY <2>2 DEF StopPlaces, CleanPlaces
  <2>5. /\ pc'[c] \in CleanPlaces => Subject(c) \in Starters
        /\ pc'[c] = "delete" => Subject(c) \notin Starters
    BY <2>2, <2>3 DEF CleanPlaces
  <2>6. Subject(c) \in Starters => child'[Subject(c)] = "gone"
    BY <2>1, <2>3
  <2> QED
    BY <1>1, <1>3, <2>4, <2>5, <2>6, StopMoves
<1>6. ASSUME Accepting(c) \/ Verified(c) \/ Unverified(c) \/ Post(c) \/ PostFails(c)
      PROVE  pc'[c] \in {"verify", "await", "post", "confirm", "recheck"}
  BY <1>1, <1>6 DEF Accepting, Verified, Unverified, Post, PostFails, Goto,
                    IInv, TypeOK
<1> QED
  BY <1>4, <1>5, <1>6

LEMMA StopReturnFits ==
    ASSUME IInv, Next, NEW c \in Stoppers,
           GiveUpStop(c) \/ RaceLost(c) \/ DeleteGone(c) \/ DeleteFails(c)
    PROVE  StopFits(c)'
<1>1. c \in Actors /\ target'[c] = target[c]
  BY DEF GiveUpStop, RaceLost, DeleteGone, DeleteFails, Actors
<1>2. pc[c] \notin {"fresh", "returned", "crashed"}
  BY DEF GiveUpStop, RaceLost, DeleteGone, DeleteFails
<1>3. target[c] # NoTarget
  BY <1>2 DEF IInv, StopFits
<1>4. pc'[c] = "returned" /\ result'[c] \in {"false", "error"}
  BY <1>1 DEF GiveUpStop, RaceLost, DeleteGone, DeleteFails, Return, Goto,
              IInv, TypeOK
<1> QED
  BY <1>1, <1>3, <1>4, StopMoves DEF StopPlaces, CleanPlaces

LEMMA DeleteRecordFits ==
    ASSUME IInv, Next, NEW c \in Stoppers, DeleteRecord(c)
    PROVE  StopFits(c)'
<1>1. /\ c \in Actors /\ target'[c] = target[c] /\ pc[c] = "delete"
      /\ UNCHANGED <<child, dir>>
  BY DEF DeleteRecord, Actors
<1>2. /\ target[c] # NoTarget
      /\ Subject(c) \in Starters =>
            child[Subject(c)] = "gone" /\ dir[Subject(c)] = {}
  BY <1>1 DEF IInv, StopFits
<1>3. pc'[c] = "returned" /\ result'[c] \in {"true", "false"}
  BY <1>1 DEF DeleteRecord, Return, Goto, IInv, TypeOK
<1>4. ~ Listed(Subject(c))'
  <2>1. Subject(c)' = Subject(c)
    BY <1>1, <1>2, TargetLasts
  <2>2. ASSUME NEW i, i = Subject(c) PROVE ~ Listed(i)'
    BY <2>2, DeleteRecordLists
  <2> QED
    BY <2>1, <2>2 DEF Listed
<1> QED
  BY <1>1, <1>2, <1>3, <1>4, StopMoves DEF StopPlaces, CleanPlaces

LEMMA StopCleanFits ==
    ASSUME IInv, Next, NEW c \in Stoppers, CleanStep(c) \/ Crash(c)
    PROVE  StopFits(c)'
<1>1. /\ c \in Actors /\ c \notin Starters /\ UNCHANGED <<child, target,
                                                          result>>
  BY CleanTouches, ActorAssumption DEF Actors, IInv
<1>2. ASSUME CleanStep(c)
      PROVE  pc[c] \in CleanPlaces
  BY <1>2 DEF CleanStep, Inspect, Rename, Purge, PurgeFails, Judge, CleanPlaces
<1>3. ASSUME pc[c] \in CleanPlaces
      PROVE  /\ target[c] # NoTarget /\ result[c] = "none"
             /\ Subject(c) \in Starters /\ child[Subject(c)] = "gone"
             /\ pc[c] = "purge" => dir[Subject(c)] = {}
  BY <1>3 DEF IInv, StopFits, CleanPlaces
<1>4. ASSUME pc[c] \in CleanPlaces,
             pc'[c] \in CleanPlaces \cup {"delete", "racing"},
             pc'[c] \in {"purge", "delete"} => dir'[Subject(c)] = {}
      PROVE  StopFits(c)'
  <2>1. pc'[c] \in (StopPlaces \cup CleanPlaces) \ {"fresh"}
    BY <1>4 DEF StopPlaces, CleanPlaces
  <2> QED
    BY <1>1, <1>3, <1>4, <2>1, StopMoves
<1>5. CASE Inspect(c)
  <2>1. /\ UNCHANGED dir
        /\ \/ dir[Subject(c)] = {} /\ pc'[c] = "delete"
           \/ pc'[c] \in {"rename", "judge"}
    BY <1>1, <1>5 DEF Inspect, Cleaned, Goto, IInv, TypeOK
  <2> QED
    BY <1>2, <1>4, <1>5, <2>1 DEF CleanStep, CleanPlaces
<1>6. CASE Rename(c)
  <2>1. Subject(c) \in Starters
    BY <1>2, <1>3, <1>6 DEF CleanStep
  <2>2. dir'[Subject(c)] = {} /\ pc'[c] \in {"judge", "purge"}
    BY <1>1, <1>6, <2>1 DEF Rename, Goto, IInv, TypeOK
  <2> QED
    BY <1>2, <1>4, <1>6, <2>2 DEF CleanStep, CleanPlaces
<1>7. CASE Purge(c)
  <2>1. pc[c] = "purge" /\ UNCHANGED dir /\ pc'[c] = "delete"
    BY <1>1, <1>7 DEF Purge, Cleaned, Goto, IInv, TypeOK
  <2> QED
    BY <1>2, <1>3, <1>4, <1>7, <2>1 DEF CleanStep, CleanPlaces
<1>8. CASE PurgeFails(c) \/ Judge(c)
  <2>1. /\ UNCHANGED dir
        /\ \/ dir[Subject(c)] = {} /\ pc'[c] = "delete"
           \/ pc'[c] \in {"racing", "judge"}
    BY <1>1, <1>8 DEF PurgeFails, Judge, Cleaned, Goto, IInv, TypeOK
  <2> QED
    BY <1>2, <1>4, <1>8, <2>1 DEF CleanStep, CleanPlaces
<1>9. CASE Crash(c)
  <2>1. /\ pc[c] \notin {"fresh", "returned", "crashed"} /\ pc'[c] = "crashed"
    BY <1>1, <1>9 DEF Crash, Final, Goto, IInv, TypeOK
  <2>2. target[c] # NoTarget /\ result[c] = "none"
    BY <2>1 DEF IInv, StopFits
  <2> QED
    BY <1>1, <2>1, <2>2, StopMoves DEF StopPlaces, CleanPlaces
<1> QED
  BY <1>5, <1>6, <1>7, <1>8, <1>9 DEF CleanStep

LEMMA StopsFit ==
    ASSUME IInv, Next, NEW c \in Stoppers
    PROVE  StopFits(c)'
<1>1. CASE StopStep(c)
  BY <1>1, BeginStopFits, StopPlaceFits, StopReturnFits,
       DeleteRecordFits DEF StopStep
<1>2. CASE CleanStep(c) \/ Crash(c)
  BY <1>2, StopCleanFits
<1>3. CASE World
  BY <1>3, StopKept DEF World, ChildListens, ChildDies, ChildExits,
                        StrangerComes,
     StrangerLeaves, stopVars
<1>4. c \in Actors /\ c \notin Starters
  BY ActorAssumption DEF Actors
<1>5. ASSUME NEW i \in Starters, StartStep(i) PROVE StopFits(c)'
  BY <1>4, <1>5, StartTouchesOwn, StopKept DEF IInv, OthersWait
<1>6. ASSUME NEW d \in Stoppers, StopStep(d), d # c PROVE StopFits(c)'
  BY <1>4, <1>6, StopTouches, StopKept DEF IInv, OthersWait, OthersAim
<1>7. ASSUME NEW a \in Actors, CleanStep(a) \/ Crash(a), a # c PROVE StopFits(c)'
  BY <1>4, <1>7, CleanTouches, StopKept DEF IInv, OthersWait
<1> QED
  BY <1>1, <1>2, <1>3, <1>5, <1>6, <1>7 DEF Next

(* Only the deletion of a record that is there answers "true".             *)
LEMMA TrueIsDeleted ==
    ASSUME IInv, Next, NEW c \in Stoppers, result'[c] = "true"
    PROVE  \/ result[c] = "true" /\ target'[c] = target[c]
           \/ DeleteRecord(c)
<1>1. CASE StopStep(c)
  <2>1. result[c] # "true"
    <3>1. pc[c] # "returned"
      BY <1>1 DEF StopStep, BeginStop, FirstRefusal, Accepting, Verified,
         Unverified, Post, PostFails, LaterRefusal, GiveUpStop, RaceLost,
         DeleteRecord, DeleteGone, DeleteFails
    <3> QED
      BY <3>1 DEF IInv, StopFits
  <2>2. \A h \in Handle : ~ BeginStop(c, h)
    BY <2>1 DEF BeginStop, Return, IInv, TypeOK
  <2>3. ASSUME \/ FirstRefusal(c) \/ Accepting(c) \/ Verified(c) \/ Unverified(c)
               \/ Post(c) \/ PostFails(c) \/ LaterRefusal(c)
        PROVE  FALSE
    BY <2>1, <2>3 DEF FirstRefusal, Accepting, Verified, Unverified, Post,
       PostFails, LaterRefusal, stopVars
  <2>4. ASSUME GiveUpStop(c) \/ RaceLost(c) \/ DeleteGone(c) \/ DeleteFails(c)
        PROVE  FALSE
    BY <2>1, <2>4 DEF GiveUpStop, RaceLost, DeleteGone, DeleteFails, Return,
       IInv, TypeOK
  <2> QED
    BY <1>1, <2>2, <2>3, <2>4 DEF StopStep
<1>2. CASE ~ StopStep(c)
  <2>1. World => UNCHANGED <<target, result>>
    BY DEF World, ChildListens, ChildDies, ChildExits, StrangerComes,
           StrangerLeaves, stopVars
  <2> QED
    BY <1>2, <2>1, StartTouchesOwn, StopTouches, CleanTouches
       DEF Next, IInv, OthersAim
<1> QED
  BY <1>1, <1>2

LEMMA OneTrueStep == ASSUME IInv, Next PROVE OneTrue'
<1> SUFFICES ASSUME NEW c \in Stoppers, NEW d \in Stoppers, c # d,
                    result'[c] = "true", result'[d] = "true"
             PROVE  Subject(c)' # Subject(d)'
  BY DEF OneTrue
<1>1. ASSUME NEW a \in Stoppers, NEW b \in Stoppers, a # b,
             DeleteRecord(a), result'[b] = "true"
      PROVE  Subject(a)' # Subject(b)'
  <2>1. UNCHANGED target /\ result'[b] = result[b]
    BY <1>1 DEF DeleteRecord, Return, IInv, TypeOK
  <2>2. ~ Listed(Subject(b)) /\ Listed(Subject(a))
    BY <1>1, <2>1, DeleteRecordLists DEF IInv, StopFits
  <2> QED
    BY <2>1, <2>2, ActorAssumption DEF Subject
<1>2. CASE DeleteRecord(c) \/ DeleteRecord(d)
  BY <1>1, <1>2
<1>3. CASE ~ DeleteRecord(c) /\ ~ DeleteRecord(d)
  <2>1. /\ result[c] = "true" /\ target'[c] = target[c]
        /\ result[d] = "true" /\ target'[d] = target[d]
    BY <1>3, TrueIsDeleted
  <2>2. Subject(c)' = Subject(c) /\ Subject(d)' = Subject(d)
    BY <2>1, ActorAssumption DEF Subject
  <2> QED
    BY <2>1, <2>2 DEF IInv, OneTrue
<1> QED
  BY <1>2, <1>3

-----------------------------------------------------------------------------
LEMMA IInvInit == Init => IInv
<1> SUFFICES ASSUME Init PROVE IInv
  OBVIOUS
<1>1. /\ file \in DiskFile /\ Sound(file) /\ OneRecordEach(file)
      /\ \A h \in Present(file) :
            ~ file.servers[h].bound /\ file.servers[h].instance \notin Starters
  BY InitialDisksAssumption, FirstFilesAssumption DEF Init, Sound,
       OneRecordEach
<1>2. TypeOK
  <2>1. (CHOOSE s \in Sockets : TRUE) \in Sockets
    BY ListenAssumption
  <2>2. 0 \in U64 /\ NoTarget \in [handle : U64, record : Record \cup {NoRecord}]
    BY BoundsAssumption DEF U64, NoTarget
  <2>3. 0 \in 0 .. MaxMishaps
    BY MishapAssumption
  <2> QED
    BY <1>1, <2>1, <2>2, <2>3
       DEF Init, TypeOK, Places, StartPlaces, StopPlaces, CleanPlaces
<1>3. FileFits
  BY <1>1 DEF Init, FileFits, RecordTrue
<1>4. ASSUME NEW i \in Starters
      PROVE  ChildFits(i) /\ StartFits(i) /\ CalmFits(i)
  <2>1. /\ i # Nobody /\ i \in Actors
    BY ActorAssumption, ListenAssumption DEF Actors
  <2>2. ~ Known(i)
    BY <1>1 DEF Init, Known, Listed, Aims
  <2> QED
    BY <2>1, <2>2 DEF Init, ChildFits, StartFits, CalmFits, StartPlaces,
       CleanPlaces, Early, Hiding, Undoing
<1>5. ASSUME NEW c \in Stoppers PROVE StopFits(c)
  <2>1. c \in Actors /\ c \notin Starters
    BY ActorAssumption DEF Actors
  <2> QED
    BY <2>1 DEF Init, StopFits, StopPlaces, CleanPlaces
<1> QED
  BY <1>2, <1>3, <1>4, <1>5 DEF Init, IInv, OneTrue

LEMMA IInvStep == IInv /\ [Next]_vars => IInv'
<1>1. ASSUME IInv, Next PROVE IInv'
  <2>1. TypeOK'
    BY <1>1, WorldTypes, CleanTypes, StartTypes, StopTypes DEF Next
  <2>2. \A i \in Starters : ChildFits(i)' /\ StartFits(i)' /\ CalmFits(i)'
    BY <1>1, ChildStep, StartsFit DEF Fits
  <2> QED
    BY <1>1, <2>1, <2>2, FileStep, StopsFit, OneTrueStep DEF IInv
<1>2. ASSUME IInv, UNCHANGED vars PROVE IInv'
  <2> USE <1>2 DEF IInv, vars, startVars, stopVars
  <2>1. UNCHANGED <<file, listener, child, endpoint, dir, attic, pc, mishaps,
                    content, trouble, target, early, result>>
    OBVIOUS
  <2>2. TypeOK' /\ OneTrue'
    BY <2>1 DEF TypeOK, OneTrue, Subject
  <2>3. FileFits'
    BY <2>1 DEF FileFits, Sound, WellFormed, SocketsDistinct, OneRecordEach,
                RecordTrue, Loadable, ValidRegistry, Present
  <2>4. ASSUME NEW i \in Starters
        PROVE  (Listed(i)' <=> Listed(i)) /\ (Known(i)' <=> Known(i))
    BY <2>1 DEF Listed, Present, Known, Aims, Subject
  <2>5. ASSUME NEW i \in Starters
        PROVE  ChildFits(i)' /\ StartFits(i)' /\ CalmFits(i)'
    BY <2>1, <2>4 DEF ChildFits, StartFits, CalmFits, Announced, Holds,
                      CanDelete
  <2>6. ASSUME NEW c \in Stoppers PROVE StopFits(c)'
    BY <2>1 DEF StopFits, RecordTrue, Subject, Listed, Present
  <2> QED
    BY <2>2, <2>3, <2>5, <2>6
<1> QED
  BY <1>1, <1>2

LEMMA Inductive == Spec => []IInv
BY IInvInit, IInvStep, PTL DEF Spec

-----------------------------------------------------------------------------
(* Every variable keeps its shape, whatever the commands, the children and *)
(* the strangers do.                                                       *)
THEOREM LifecycleTypesHold == Spec => []TypeOK
BY Inductive, PTL DEF IInv

(* A server that was reported as started and still serves is in the        *)
(* registry and keeps what every status and stop verifies.                 *)
THEOREM ServersStayManaged == Spec => []ServingStaysManaged
<1>1. IInv => ServingStaysManaged
  <2> SUFFICES ASSUME IInv, NEW i \in Starters, pc[i] = "started", Listening(i)
               PROVE  Listed(i) /\ {"marker", "info"} \subseteq dir[i]
    BY DEF ServingStaysManaged
  <2>1. child[i] # "gone"
    BY DEF Listening, IInv, ChildFits
  <2> QED
    BY <2>1 DEF IInv, StartFits
<1> QED
  BY <1>1, Inductive, PTL

(* A start that ended left no readable secret, and one that succeeded left *)
(* a directory that passes the validation of a removal.                    *)
THEOREM StartsLeaveInOrder == Spec => []StartLeavesInOrder
<1>1. IInv => EndedStartHidesSecrets
  <2> SUFFICES ASSUME IInv, NEW i \in Starters,
                      pc[i] = "started" \/ (pc[i] = "failed" /\ mishaps = 0)
               PROVE  content[i] = {}
    BY DEF EndedStartHidesSecrets
  <2>1. CASE pc[i] = "started"
    BY <2>1 DEF IInv, StartFits
  <2>2. CASE pc[i] = "failed" /\ mishaps = 0
    BY <2>2 DEF IInv, CalmFits, Undoing
  <2> QED
    BY <2>1, <2>2
<1>2. IInv => StartedIsRemovable
  <2> SUFFICES ASSUME IInv, NEW i \in Starters, pc[i] = "started", dir[i] # {}
               PROVE  Removable(dir[i]) /\ dir[i] \cap Secrets = {}
    BY DEF StartedIsRemovable
  <2>1. dir[i] \ {"info"} = Bare
    BY DEF IInv, StartFits, Holds, Left
  <2> QED
    BY <2>1 DEF Removable, Bare, Secrets
<1> QED
  BY <1>1, <1>2, Inductive, PTL DEF StartLeavesInOrder

(* Without a crash and a failed call, a start that failed left no process, *)
(* no file and, unless the revisions have run out, no record.              *)
THEOREM FailedStartsLeaveNothing == Spec => []FailedStartLeavesNothing
<1>1. IInv => FailedStartLeavesNothing
  BY DEF IInv, CalmFits, FailedStartLeavesNothing, Undoing
<1> QED
  BY <1>1, Inductive, PTL

(* One stop of an instance says that it stopped the server, and then it is *)
(* off its socket, out of the registry, and its directory is gone.         *)
THEOREM OneStopAnswers == Spec => []OneStopSucceeds
<1>1. IInv => OneStopSucceeds
  <2> SUFFICES ASSUME IInv, NEW c \in Stoppers, result[c] = "true"
               PROVE  /\ \A d \in Stoppers :
                            result[d] = "true" /\ Subject(d) = Subject(c) => d = c
                      /\ ~ Listed(Subject(c))
                      /\ Subject(c) \in Starters =>
                            ~ Listening(Subject(c)) /\ dir[Subject(c)] = {}
    BY DEF OneStopSucceeds
  <2>1. /\ ~ Listed(Subject(c))
        /\ Subject(c) \in Starters =>
              child[Subject(c)] = "gone" /\ dir[Subject(c)] = {}
    BY DEF IInv, StopFits
  <2>2. Subject(c) \in Starters => ~ Listening(Subject(c))
    BY <2>1 DEF IInv, ChildFits, Listening
  <2>3. \A d \in Stoppers :
           result[d] = "true" /\ Subject(d) = Subject(c) => d = c
    BY DEF IInv, OneTrue
  <2> QED
    BY <2>1, <2>2, <2>3
<1> QED
  BY <1>1, Inductive, PTL

-----------------------------------------------------------------------------
(* Every step of a command, of a child or of a stranger is, for the        *)
(* registry, one registration, one deletion or nothing at all: the         *)
(* commands use the registry as AtomicRegistry promises it, whose promise  *)
(* ImplementsAtomicRegistry of JupyterRegistryProofs keeps.                *)
THEOREM CommandsUseTheRegistry == Spec => ASpec
<1>1. Init => AInit
  BY DEF Init, AInit
<1>2. IInv /\ [Next]_vars => [ANext]_file
  <2> SUFFICES ASSUME IInv, [Next]_vars PROVE [ANext]_file
    OBVIOUS
  <2>0. TypeOK
    BY DEF IInv
  <2>1. CASE World \/ UNCHANGED vars
    BY <2>1 DEF World, ChildListens, ChildDies, ChildExits, StrangerComes,
         StrangerLeaves, vars
  <2>2. ASSUME NEW i \in Starters, StartStep(i) PROVE [ANext]_file
    <3>1. ASSUME Register(i) PROVE RegistrationOf(file, file')
      BY <3>1, RegisterIs DEF Register
    <3>2. ASSUME Unregister(i), file' # file PROVE DeletionOf(file, file')
      BY <3>2, UnregisterLists
    <3> QED
      BY <2>0, <2>2, <3>1, <3>2, StartTouchesOwn DEF ANext, ARegister,
       ADeregister
  <2>3. ASSUME NEW c \in Stoppers, StopStep(c) PROVE [ANext]_file
    <3>1. ASSUME DeleteRecord(c) PROVE DeletionOf(file, file')
      BY <3>1, DeleteRecordLists
    <3> QED
      BY <2>0, <2>3, <3>1, StopTouches DEF ANext, ADeregister
  <2>4. ASSUME NEW a \in Actors, CleanStep(a) \/ Crash(a) PROVE [ANext]_file
    BY <2>0, <2>4, CleanTouches
  <2> QED
    BY <2>1, <2>2, <2>3, <2>4 DEF Next
<1> QED
  BY <1>1, <1>2, Inductive, PTL DEF Spec, ASpec

=============================================================================
