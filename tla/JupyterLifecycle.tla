-------------------------- MODULE JupyterLifecycle --------------------------
(***************************************************************************)
(* start_server and stop_server of gila_jupyter.rs working at the same     *)
(* time on the registry, the listening sockets and the private instance    *)
(* directories.                                                            *)
(*                                                                         *)
(* A registry transaction is one step here, on the variable file of        *)
(* AtomicRegistry, which JupyterRegistry implements.  Everything else is interleaved: the files of an        *)
(* instance are created, hidden in .gila-cleanup-* containers and removed  *)
(* one file-system call at a time, the child may listen, die or be         *)
(* replaced on its socket by a stranger at any time, and a command may     *)
(* crash.  A start command is named by the instance id it drew.            *)
(*                                                                         *)
(* Abstracted: the private tree is the set of its entries ("dir" is the    *)
(* directory itself, "info" the server file the child announces, "scratch" *)
(* a quarantine container); a private tree moved into a container beside   *)
(* it is the attic of the command that moved it.  A timeout is a step that *)
(* may be taken at any time.                                               *)
(***************************************************************************)
EXTENDS AtomicRegistry, FiniteSets, Sequences

CONSTANTS
    Starters,     \* start commands, named by the instance ids they draw
    Stoppers,     \* stop commands
    Nobody,       \* no process listens on a socket
    Stranger,     \* a listener that is no managed server
    MaxMishaps    \* bound: crashes and input/output failures

Actors == Starters \cup Stoppers

ASSUME ActorAssumption  ==
    Starters \subseteq Instances /\ Starters \cap Stoppers = {}
ASSUME ListenAssumption ==
    /\ Sockets # {}
    /\ Nobody # Stranger /\ {Nobody, Stranger} \cap Instances = {}
ASSUME MishapAssumption == MaxMishaps \in Nat
(* The history begins before the first start command: whatever identity-   *)
(* bound record there is, one of the start commands wrote it.  The ids of  *)
(* the rows found are random 128-bit numbers, distinct from one another    *)
(* and from those the start commands draw.                                 *)
ASSUME FirstFilesAssumption ==
    \A d \in InitialDisks :
        \A h \in Present(d) :
            /\ ~ d.servers[h].bound /\ d.servers[h].instance \notin Starters
            /\ \A k \in Present(d) :
                  d.form = "v1" /\ d.servers[h].instance = d.servers[k].instance
                  => h = k

VARIABLES
    listener,  \* who accepts connections on each socket
    child,     \* the process of each start command
    endpoint,  \* the socket in the server file the child announces
    dir,       \* entries at the public path of each instance directory
    attic,     \* the tree each command has moved into its own container
    content,   \* secret files whose bytes are still readable
    pc,        \* where each command is
    trouble,   \* a start command's cleanup_secrets has collected an error
    target,    \* the record a stop command cloned from its snapshot
    early,     \* a stop command found the listener refused at its first look
    result,    \* what a stop command returned
    mishaps    \* crashes and failures so far

startVars == <<content, trouble>>
stopVars  == <<target, early, result>>
vars == <<file, listener, child, endpoint, dir, attic, pc, mishaps,
          startVars, stopVars>>
world == <<file, listener, child, endpoint>>

Secrets   == {"token", "config"}
Artifacts == <<"dir", "marker", "runtime", "token", "config">>
Names     == {"dir", "marker", "runtime", "token", "config", "info", "scratch"}

StartPlaces == {"new", "creating", "polling", "registering", "rollback",
                "discard", "erase", "hideToken", "dropToken", "hideConfig", "dropConfig",
                "unregister", "started", "failed", "crashed"}
StopPlaces  == {"fresh", "probing", "verify", "await", "post", "recheck",
                "confirm", "delete", "racing", "returned", "crashed"}
CleanPlaces == {"inspect", "rename", "purge", "judge"}
Places      == StartPlaces \cup StopPlaces \cup CleanPlaces

NoTarget == [handle |-> 0, record |-> NoRecord]

Init ==
    /\ file \in InitialDisks
    /\ listener = [s \in Sockets |-> Nobody]
    /\ child    = [i \in Starters |-> "none"]
    /\ endpoint = [i \in Starters |-> CHOOSE s \in Sockets : TRUE]
    /\ dir      = [i \in Starters |-> {}]
    /\ attic    = [a \in Actors |-> {}]
    /\ content  = [i \in Starters |-> {}]
    /\ pc       = [a \in Actors |-> IF a \in Starters THEN "new" ELSE "fresh"]
    /\ trouble  = [i \in Starters |-> FALSE]
    /\ target   = [c \in Stoppers |-> NoTarget]
    /\ early    = [c \in Stoppers |-> FALSE]
    /\ result   = [c \in Stoppers |-> "none"]
    /\ mishaps  = 0

Goto(a, place) == pc' = [pc EXCEPT ![a] = place]
Mishap == mishaps < MaxMishaps /\ mishaps' = mishaps + 1

Listening(i) == \E s \in Sockets : listener[s] = i
Unlisten(i) ==
    [s \in Sockets |-> IF listener[s] = i THEN Nobody ELSE listener[s]]

Listed(i) == \E h \in Present(file) : file.servers[h].instance = i

-----------------------------------------------------------------------------
(* The outside world: the Jupyter child and strangers on its socket.       *)

ChildListens(i, s) ==
    /\ child[i] = "up" /\ ~ Listening(i)
    /\ listener[s] = Nobody
    /\ listener' = [listener EXCEPT ![s] = i]
    /\ endpoint' = [endpoint EXCEPT ![i] = s]
    /\ dir' = [dir EXCEPT ![i] = IF "runtime" \in @ THEN @ \cup {"info"} ELSE @]
    /\ UNCHANGED <<file, child, attic, pc, mishaps, startVars, stopVars>>

(* Killed from outside, or it fails: its server file stays behind.         *)
ChildDies(i) ==
    /\ child[i] # "none" /\ child[i] # "gone"
    /\ child' = [child EXCEPT ![i] = "gone"]
    /\ listener' = Unlisten(i)
    /\ UNCHANGED <<file, endpoint, dir, attic, pc, mishaps, startVars, stopVars>>

(* After api/shutdown it removes its server file and exits.                *)
ChildExits(i) ==
    /\ child[i] = "stopping"
    /\ child' = [child EXCEPT ![i] = "gone"]
    /\ listener' = Unlisten(i)
    /\ dir' = [dir EXCEPT ![i] = @ \ {"info"}]
    /\ UNCHANGED <<file, endpoint, attic, pc, mishaps, startVars, stopVars>>

StrangerComes(s) ==
    /\ listener[s] = Nobody
    /\ listener' = [listener EXCEPT ![s] = Stranger]
    /\ UNCHANGED <<file, child, endpoint, dir, attic, pc, mishaps, startVars,
                   stopVars>>

StrangerLeaves(s) ==
    /\ listener[s] = Stranger
    /\ listener' = [listener EXCEPT ![s] = Nobody]
    /\ UNCHANGED <<file, child, endpoint, dir, attic, pc, mishaps, startVars,
                   stopVars>>

-----------------------------------------------------------------------------
(* remove_private_tree, run by a start command on its own instance and by  *)
(* a stop command on the instance of its record.                           *)

Subject(a) == IF a \in Starters THEN a ELSE target[a].record.instance

Removable(tree) == "marker" \in tree /\ "scratch" \notin tree

(* Both callers return here: a failed cleanup keeps a stop command in the  *)
(* race loop; a start command only reports it.                             *)
Cleaned(a, ok) ==
    Goto(a, IF a \in Starters
            THEN IF trouble[a] THEN "unregister" ELSE "failed"
            ELSE IF ok THEN "delete" ELSE "racing")

(* The path is missing, or its entries are validated.                      *)
Inspect(a) ==
    /\ pc[a] = "inspect"
    /\ LET tree == dir[Subject(a)]
       IN IF tree = {} THEN Cleaned(a, TRUE)
          ELSE Goto(a, IF Removable(tree) THEN "rename" ELSE "judge")
    /\ UNCHANGED <<world, dir, attic, mishaps, startVars, stopVars>>

(* The validated path is renamed into a fresh container, unless another    *)
(* cleaner moved it first.                                                 *)
Rename(a) ==
    /\ pc[a] = "rename"
    /\ IF dir[Subject(a)] = {}
       THEN Goto(a, "judge") /\ UNCHANGED <<dir, attic>>
       ELSE /\ attic' = [attic EXCEPT ![a] = dir[Subject(a)]]
            /\ dir' = [dir EXCEPT ![Subject(a)] = {}]
            /\ Goto(a, "purge")
    /\ UNCHANGED <<world, mishaps, startVars, stopVars>>

Purge(a) ==
    /\ pc[a] = "purge"
    /\ attic' = [attic EXCEPT ![a] = {}]
    /\ content' = [content EXCEPT ![Subject(a)] = {}]
    /\ Cleaned(a, TRUE)
    /\ UNCHANGED <<world, dir, mishaps, trouble, stopVars>>

(* remove_dir_all failed: the tree stays in its container.                 *)
PurgeFails(a) ==
    /\ pc[a] = "purge"
    /\ Mishap
    /\ Goto(a, "judge")
    /\ UNCHANGED <<world, dir, attic, startVars, stopVars>>

(* Without an identity to expect, an error on a path that is missing by    *)
(* now is no error.                                                        *)
Judge(a) ==
    /\ pc[a] = "judge"
    /\ Cleaned(a, a \in Stoppers /\ dir[Subject(a)] = {})
    /\ UNCHANGED <<world, dir, attic, mishaps, startVars, stopVars>>

-----------------------------------------------------------------------------
(* start_server.                                                           *)

(* The read-only snapshot that validates the registry before anything is   *)
(* created.                                                                *)
BeginStart(i) ==
    /\ pc[i] = "new"
    /\ Loadable(file)
    /\ Goto(i, "creating")
    /\ UNCHANGED <<world, dir, attic, mishaps, startVars, stopVars>>

(* create_instance_artifacts, one entry at a time.                         *)
CreateArtifact(i) ==
    /\ pc[i] = "creating"
    /\ \E k \in DOMAIN Artifacts :
          /\ Cardinality(dir[i]) = k - 1
          /\ dir' = [dir EXCEPT ![i] = @ \cup {Artifacts[k]}]
          /\ content' = [content EXCEPT ![i] = @ \cup ({Artifacts[k]} \cap Secrets)]
    /\ UNCHANGED <<world, attic, pc, mishaps, trouble, stopVars>>

CreateFails(i) ==
    /\ pc[i] = "creating"
    /\ Cardinality(dir[i]) < Len(Artifacts)
    /\ Mishap
    /\ Goto(i, IF dir[i] = {} THEN "failed" ELSE "inspect")
    /\ UNCHANGED <<world, dir, attic, startVars, stopVars>>

Spawn(i) ==
    /\ pc[i] = "creating"
    /\ Cardinality(dir[i]) = Len(Artifacts)
    /\ \/ child' = [child EXCEPT ![i] = "up"] /\ Goto(i, "polling")
       \/ Goto(i, "discard") /\ UNCHANGED child
    /\ UNCHANGED <<file, listener, endpoint, dir, attic, mishaps, startVars,
                   stopVars>>

(* The announced endpoint answered api/status.                             *)
Ready(i) ==
    /\ pc[i] = "polling"
    /\ "info" \in dir[i] /\ listener[endpoint[i]] = i /\ child[i] = "up"
    /\ Goto(i, "registering")
    /\ UNCHANGED <<world, dir, attic, mishaps, startVars, stopVars>>

(* The child exited, an answer was rejected, or the deadline passed.       *)
GiveUp(i) ==
    /\ pc[i] = "polling"
    /\ Goto(i, "rollback")
    /\ UNCHANGED <<world, dir, attic, mishaps, startVars, stopVars>>

Registered(i) ==
    /\ ~ SocketTaken(file, endpoint[i])
    /\ CanAllocate(file) /\ CanInsert(Allocated(file), file.next)
    /\ file' = Inserted(Allocated(AsV1(file)), file.next,
                        Bound(i, endpoint[i]))

Register(i) ==
    /\ pc[i] = "registering"
    /\ Registered(i)
    /\ \/ Goto(i, "erase") /\ UNCHANGED mishaps
       \/ Mishap /\ Goto(i, "rollback")   \* replaced, and then an error
    /\ UNCHANGED <<listener, child, endpoint, dir, attic, startVars, stopVars>>

(* The socket is taken, a number is exhausted, or the transaction failed.  *)
RegisterFails(i) ==
    /\ pc[i] = "registering"
    /\ Goto(i, "rollback")
    /\ UNCHANGED <<world, dir, attic, mishaps, startVars, stopVars>>

(* StartupGuard::rollback: the process group is killed and reaped.         *)
Rollback(i) ==
    /\ pc[i] = "rollback"
    /\ Goto(i, "discard")
    /\ \/ child' = [child EXCEPT ![i] = "gone"] /\ listener' = Unlisten(i)
          /\ UNCHANGED mishaps
       \/ Mishap /\ UNCHANGED <<child, listener>>
    /\ UNCHANGED <<file, endpoint, dir, attic, startVars, stopVars>>

(* A slip: the private tree is forgotten once the process is gone.         *)
DiscardNothing(i) ==
    /\ pc[i] = "discard"
    /\ Goto(i, IF trouble[i] THEN "unregister" ELSE "failed")
    /\ UNCHANGED <<world, dir, attic, mishaps, startVars, stopVars>>

(* cleanup_all: secrets whose handles are still held are erased through    *)
(* them, then the tree is removed.                                         *)
Discard(i) ==
    /\ pc[i] = "discard"
    /\ Goto(i, "inspect")
    /\ \/ content' = [content EXCEPT ![i] = IF trouble[i] THEN @ ELSE {}]
          /\ UNCHANGED mishaps
       \/ Mishap /\ UNCHANGED content
    /\ UNCHANGED <<world, dir, attic, trouble, stopVars>>

-----------------------------------------------------------------------------
(* cleanup_secrets, after the record is committed.                         *)

Trouble(i, bad) == trouble' = [trouble EXCEPT ![i] = @ \/ bad]

(* A slip: the secrets are erased through their paths.                     *)
EraseByPath(i) ==
    /\ pc[i] = "erase"
    /\ Goto(i, "hideToken")
    /\ content' = [content EXCEPT ![i] = @ \ dir[i]]
    /\ UNCHANGED <<world, dir, attic, mishaps, trouble, stopVars>>

(* Both files are truncated through the handles that created them.         *)
Erase(i) ==
    /\ pc[i] = "erase"
    /\ Goto(i, "hideToken")
    /\ \/ content' = [content EXCEPT ![i] = {}]
          /\ UNCHANGED <<mishaps, trouble>>
       \/ Mishap /\ Trouble(i, TRUE) /\ UNCHANGED content
    /\ UNCHANGED <<world, dir, attic, stopVars>>

HideAt(f) == IF f = "token" THEN "hideToken" ELSE "hideConfig"
DropAt(f) == IF f = "token" THEN "dropToken" ELSE "dropConfig"

(* The errors are collected; after the second file they decide.            *)
AfterSecret(i, f, bad) ==
    /\ Trouble(i, bad)
    /\ Goto(i, IF f = "token" THEN "hideConfig"
               ELSE IF bad \/ trouble[i] THEN "rollback" ELSE "started")

(* quarantine_verified_unix_path inside the instance directory.            *)
Hide(i, f) ==
    /\ pc[i] = HideAt(f)
    /\ f \in dir[i]
    /\ dir' = [dir EXCEPT ![i] = (@ \ {f}) \cup {"scratch"}]
    /\ Goto(i, DropAt(f))
    /\ UNCHANGED <<world, attic, mishaps, startVars, stopVars>>

HideFails(i, f) ==
    /\ pc[i] = HideAt(f)
    /\ IF f \in dir[i] THEN Mishap ELSE UNCHANGED mishaps
    /\ AfterSecret(i, f, TRUE)
    /\ UNCHANGED <<world, dir, attic, content, stopVars>>

Drop(i, f) ==
    /\ pc[i] = DropAt(f)
    /\ "scratch" \in dir[i]
    /\ dir' = [dir EXCEPT ![i] = @ \ {"scratch"}]
    /\ content' = [content EXCEPT ![i] = @ \ {f}]
    /\ AfterSecret(i, f, FALSE)
    /\ UNCHANGED <<world, attic, mishaps, stopVars>>

(* A slip: the error of the second removal is dropped.                     *)
DropFailsQuietly(i, f) ==
    /\ pc[i] = DropAt(f)
    /\ IF "scratch" \in dir[i] THEN Mishap ELSE UNCHANGED mishaps
    /\ AfterSecret(i, f, FALSE)
    /\ UNCHANGED <<world, dir, attic, content, stopVars>>

DropFails(i, f) ==
    /\ pc[i] = DropAt(f)
    /\ IF "scratch" \in dir[i] THEN Mishap ELSE UNCHANGED mishaps
    /\ AfterSecret(i, f, TRUE)
    /\ UNCHANGED <<world, dir, attic, content, stopVars>>

(* compare_and_delete of the start command's own record.                   *)
Unregister(i) ==
    /\ pc[i] = "unregister"
    /\ IF Listed(i)
       THEN \/ /\ \E h \in Handle : Matches(file, h, i) /\ file' = Deleted(file, h)
               /\ CanDelete(file)
               /\ UNCHANGED mishaps
            \/ /\ IF CanDelete(file) THEN Mishap ELSE UNCHANGED mishaps
               /\ UNCHANGED file
       ELSE UNCHANGED <<file, mishaps>>
    /\ Goto(i, "failed")
    /\ UNCHANGED <<listener, child, endpoint, dir, attic, startVars, stopVars>>

-----------------------------------------------------------------------------
(* stop_server.                                                            *)

Return(c, answer) ==
    /\ Goto(c, "returned")
    /\ result' = [result EXCEPT ![c] = answer]

Socket(c)  == target[c].record.socket
Refused(c) == listener[Socket(c)] = Nobody

(* cleanup_registered_runtime leaves an unbound record's files alone.      *)
CleanUp(c) == Goto(c, IF target[c].record.bound THEN "inspect" ELSE "delete")

BeginStop(c, h) ==
    /\ pc[c] = "fresh"
    /\ Loadable(file)
    /\ IF file.servers[h] = NoRecord
       THEN Return(c, "false") /\ UNCHANGED target
       ELSE /\ target' = [target EXCEPT ![c] =
                             [handle |-> h, record |-> file.servers[h]]]
            /\ IF file.servers[h].valid
               THEN Goto(c, "probing") /\ UNCHANGED result
               ELSE Return(c, "error")
    /\ UNCHANGED <<world, dir, attic, mishaps, early, startVars>>

FirstRefusal(c) ==
    /\ pc[c] = "probing"
    /\ Refused(c)
    /\ early' = [early EXCEPT ![c] = TRUE]
    /\ CleanUp(c)
    /\ UNCHANGED <<world, dir, attic, mishaps, target, result, startVars>>

(* validate_registered_runtime: the instance's server file is in place.    *)
RuntimeValid(c) ==
    /\ target[c].record.bound
    /\ Subject(c) \in Starters
    /\ "info" \in dir[Subject(c)]
    /\ endpoint[Subject(c)] = Socket(c)

Accepting(c) ==
    /\ pc[c] = "probing"
    /\ ~ Refused(c)
    /\ RuntimeValid(c)
    /\ Goto(c, "verify")
    /\ UNCHANGED <<world, dir, attic, mishaps, stopVars, startVars>>

(* The authenticated probe, behind a second look at the server file.       *)
Verified(c) ==
    /\ pc[c] = "verify"
    /\ RuntimeValid(c)
    /\ listener[Socket(c)] = Subject(c)
    /\ Goto(c, "post")
    /\ UNCHANGED <<world, dir, attic, mishaps, stopVars, startVars>>

Unverified(c) ==
    /\ pc[c] = "verify"
    /\ Goto(c, "await")
    /\ UNCHANGED <<world, dir, attic, mishaps, stopVars, startVars>>

(* The shutdown request reaches the instance on its own base path; its     *)
(* answer may be lost.                                                     *)
Post(c) ==
    /\ pc[c] = "post"
    /\ listener[Socket(c)] = Subject(c)
    /\ child' = [child EXCEPT ![Subject(c)] = "stopping"]
    /\ Goto(c, "confirm") \/ Goto(c, "recheck")
    /\ UNCHANGED <<file, listener, endpoint, dir, attic, mishaps, stopVars,
                   startVars>>

PostFails(c) ==
    /\ pc[c] = "post"
    /\ Goto(c, "recheck")
    /\ UNCHANGED <<world, dir, attic, mishaps, stopVars, startVars>>

(* A slip: a 2xx answer is taken for the exit of the listener.             *)
LaterRefusalOrOk(c) ==
    /\ \/ pc[c] = "confirm"
       \/ pc[c] \in {"await", "recheck"} /\ Refused(c)
    /\ CleanUp(c)
    /\ UNCHANGED <<world, dir, attic, mishaps, stopVars, startVars>>

(* A later look at the socket finds the listener gone: the readiness race, *)
(* the failed request, or the confirmation of a shutdown.                  *)
LaterRefusal(c) ==
    /\ pc[c] \in {"await", "recheck", "confirm"}
    /\ Refused(c)
    /\ CleanUp(c)
    /\ UNCHANGED <<world, dir, attic, mishaps, stopVars, startVars>>

(* A slip: the race loop has no deadline of its own.                       *)
GiveUpUnlessRacing(c) ==
    /\ pc[c] \in {"probing", "await", "post", "recheck", "confirm"}
    /\ Return(c, "error")
    /\ UNCHANGED <<world, dir, attic, mishaps, target, early, startVars>>

(* An ambiguous look, a non-2xx answer, or a deadline: the record stays.   *)
GiveUpStop(c) ==
    /\ pc[c] \in {"probing", "await", "post", "recheck", "confirm", "racing"}
    /\ Return(c, "error")
    /\ UNCHANGED <<world, dir, attic, mishaps, target, early, startVars>>

(* The losing cleaner sees the record disappear.                           *)
RaceLost(c) ==
    /\ pc[c] = "racing"
    /\ file.servers[target[c].handle] = NoRecord
    /\ Return(c, "false")
    /\ UNCHANGED <<world, dir, attic, mishaps, target, early, startVars>>

(* delete_registered_instance, one transaction.                            *)
DeleteRecord(c) ==
    /\ pc[c] = "delete"
    /\ Matches(file, target[c].handle, Subject(c))
    /\ CanDelete(file)
    /\ file' = Deleted(file, target[c].handle)
    /\ Return(c, IF early[c] THEN "false" ELSE "true")
    /\ UNCHANGED <<listener, child, endpoint, dir, attic, mishaps, target, early,
                   startVars>>

(* A slip: a record that is gone counts as deleted.                        *)
DeleteGoneAsDone(c) ==
    /\ pc[c] = "delete"
    /\ ~ Matches(file, target[c].handle, Subject(c))
    /\ Return(c, "true")
    /\ UNCHANGED <<world, dir, attic, mishaps, target, early, startVars>>

DeleteGone(c) ==
    /\ pc[c] = "delete"
    /\ ~ Matches(file, target[c].handle, Subject(c))
    /\ Return(c, IF file.servers[target[c].handle] = NoRecord
                 THEN "false" ELSE "error")
    /\ UNCHANGED <<world, dir, attic, mishaps, target, early, startVars>>

DeleteFails(c) ==
    /\ pc[c] = "delete"
    /\ Return(c, "error")
    /\ UNCHANGED <<world, dir, attic, mishaps, target, early, startVars>>

-----------------------------------------------------------------------------
Final == {"new", "fresh", "started", "failed", "returned", "crashed"}

(* A command dies; the child of a start command goes on by itself.         *)
Crash(a) ==
    /\ pc[a] \notin Final
    /\ Mishap
    /\ Goto(a, "crashed")
    /\ UNCHANGED <<world, dir, attic, startVars, stopVars>>

CleanStep(a) == Inspect(a) \/ Rename(a) \/ Purge(a) \/ PurgeFails(a) \/ Judge(a)

StartStep(i) ==
    \/ BeginStart(i)
    \/ CreateArtifact(i) \/ CreateFails(i) \/ Spawn(i)
    \/ Ready(i) \/ GiveUp(i)
    \/ Register(i) \/ RegisterFails(i)
    \/ Rollback(i) \/ Discard(i) \/ Unregister(i)
    \/ Erase(i)
    \/ \E f \in Secrets : Hide(i, f) \/ HideFails(i, f)
                          \/ Drop(i, f) \/ DropFails(i, f)

StopStep(c) ==
    \/ \E h \in Handle : BeginStop(c, h)
    \/ FirstRefusal(c) \/ Accepting(c) \/ Verified(c) \/ Unverified(c)
    \/ Post(c) \/ PostFails(c) \/ LaterRefusal(c) \/ GiveUpStop(c)
    \/ RaceLost(c) \/ DeleteRecord(c) \/ DeleteGone(c) \/ DeleteFails(c)

World ==
    \/ \E i \in Starters, s \in Sockets : ChildListens(i, s)
    \/ \E i \in Starters : ChildDies(i) \/ ChildExits(i)
    \/ \E s \in Sockets : StrangerComes(s) \/ StrangerLeaves(s)

Next ==
    \/ World
    \/ \E i \in Starters : StartStep(i)
    \/ \E c \in Stoppers : StopStep(c)
    \/ \E a \in Actors : CleanStep(a) \/ Crash(a)

Spec == Init /\ [][Next]_vars

(* Every command keeps executing: its loops are bounded by deadlines.      *)
CommandFairness ==
    /\ \A i \in Starters : WF_vars((pc[i] # "new" /\ StartStep(i)) \/ CleanStep(i))
    /\ \A c \in Stoppers : WF_vars((pc[c] # "fresh" /\ StopStep(c)) \/ CleanStep(c))

FairSpec == Spec /\ CommandFairness

-----------------------------------------------------------------------------
(* Every variable keeps its shape.                                         *)
TypeOK ==
    /\ file \in DiskFile
    /\ listener \in [Sockets -> Starters \cup {Nobody, Stranger}]
    /\ child \in [Starters -> {"none", "up", "stopping", "gone"}]
    /\ endpoint \in [Starters -> Sockets]
    /\ dir \in [Starters -> SUBSET Names]
    /\ attic \in [Actors -> SUBSET Names]
    /\ content \in [Starters -> SUBSET Secrets]
    /\ pc \in [Actors -> Places]
    /\ trouble \in [Starters -> BOOLEAN]
    /\ target \in [Stoppers -> [handle : U64, record : Record \cup {NoRecord}]]
    /\ early \in [Stoppers -> BOOLEAN]
    /\ result \in [Stoppers -> {"none", "true", "false", "error"}]
    /\ mishaps \in 0 .. MaxMishaps

(* A server a start command reported as started, and that still serves, is *)
(* in the registry and keeps the server file every later status and stop   *)
(* verifies, however many stop commands, crashes and strangers came        *)
(* across it: only a definite refusal of its own socket permits clean-up.  *)
ServingStaysManaged ==
    \A i \in Starters :
        pc[i] = "started" /\ Listening(i) =>
            Listed(i) /\ {"marker", "info"} \subseteq dir[i]

(* A start that ended leaves no readable secret behind, not even in a tree *)
(* a stop command moved away under cleanup_secrets and has not removed yet *)
(* ("Erase both exact create_new objects before consulting any path").     *)
EndedStartHidesSecrets ==
    \A i \in Starters :
        pc[i] = "started" \/ (pc[i] = "failed" /\ mishaps = 0) =>
            content[i] = {}

(* A reported start can be stopped: what is left of its tree passes the    *)
(* validation of remove_private_tree.                                      *)
StartedIsRemovable ==
    \A i \in Starters :
        pc[i] = "started" /\ dir[i] # {} =>
            Removable(dir[i]) /\ dir[i] \cap Secrets = {}

(* However its start and the stops interleaved, a server that is said to   *)
(* run keeps no secret on disk and nothing that would stop its removal.    *)
StartLeavesInOrder == EndedStartHidesSecrets /\ StartedIsRemovable

(* When every command ran to its end without a crash or an input/output    *)
(* failure, a start that failed left no process, no files and no record,   *)
(* unless the registry's revisions ran out and nothing can be deleted.     *)
FailedStartLeavesNothing ==
    \A i \in Starters :
        pc[i] = "failed" /\ mishaps = 0 =>
            /\ child[i] \in {"none", "gone"} /\ dir[i] = {}
            /\ Listed(i) => ~ CanDelete(file)

(* Of the stop commands on one handle at most one answers that it stopped  *)
(* the server; it answers so only when the server is off its socket, its   *)
(* record is gone and its directory is no longer at its path.              *)
OneStopSucceeds ==
    \A c \in Stoppers :
        result[c] = "true" =>
            /\ \A d \in Stoppers :
                  result[d] = "true" /\ Subject(d) = Subject(c) => d = c
            /\ ~ Listed(Subject(c))
            /\ Subject(c) \in Starters =>
                  ~ Listening(Subject(c)) /\ dir[Subject(c)] = {}

(* Every start and stop command returns, whatever the child, the strangers *)
(* and the other commands do.                                              *)
CommandsReturn ==
    \A a \in Actors : pc[a] \notin Final ~> pc[a] \in Final

=============================================================================
