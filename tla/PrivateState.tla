---------------------------- MODULE PrivateState ----------------------------
(***************************************************************************)
(* How commands of `gila jupyter` that run at the same time make the       *)
(* private state under GILA_HOME: the root, the lock of the registry, the  *)
(* directory of the logs (src/src/gila_jupyter.rs, with the ACL calls of   *)
(* its windows_private).  Each of them looks at a path, makes what is      *)
(* missing, looks again and closes what it finds to everybody else; between*)
(* two of these calls another command does the same, or a program outside  *)
(* takes the name of the root.                                             *)
(***************************************************************************)
EXTENDS Naturals, Sequences

CONSTANTS
    Cmds,       \* commands running at the same time
    Homes       \* values of GILA_HOME: "absolute", "relative", "empty"

VARIABLES
    windows,    \* the build
    privileged, \* of Unix: the user may change what is somebody else's
    home,       \* what GILA_HOME says (not set: the home directory, absolute)
    there,      \* path -> what it is, who owns it, whether it is closed
    nth,        \* command -> the errand it is at
    phase       \* command -> "resolve", "look", "make", "again", "secure",
                \* "ready", "refused", "died"

privateVars == <<windows, privileged, home, there, nth, phase>>

\* RegistryStore::new, open_lock_file, then DurableLog::new, which looks at
\* the root again; "logs" stands for jupyter and jupyter/logs.
Errands == <<"root", "lock", "root", "logs">>
Paths == {"root", "lock", "logs"}
KindOf(path) == IF path = "lock" THEN "file" ELSE "dir"
PathOf(c) == Errands[nth[c]]

\* Owners: the user of the token, the owner the token gives to what it makes
\* (an elevated one: the administrators), somebody else.
Own == IF windows THEN {"user", "token"} ELSE {"user"}
Absent == [kind |-> "absent", owner |-> "user", closed |-> TRUE]
Things ==
    [kind : {"dir", "file", "link"}, owner : {"user", "token", "other"},
     closed : BOOLEAN]
\* What may be there: the owner of a token is of Windows.
Makings == {t \in Things : t.owner \in Own \cup {"other"}}
\* Nobody but the user has access, nor does what is made below inherit more.
Private(path) == [kind |-> KindOf(path), owner |-> "user", closed |-> TRUE]

\* Homes restored from a backup, shared, or half made.  Under a root that is
\* not there is nothing.
PrivateInit ==
    /\ windows \in BOOLEAN /\ privileged \in BOOLEAN /\ (privileged => ~windows)
    /\ home \in Homes
    /\ there \in [Paths -> Makings \cup {Absent}]
    /\ there["root"].kind # "dir" => there["lock"] = Absent /\ there["logs"] = Absent
    /\ nth = [c \in Cmds |-> 1]
    /\ phase = [c \in Cmds |-> "resolve"]

Goto(c, p) == phase' = [phase EXCEPT ![c] = p]
Refuse(c) == Goto(c, "refused") /\ UNCHANGED <<there, nth>>

\* An empty or a relative GILA_HOME is refused before anything is made.
Resolve(c) ==
    /\ phase[c] = "resolve"
    /\ IF home = "absolute" THEN Goto(c, "look") ELSE Goto(c, "refused")
    /\ UNCHANGED <<windows, privileged, home, there, nth>>

\* reject_unsafe_existing_root, and the same look at the lock and at the logs;
\* the logs that are there need not be made.
Look(c) ==
    LET path == PathOf(c)
        kind == there[path].kind
    IN
    /\ phase[c] = "look"
    /\ Goto(c, IF kind \notin {"absent", KindOf(path)} THEN "refused"
               ELSE IF path = "logs" /\ kind = "dir" THEN "again" ELSE "make")
    /\ UNCHANGED <<windows, privileged, home, there, nth>>

\* A directory is private from its first moment on.
Created(path) == there' = [there EXCEPT ![path] = Private(path)]

\* DirBuilder takes a directory, a link to one too, but no file; Windows asks
\* whether the root is there, and does not mind that it has come.
MakeRoot(c) ==
    /\ phase[c] = "make" /\ PathOf(c) = "root"
    /\ IF there["root"].kind = "file" /\ ~windows THEN Refuse(c)
       ELSE /\ IF there["root"].kind = "absent" THEN Created("root")
               ELSE UNCHANGED there
            /\ Goto(c, "again")
            /\ UNCHANGED nth
    /\ UNCHANGED <<windows, privileged, home>>

\* Slip: a directory that was not there and has come is an error.
MakeLogsOnce(c) ==
    /\ phase[c] = "make" /\ PathOf(c) = "logs"
    /\ IF there["logs"].kind = "absent" THEN Created("logs") /\ Goto(c, "again")
       ELSE UNCHANGED there /\ Goto(c, "refused")
    /\ UNCHANGED <<windows, privileged, home, nth>>

\* ensure_private_directory: that the directory has come is no error.
MakeLogs(c) ==
    /\ phase[c] = "make" /\ PathOf(c) = "logs"
    /\ IF there["logs"].kind = "absent" THEN Created("logs") ELSE UNCHANGED there
    /\ Goto(c, "again")
    /\ UNCHANGED <<windows, privileged, home, nth>>

\* Whether the system lets the user set the access of a path.
Yields(path) == there[path].owner \in Own \/ privileged

\* The lock is opened whether it is there or not.  A new file of Windows has
\* the owner of the token and the access its directory hands down; a file of
\* somebody else does not open.
OpenLock(c) ==
    /\ phase[c] = "make" /\ PathOf(c) = "lock"
    /\ IF there["lock"].kind = "absent"
       THEN /\ IF windows
               THEN \E o \in Own :
                       there' = [there EXCEPT !["lock"] =
                                    [kind |-> "file", owner |-> o, closed |-> FALSE]]
               ELSE Created("lock")
            /\ Goto(c, "secure")
            /\ UNCHANGED nth
       ELSE IF ~Yields("lock") /\ there["lock"].closed THEN Refuse(c)
       ELSE Goto(c, "secure") /\ UNCHANGED <<there, nth>>
    /\ UNCHANGED <<windows, privileged, home>>

\* Slip: what was looked at before it was made is not looked at again.
AgainTrusts(c) ==
    /\ phase[c] = "again"
    /\ Goto(c, "secure")
    /\ UNCHANGED <<windows, privileged, home, there, nth>>

\* "Check again after creation".
Again(c) ==
    /\ phase[c] = "again"
    /\ IF there[PathOf(c)].kind = "dir" THEN Goto(c, "secure") ELSE Goto(c, "refused")
    /\ UNCHANGED <<windows, privileged, home, there, nth>>

\* enforce_private_handle refuses a reparse point, the wrong type and another
\* owner before it sets the owner and the ACL, and verifies them.  The code of
\* Unix compares no owner: chmod(2) does, and a privileged user's sets the
\* access of what stays somebody else's.
RightKind(path) == windows => there[path].kind = KindOf(path)
Closed(thing) ==
    [kind |-> thing.kind, owner |-> IF windows THEN "user" ELSE thing.owner, closed |-> TRUE]

\* Slip: only the access is set, the owner stays.
SecureAccess(c) ==
    LET path == PathOf(c) IN
    /\ phase[c] = "secure"
    /\ IF ~(RightKind(path) /\ Yields(path)) THEN Refuse(c)
       ELSE /\ there' = [there EXCEPT ![path].closed = TRUE]
            /\ IF nth[c] = Len(Errands)
               THEN Goto(c, "ready") /\ UNCHANGED nth
               ELSE Goto(c, "look") /\ nth' = [nth EXCEPT ![c] = @ + 1]
    /\ UNCHANGED <<windows, privileged, home>>
Secure(c) ==
    LET path == PathOf(c) IN
    /\ phase[c] = "secure"
    /\ IF ~(RightKind(path) /\ Yields(path)) THEN Refuse(c)
       ELSE /\ there' = [there EXCEPT ![path] = Closed(@)]
            /\ IF nth[c] = Len(Errands)
               THEN Goto(c, "ready") /\ UNCHANGED nth
               ELSE Goto(c, "look") /\ nth' = [nth EXCEPT ![c] = @ + 1]
    /\ UNCHANGED <<windows, privileged, home>>

\* A command is killed, at any call.
Die(c) ==
    /\ phase[c] \notin {"ready", "refused", "died"}
    /\ Goto(c, "died")
    /\ UNCHANGED <<windows, privileged, home, there, nth>>

\* A program outside takes the name of the root; inside the root only this
\* user's commands make anything.
NameTaken ==
    /\ there["root"].kind = "absent"
    /\ \E t \in Makings : there' = [there EXCEPT !["root"] = t]
    /\ UNCHANGED <<windows, privileged, home, nth, phase>>

PrivateNext ==
    \/ \E c \in Cmds :
          \/ Resolve(c) \/ Look(c) \/ MakeRoot(c) \/ MakeLogs(c) \/ OpenLock(c)
          \/ Again(c) \/ Secure(c) \/ Die(c)
    \/ NameTaken

PrivateSpec == PrivateInit /\ [][PrivateNext]_privateVars

-----------------------------------------------------------------------------
(* Properties                                                              *)

PrivateTypeOK ==
    /\ windows \in BOOLEAN /\ privileged \in BOOLEAN /\ (privileged => ~windows)
    /\ home \in Homes
    /\ there \in [Paths -> Things \cup {Absent}]
    /\ nth \in [Cmds -> 1 .. 4]
    /\ phase \in [Cmds -> {"resolve", "look", "make", "again", "secure", "ready",
                           "refused", "died"}]

\* The errands a command has behind it.
Behind(c) ==
    IF phase[c] = "ready" THEN 1 .. 4 ELSE {i \in 1 .. 4 : i < nth[c]}

\* What a command has behind it is what it is to be, belongs to the user and is
\* closed to everybody else: a link, a file in place of a directory or a
\* directory of somebody else that is there, or comes while the path is being
\* made, is never used (initialize_registry_root, "introduced during the create
\* is never accepted").  A privileged user of Unix may get one that is somebody
\* else's: nothing in the code looks at the owner.
UsedIsPrivate ==
    \A c \in Cmds : \A i \in Behind(c) :
        /\ there[Errands[i]].kind = KindOf(Errands[i])
        /\ there[Errands[i]].owner = "user" \/ privileged
        /\ there[Errands[i]].closed

\* A command is refused only for what is not the user's doing: never because
\* another command made the same directory first, or died half way.
RefusedForAReason ==
    \A c \in Cmds : phase[c] = "refused" =>
        \/ home # "absolute"
        \/ \E p \in Paths : \/ there[p].kind \notin {"absent", KindOf(p)}
                            \/ ~Yields(p)

StateIsPrivate == UsedIsPrivate /\ RefusedForAReason
=============================================================================
