--------------------------- MODULE JupyterStartup ---------------------------
(***************************************************************************)
(* What start_server does between spawning its child and trusting it       *)
(* (gila_jupyter.rs): it polls the log, looks for the server file the      *)
(* child announces itself with, probes the endpoint in it, looks whether   *)
(* the child has exited and whether the deadline has passed; and how       *)
(* StartupGuard terminates and reaps the process tree of a start that      *)
(* failed.  JupyterLifecycle has this loop as two steps, and JupyterLog    *)
(* what a poll of the log does.                                            *)
(*                                                                         *)
(* The child runs beside it, as the stand-in of the repository's tests     *)
(* plays it (bin/gila-jupyter-fixture.rs), and at any moment: it writes    *)
(* its server file in pieces, begins to answer before or after, may        *)
(* announce a second server, and may exit at any time.  A file is none, a  *)
(* part (an end of file to the parser), whole or odd (whole, and at odds   *)
(* with what was asked for).  Its process group is the leader, which the   *)
(* guard waits for, and the rest, which may outlive it; a process that     *)
(* leaves the group is not followed.  Time is the moment the deadline      *)
(* passes.                                                                 *)
(***************************************************************************)
EXTENDS Naturals

CONSTANT KillAttempts   \* PROCESS_CLEANUP_ATTEMPTS

VARIABLES
    at,         \* where start_server is
    leader,     \* the child: none, up, doomed (killed), gone, reaped
    rest,       \* what it started, in its process group: none, up, doomed
    server,     \* how the endpoint answers: no, busy, ready, oversize
    info,       \* the server file: none, part, whole, odd, two
    late,       \* the startup deadline has passed
    held,       \* StartupGuard::child is there
    dispatched, \* StartupGuard::termination_dispatched
    kills,      \* kills tried in this terminate_and_wait
    dropping,   \* this terminate_and_wait is the one of Drop
    complaint   \* the result says that the process tree may be left

tree == <<leader, rest>>
guard == <<held, dispatched, kills, dropping>>
startupVars == <<at, tree, server, info, late, guard, complaint>>

Over == {"refused", "ready", "failed"}

StartupInit ==
    /\ at = "new" /\ leader = "none" /\ rest = "none"
    /\ server = "no" /\ info = "none" /\ late = FALSE
    /\ held = FALSE /\ dispatched = FALSE /\ kills = 0 /\ dropping = FALSE
    /\ complaint = FALSE

-----------------------------------------------------------------------------
(* The child and the clock.                                                *)

Alive == {leader, rest} \cap {"up", "doomed"} # {}

\* json.dump into a file just opened; a second server of the tree does the
\* same under its own name.
Announce ==
    /\ Alive
    /\ \/ info = "none" /\ info' = "part"
       \/ info = "part" /\ info' \in {"whole", "odd"}
       \/ info \in {"whole", "odd"} /\ info' = "two"
    /\ UNCHANGED <<at, tree, server, late, guard, complaint>>

\* A server that is closing takes its file with it.
Withdraw ==
    /\ Alive /\ info \in {"part", "whole", "odd"}
    /\ info' = "none" /\ server' = "no"
    /\ UNCHANGED <<at, tree, late, guard, complaint>>

Answer ==
    /\ Alive
    /\ server' \in {"busy", "ready", "oversize"} \ {server}
    /\ UNCHANGED <<at, tree, info, late, guard, complaint>>

\* A kernel, or the server itself behind a launcher.
Fork ==
    /\ leader = "up" /\ rest = "none"
    /\ rest' = "up"
    /\ UNCHANGED <<at, leader, server, info, late, guard, complaint>>

\* What answered goes with the last that is left of the tree, if not before.
ChildExits ==
    /\ leader \in {"up", "doomed"}
    /\ leader' = "gone"
    /\ server' \in IF rest = "none" THEN {"no"} ELSE {server, "no"}
    /\ info' \in {info, "none"}
    /\ UNCHANGED <<at, rest, late, guard, complaint>>

RestExits ==
    /\ rest # "none"
    /\ rest' = "none"
    /\ server' \in IF leader \in {"up", "doomed"} THEN {server, "no"} ELSE {"no"}
    /\ UNCHANGED <<at, leader, info, late, guard, complaint>>

DeadlinePasses ==
    /\ leader # "none" /\ ~late
    /\ late' = TRUE
    /\ UNCHANGED <<at, tree, server, info, guard, complaint>>

-----------------------------------------------------------------------------
(* start_server up to the child.                                           *)

\* Directory, host, extra arguments and the bounds of the secrets; a start
\* nobody can authenticate to is refused, one with a browser is given a token.
Validate ==
    /\ at = "new"
    /\ \E sound, token, password, hash, browser \in BOOLEAN :
         at' = IF sound /\ (token \/ password \/ hash \/ browser)
               THEN "spawn" ELSE "refused"
    /\ UNCHANGED <<tree, server, info, late, guard, complaint>>

\* Registry, client, log and private files, then the child, armed as it is
\* spawned.  What was made before it is removed when it cannot be.
Spawn ==
    /\ at = "spawn"
    /\ \/ /\ leader' = "up" /\ held' = TRUE
          /\ at' = "poll"
       \/ at' = "refused" /\ UNCHANGED <<leader, held>>
    /\ UNCHANGED <<rest, server, info, late, dispatched, kills, dropping, complaint>>

-----------------------------------------------------------------------------
(* The loop.                                                               *)

Go(place) == at' = place /\ UNCHANGED <<tree, server, info, late, guard, complaint>>

\* The log is read, or cannot be.
Poll == at = "poll" /\ \E next \in {"discover", "kill"} : Go(next)

\* discover_runtime_endpoint lists the runtime directory ...
Discover ==
    /\ at = "discover"
    /\ Go(CASE info = "none" -> "check" [] info = "two" -> "kill" [] OTHER -> "read")

\* ... and reads the one server file it found, which may be gone by now, and
\* may have been replaced while it was read.
ReadInfo ==
    /\ at = "read"
    /\ \E replaced \in BOOLEAN :
         Go(CASE replaced \/ info \in {"none", "odd"} -> "kill"
              [] info = "part" -> "check"
              [] OTHER -> "probe")

\* Slip: a probe to be tried again goes straight round the loop.
ProbeAgain ==
    /\ at = "probe"
    /\ Go(CASE server = "ready" -> "ready" [] server = "oversize" -> "kill"
            [] OTHER -> "poll")

\* startup_endpoint_ready: only a declared length over the cap is final.
Probe ==
    /\ at = "probe"
    /\ Go(CASE server = "ready" -> "ready" [] server = "oversize" -> "kill"
            [] OTHER -> "check")

\* try_wait reaps a child that has exited, whatever of its tree is left; it
\* may fail.  Then the deadline.
Check ==
    /\ at = "check"
    /\ \E fails \in BOOLEAN :
         /\ leader' = IF leader = "gone" /\ ~fails THEN "reaped" ELSE leader
         /\ at' = IF fails \/ leader = "gone" \/ late THEN "kill" ELSE "poll"
    /\ UNCHANGED <<rest, server, info, late, guard, complaint>>

-----------------------------------------------------------------------------
(* StartupGuard::rollback and, for what it leaves, Drop.                   *)

\* Slip: the error of a rollback is not kept.
GiveUpSilently ==
    /\ at' = IF dropping THEN "failed" ELSE "kill"
    /\ dropping' = TRUE /\ kills' = 0
    /\ UNCHANGED complaint

\* rollback returns the error and drops the guard, which tries once more.
GiveUp ==
    /\ at' = IF dropping THEN "failed" ELSE "kill"
    /\ dropping' = TRUE /\ kills' = 0
    /\ complaint' = TRUE

Doomed(process) == IF process = "up" THEN "doomed" ELSE process

\* Slip: there is nothing to kill once the child has exited.
KillTheLeader ==
    /\ at = "kill" /\ ~dispatched
    /\ \/ /\ leader' = Doomed(leader)
          /\ rest' = IF leader = "up" THEN Doomed(rest) ELSE rest
          /\ dispatched' = TRUE
          /\ at' = "wait"
          /\ UNCHANGED <<kills, dropping, complaint>>
       \/ /\ kills + 1 < KillAttempts
          /\ kills' = kills + 1
          /\ UNCHANGED <<at, tree, dispatched, dropping, complaint>>
       \/ GiveUp /\ UNCHANGED <<tree, dispatched>>
    /\ UNCHANGED <<server, info, late, held>>

\* start_kill of the process group: accepted, or all of it is gone already
\* (ESRCH), or a transient error that is tried again, or the last one, or one
\* that will not pass.
Kill ==
    /\ at = "kill" /\ ~dispatched
    /\ \/ /\ leader' = Doomed(leader) /\ rest' = Doomed(rest)
          /\ dispatched' = TRUE
          /\ at' = "wait"
          /\ UNCHANGED <<kills, dropping, complaint>>
       \/ /\ kills + 1 < KillAttempts
          /\ kills' = kills + 1
          /\ UNCHANGED <<at, tree, dispatched, dropping, complaint>>
       \/ GiveUp /\ UNCHANGED <<tree, dispatched>>
    /\ UNCHANGED <<server, info, late, held>>

\* A kill that was accepted is not sent again.
KillSent == at = "kill" /\ dispatched /\ Go("wait")

\* wait returns once the child has exited, and it is let go.  Of the rest wait
\* sees what is gila's own to reap: a grandchild that was killed may take its
\* time, where the system is not Windows.
Wait ==
    /\ at = "wait"
    /\ leader \in {"gone", "reaped"}
    /\ leader' = "reaped" /\ held' = FALSE
    /\ at' = "failed"
    /\ UNCHANGED <<rest, server, info, late, dispatched, kills, dropping, complaint>>

WaitFails ==
    /\ at = "wait"
    /\ GiveUp
    /\ UNCHANGED <<tree, server, info, late, held, dispatched>>

StartStep ==
    \/ Validate \/ Spawn \/ Poll \/ Discover \/ ReadInfo \/ Probe \/ Check
    \/ Kill \/ KillSent \/ Wait

StartupNext ==
    \/ StartStep \/ WaitFails
    \/ Announce \/ Withdraw \/ Answer \/ Fork \/ ChildExits \/ RestExits \/ DeadlinePasses

StartupSpec == StartupInit /\ [][StartupNext]_startupVars

\* The loop is never blocked for longer than a request's timeout, time goes
\* on, and a killed process ends.
StartupFairness ==
    /\ WF_startupVars(StartStep)
    /\ WF_startupVars(DeadlinePasses)
    /\ WF_startupVars(leader = "doomed" /\ ChildExits)

-----------------------------------------------------------------------------
(* Properties.                                                             *)

\* Unless its error says so, a start that failed has left no process of its
\* group behind: the child was reaped, and what it had started has exited or
\* was killed, also where the child exited first.
NothingLeftUnreported ==
    at = "failed" => complaint \/ (leader = "reaped" /\ rest # "up" /\ ~held)

\* Every start comes to an end, however noisy, slow or undecided the child:
\* no way round the loop misses the deadline.
StartEnds == at = "new" ~> at \in Over

=============================================================================
