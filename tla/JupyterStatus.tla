---------------------------- MODULE JupyterStatus ----------------------------
(***************************************************************************)
(* list_servers and get_server_status of gila_jupyter.rs: at most          *)
(* LIST_PROBE_CONCURRENCY workers take the records of one snapshot off a   *)
(* shared queue and probe them, until the queue is empty or the deadline   *)
(* has passed; what is left in the queue is summarised afterwards.         *)
(*                                                                         *)
(* The servers live on meanwhile: one may be stopped, be killed (its       *)
(* server file stays) or come back, and its port may be taken by another   *)
(* program, which does not know the instance's base path.                  *)
(*                                                                         *)
(* The queue is VecDeque::from_iter(records.enumerate()), which only loses *)
(* its front: it is the index of that front.  A record is named by its     *)
(* index in the snapshot.                                                  *)
(***************************************************************************)
EXTENDS Naturals, FiniteSets

CONSTANTS
    N,             \* records in the snapshot
    Workers,       \* min(N, LIST_PROBE_CONCURRENCY) threads
    Legacy,        \* records without an instance-bound identity
    Broken         \* records validate_stored_record refuses

ASSUME ListAssumption ==
    /\ N \in Nat \ {0}
    /\ Legacy \subseteq 1 .. N /\ Broken \subseteq 1 .. N

VARIABLES
    stage,     \* the command: probing (inside thread::scope), joined, listed
    front,     \* the queue is front .. N
    worker,    \* what each worker is doing
    holds,     \* the record each worker has taken, 0 when it has none
    results,   \* the summary of each record
    world,     \* the instance's server: up, dead, gone (its file too), other
    overdue,   \* the deadline has passed
    served     \* records whose own server answered a probe

statusVars == <<stage, front, worker, holds, results, world, overdue, served>>

Index   == 1 .. N
Summary == {"none", "running", "unreachable", "deadline"}
Places  == {"client", "clock", "take", "verify", "request", "gone"}
Worlds  == {"up", "dead", "gone", "other"}

StatusInit ==
    /\ stage = "probing"
    /\ front = 1
    /\ worker = [w \in Workers |-> "client"]
    /\ holds = [w \in Workers |-> 0]
    /\ results = [i \in Index |-> "none"]
    /\ world \in [Index -> Worlds]
    /\ overdue = FALSE
    /\ served = {}

WorldChanges(i) ==
    /\ stage = "probing"
    /\ \E v \in Worlds : world' = [world EXCEPT ![i] = v]
    /\ UNCHANGED <<stage, front, worker, holds, results, overdue, served>>

TimeRunsOut ==
    /\ ~overdue
    /\ overdue' = TRUE
    /\ UNCHANGED <<stage, front, worker, holds, results, world, served>>

To(w, place) == worker' = [worker EXCEPT ![w] = place]

\* lifecycle_http_client: a worker without a client leaves.
MakeClient(w) ==
    /\ worker[w] = "client"
    /\ \E place \in {"clock", "gone"} : To(w, place)
    /\ UNCHANGED <<stage, front, holds, results, world, overdue, served>>

LookAtClock(w) ==
    /\ worker[w] = "clock"
    /\ To(w, IF overdue THEN "gone" ELSE "take")
    /\ UNCHANGED <<stage, front, holds, results, world, overdue, served>>

\* Slip: the clock is looked at between taking a record and probing it.
TakeThenLook(w) ==
    /\ worker[w] = "take"
    /\ IF front <= N
       THEN /\ holds' = [holds EXCEPT ![w] = IF overdue THEN 0 ELSE front]
            /\ front' = front + 1
            /\ To(w, IF overdue THEN "gone" ELSE "verify")
       ELSE To(w, "gone") /\ UNCHANGED <<front, holds>>
    /\ UNCHANGED <<stage, results, world, overdue, served>>

\* pop_front under the mutex.
Take(w) ==
    /\ worker[w] = "take"
    /\ IF front <= N
       THEN /\ holds' = [holds EXCEPT ![w] = front]
            /\ front' = front + 1
            /\ To(w, "verify")
       ELSE To(w, "gone") /\ UNCHANGED <<front, holds>>
    /\ UNCHANGED <<stage, results, world, overdue, served>>

\* What is refused before anything is sent: a legacy record, one that is not
\* valid, one whose server file is not there or is not its own.
Verified(i) == i \notin Legacy /\ i \notin Broken /\ world[i] # "gone"

Summarise(w, summary) ==
    /\ results' = [results EXCEPT ![holds[w]] = summary]
    /\ holds' = [holds EXCEPT ![w] = 0]
    /\ To(w, "clock")

Verify(w) ==
    /\ worker[w] = "verify"
    /\ IF Verified(holds[w])
       THEN To(w, "request") /\ UNCHANGED <<holds, results>>
       ELSE Summarise(w, "unreachable")
    /\ UNCHANGED <<stage, front, world, overdue, served>>

\* Slip: any answer will do.
AnyReply(i) == world[i] \in {"up", "other"}

\* A 2xx answer whose bounded body is a list of kernels.
Healthy(i) == world[i] = "up"

\* The request: an own server may still time out or fail, another program
\* does not answer for the base path.
Request(w) ==
    /\ worker[w] = "request"
    /\ \/ /\ Healthy(holds[w])
          /\ Summarise(w, "running")
       \/ Summarise(w, "unreachable")
    /\ served' = IF world[holds[w]] = "up" THEN served \cup {holds[w]} ELSE served
    /\ UNCHANGED <<stage, front, world, overdue>>

\* The scope ends when every worker has.
Join ==
    /\ stage = "probing" /\ \A w \in Workers : worker[w] = "gone"
    /\ stage' = "joined"
    /\ UNCHANGED <<front, worker, holds, results, world, overdue, served>>

\* deadline_summary for what is left in the queue; `expect` would panic on a
\* record without a summary.
SummariseRest ==
    /\ stage = "joined"
    /\ results' = [i \in Index |-> IF i >= front THEN "deadline" ELSE results[i]]
    /\ stage' = IF \A i \in Index : results'[i] # "none" THEN "listed" ELSE "panicked"
    /\ UNCHANGED <<front, worker, holds, world, overdue, served>>

WorkerStep(w) ==
    MakeClient(w) \/ LookAtClock(w) \/ Take(w) \/ Verify(w) \/ Request(w)

StatusNext ==
    \/ \E w \in Workers : WorkerStep(w)
    \/ Join \/ SummariseRest \/ TimeRunsOut
    \/ \E i \in Index : WorldChanges(i)

StatusSpec == StatusInit /\ [][StatusNext]_statusVars

\* Threads are scheduled and a request has a timeout.
StatusFairness ==
    /\ \A w \in Workers : WF_statusVars(WorkerStep(w))
    /\ WF_statusVars(Join) /\ WF_statusVars(SummariseRest)

-----------------------------------------------------------------------------
(* Properties.                                                             *)

\* Every variable keeps its shape.
StatusTypeOK ==
    /\ stage \in {"probing", "joined", "listed", "panicked"}
    /\ front \in 1 .. N + 1
    /\ worker \in [Workers -> Places]
    /\ holds \in [Workers -> 0 .. N]
    /\ results \in [Index -> Summary]
    /\ world \in [Index -> Worlds]
    /\ overdue \in BOOLEAN
    /\ served \subseteq Index

\* "every list record is probed or deadline-summarized": list_servers never
\* panics on its expect, whichever worker leaves when.
EveryRecordSummarised == stage # "panicked"

\* A server is listed as running only if it answered a probe of this command
\* itself: no other program on its port, no legacy or broken record.
RunningAnswered ==
    \A i \in Index : results[i] = "running" => i \in served \ (Legacy \cup Broken)

\* The list is complete, and a server in it is running only if it is.
ListIsTrue == EveryRecordSummarised /\ RunningAnswered

\* The list comes, after the deadline at the latest.
ListEnds == stage = "probing" ~> stage = "listed"

=============================================================================
