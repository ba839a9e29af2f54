------------------------------ MODULE MCJupyter ------------------------------
(***************************************************************************)
(* The parts of `gila jupyter` that keep no state from one command to the  *)
(* next, for TLC: the private directories, the command line, the log and   *)
(* the child of a start, the list of the servers, and a notebook run.  A   *)
(* behaviour is one of them; the others are over.                          *)
(***************************************************************************)
EXTENDS PrivateState, JupyterCommand, JupyterLog, JupyterStartup, JupyterStatus, NotebookRun,
        TLC

VARIABLE part

\* A command line that was not parsed, a log and a start that failed early.
LineOver ==
    /\ standIn = FALSE /\ extra = <<>> /\ browser = FALSE
    /\ workdir = {} /\ caller = {}
    /\ index = 1 /\ route = NoRoute /\ forwarded = <<>> /\ step = "over"
    /\ line = <<>> /\ env = <<>>
LogOver ==
    /\ place = "failed" /\ attempt = 0 /\ inode = 0 /\ handles = <<>> /\ opening = 0
    /\ bytes = <<>> /\ lost = 0 /\ heard = <<>> /\ crossed = 0
    /\ offset = 0 /\ partial = <<>> /\ long = FALSE /\ tail = <<>>
    /\ left = 0 /\ done = 0 /\ found = <<>> /\ given = <<>>
StartupOver ==
    /\ at = "refused" /\ leader = "none" /\ rest = "none" /\ server = "no" /\ info = "none"
    /\ late = FALSE /\ held = FALSE /\ dispatched = FALSE /\ kills = 0
    /\ dropping = FALSE /\ complaint = FALSE
\* A list that was printed.
StatusOver ==
    /\ stage = "listed" /\ front = N + 1 /\ worker = [w \in Workers |-> "gone"]
    /\ holds = [w \in Workers |-> 0] /\ results = [i \in Index |-> "deadline"]
    /\ world = [i \in Index |-> "gone"] /\ overdue = TRUE /\ served = {}
PrivateOver ==
    /\ windows = FALSE /\ privileged = FALSE /\ home = CHOOSE h \in Homes : TRUE
    /\ there = [p \in Paths |-> Absent] /\ nth = [c \in Cmds |-> 1]
    /\ phase = [c \in Cmds |-> "died"]
\* A notebook that was not found.
RunOver ==
    /\ cells = <<>> /\ saved = <<>> /\ saves = FALSE /\ readable = FALSE
    /\ cell = 1 /\ runPhase = "error" /\ success = FALSE /\ raised = 0
    /\ summaries = <<>>

partVars == <<part, lineVars, privateVars, logVars, startupVars, statusVars, runVars>>

Init ==
    /\ part \in {"line", "private", "log", "startup", "list", "run"}
    /\ IF part = "line" THEN LineInit ELSE LineOver
    /\ IF part = "private" THEN PrivateInit ELSE PrivateOver
    /\ IF part = "log" THEN LogInit ELSE LogOver
    /\ IF part = "startup" THEN StartupInit ELSE StartupOver
    /\ IF part = "list" THEN StatusInit ELSE StatusOver
    /\ IF part = "run" THEN RunInit ELSE RunOver

Next ==
    /\ \/ /\ part = "line" /\ LineNext
          /\ UNCHANGED <<privateVars, logVars, startupVars, statusVars, runVars>>
       \/ /\ part = "private" /\ PrivateNext
          /\ UNCHANGED <<lineVars, logVars, startupVars, statusVars, runVars>>
       \/ /\ part = "log" /\ LogNext
          /\ UNCHANGED <<lineVars, privateVars, startupVars, statusVars, runVars>>
       \/ /\ part = "startup" /\ StartupNext
          /\ UNCHANGED <<lineVars, privateVars, logVars, statusVars, runVars>>
       \/ /\ part = "list" /\ StatusNext
          /\ UNCHANGED <<lineVars, privateVars, logVars, startupVars, runVars>>
       \/ /\ part = "run" /\ RunNext
          /\ UNCHANGED <<lineVars, privateVars, logVars, startupVars, statusVars>>
    /\ UNCHANGED part

\* What is over has no step that fairness would ask for.
Spec ==
    /\ Init /\ [][Next]_partVars
    /\ LogFairness /\ StartupFairness /\ StatusFairness

\* The invariants of the parts are there by name.
\* No part of a command hangs: the log is read to its end, the start ends,
\* the list comes.
CommandsEnd == ScannerCatchesUp /\ StartEnds /\ ListEnds

JoinedArgs ==
    ("--ServerApp.default_url=/lab" :> [flag |-> "--ServerApp.default_url", value |-> "/lab"])
    @@ ("--ServerApp.default_url=bad" :> [flag |-> "--ServerApp.default_url", value |-> "bad"])
    @@ ("--fixture-break-registry=" :> [flag |-> "--fixture-break-registry", value |-> ""])
    @@ ("--fixture-break-registry=x" :> [flag |-> "--fixture-break-registry", value |-> "x"])
SlashDropped == ("/lab" :> "/lab") @@ ("/lab/" :> "/lab")
Words ==
    {"--ServerApp.default_url", "/lab/", "--port", "lab", "--fixture-invalid-only",
     "--fixture-break-registry"} \cup DOMAIN JoinedArgs
UpToThreeWords == UNION {[1 .. n -> Words] : n \in 0 .. 3}

DigitCase == ("A" :> "a") @@ ("a" :> "a")
\* An escape, the end of one with the beginning of the next, and a plain one.
Secrets == {<<"%", "a", "a">>, <<"A", "%">>, <<"r", "r">>}

Code == [type : {"code"}, allowed : BOOLEAN, outputs : {<<>>, <<"text", "error">>}]
AnyCell == Code \cup {[type |-> "markdown", allowed |-> FALSE, outputs |-> <<>>]}
UpToThree == UNION {[1 .. n -> AnyCell] : n \in 0 .. 3}
=============================================================================
