----------------------------- MODULE MCCommands -----------------------------
(***************************************************************************)
(* The commands that do one thing and end, and the loop of `gila follow`,  *)
(* for TLC.  A behaviour is one of them; the others are over.              *)
(***************************************************************************)
EXTENDS Delegate, Fleet, Follow, HeadlessSolve, GitTend, NoteFiles,
        Capabilities, TLC

VARIABLE command

\* A program that was refused, a dashboard that was left, a loop that ended,
\* sessions that failed.
DelegateOver ==
    /\ search = <<>> /\ explicit = None /\ own = CHOOSE p \in Rust \cap Explicits : TRUE
    /\ knowsOwn = FALSE /\ excluded = {} /\ at = "refused" /\ target = None
    /\ tried = <<>>
FleetOver ==
    /\ selPhase = 0 /\ selAgent = 0 /\ focus = "Rail" /\ frozen = FALSE
    /\ detailScroll = 0 /\ quit = TRUE
    /\ area = CHOOSE a \in Areas : a.width = 0 /\ a.height = 0
TailOver ==
    /\ size = 0 /\ offset = 0 /\ stripped = FALSE /\ len = 0 /\ pc = "ended"
    /\ observed = <<>> /\ pending = FALSE /\ turn = "none" /\ polls = 0
SolveOver ==
    /\ stage = "error" /\ disk = [f \in Files |-> 0]
    /\ hashed = disk /\ loaded = disk /\ shell = 0 /\ asked = {} /\ posture = "open"
    /\ driver = "none" /\ class = "clean" /\ records = <<>> /\ written = 0
    /\ printed = 0
TendOver ==
    /\ strategy = "Halt" /\ dry = TRUE /\ wanted = Default
    /\ repo = Len(Repos) + 1 /\ next = 1 /\ doing = "over" /\ stopped = {}
    /\ reached = Index /\ work = [r \in Index |-> "tree"]
    /\ behind = [r \in Index |-> FALSE] /\ tracks = behind /\ edits = 0
NotesOver ==
    /\ kind = [c \in Commands |-> "log"] /\ nth = [c \in Commands |-> 0]
    /\ step = [c \in Commands |-> "failed"] /\ body = Absent
    /\ seen = [c \in Commands |-> Absent] /\ text = [c \in Commands |-> <<>>]
    /\ promised = {} /\ stale = {} /\ torn = FALSE

CapOver ==
    /\ use = CHOOSE u \in Uses : TRUE
    /\ point = [s \in Sessions |-> "failed"] /\ manifest = Nothing
    /\ chosen = [s \in Sessions |-> <<>>] /\ unresolved = chosen /\ servers = chosen
    /\ floor = [s \in Sessions |-> FALSE] /\ optedIn = {}

commandVars ==
    <<command, delegateVars, fleetVars, followVars, solveVars, tendVars, noteVars, capVars>>

Init ==
    /\ command \in {"delegate", "matrix", "follow", "solve", "git", "notes", "cap"}
    /\ IF command = "delegate" THEN DelegateInit ELSE DelegateOver
    /\ IF command = "matrix" THEN FleetInit ELSE FleetOver
    /\ IF command = "follow" THEN FollowInit ELSE TailOver
    /\ IF command = "solve" THEN SolveInit ELSE SolveOver
    /\ IF command = "git" THEN GitInit ELSE TendOver
    /\ IF command = "notes" THEN NoteInit ELSE NotesOver
    /\ IF command = "cap" THEN CapInit ELSE CapOver

Next ==
    /\ \/ /\ command = "delegate" /\ DelegateNext
          /\ UNCHANGED <<fleetVars, followVars, solveVars, tendVars, noteVars, capVars>>
       \/ /\ command = "matrix" /\ FleetNext
          /\ UNCHANGED <<delegateVars, followVars, solveVars, tendVars, noteVars, capVars>>
       \/ /\ command = "follow" /\ FollowNext
          /\ UNCHANGED <<delegateVars, fleetVars, solveVars, tendVars, noteVars, capVars>>
       \/ /\ command = "solve" /\ SolveNext
          /\ UNCHANGED <<delegateVars, fleetVars, followVars, tendVars, noteVars, capVars>>
       \/ /\ command = "git" /\ GitNext
          /\ UNCHANGED <<delegateVars, fleetVars, followVars, solveVars, noteVars, capVars>>
       \/ /\ command = "notes" /\ NoteNext
          /\ UNCHANGED <<delegateVars, fleetVars, followVars, solveVars, tendVars, capVars>>
       \/ /\ command = "cap" /\ CapNext
          /\ UNCHANGED <<delegateVars, fleetVars, followVars, solveVars, tendVars, noteVars>>
    /\ UNCHANGED command

\* Only the loop of `gila follow` is asked to go on.
Spec == Init /\ [][Next]_commandVars /\ TailFairness

\* Delegate: two Rust binaries, an alias of one, wrappers, one with a path that
\* cannot be passed on, and a file that is not there.
OnPath == {"r1", "r2", "alias", "w1", "w2", "py", "odd", "gone"}
RealFiles == [p \in OnPath \ {"gone"} |-> IF p = "alias" THEN "r1" ELSE p]
ThreeDeep == {s \in SeqOf(OnPath, 3) : IsInjective(s)}

\* Fleet: the first phase of the mock, an empty one, one of one.
ThreePhases ==
    (0 :> [a \in 0 .. 6 |-> IF a \in {0, 2, 3} THEN "Running" ELSE "Done"])
    @@ (1 :> <<>>) @@ (2 :> (0 :> "Done"))
SmallAreas == [x : {1}, y : {0, 2}, width : {0, 1, 4}, height : 0 .. 4]

\* GitTend: the default, and two profiles of which one is unknown, with a
\* strategy of its own.
TwoRepos ==
    <<[profiles |-> "d", strategy |-> "d"],
      [profiles |-> <<"none", "sync">>, strategy |-> "Halt"]>>
TwoProfiles == [backup |-> <<"commit", "pull", "push">>, sync |-> <<"pull">>]
Backup == <<"backup">>

\* NoteFiles: no file, a header, two open todos.
SomeBodies ==
    {Absent, <<Header>>,
     <<Header, [by |-> "x", open |-> TRUE], [by |-> "y", open |-> TRUE]>>}

\* Capabilities: two configurations beside a session; two capabilities.
OneMount ==
    {[s \in Sessions |-> IF s = "s3" THEN u ELSE "config"] : u \in {"code", "hotseat"}}
TwoInstalled == <<"a", "b">>
SomeManifests ==
    {Torn, Nothing,
     [venv |-> "v1",
      entries |-> <<[name |-> "b", expose |-> "both", venv |-> "v2"],
                    [name |-> "a", expose |-> "agent", venv |-> NoVenv]>>],
     [venv |-> NoVenv,
      entries |-> <<[name |-> "own", expose |-> "agent", venv |-> "v2"]>>]}
OwnServer == <<[name |-> "own", venv |-> "mine"]>>
ModulexServer == [name |-> "modulex", venv |-> "path"]

BlankInside == {4}
=============================================================================
