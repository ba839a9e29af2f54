---------------------------- MODULE HeadlessSolve ----------------------------
(***************************************************************************)
(* `gila solve`, the headless run an evaluator starts (solve.rs,           *)
(* solve_contract.rs, launch.rs, main.rs, bin/gila-headless.rs): the       *)
(* profile is loaded, the launch posture is set and frozen while there is  *)
(* one thread, the preconditions of a baseline are checked, one turn is    *)
(* submitted and polled, and the records are appended to the events file   *)
(* and printed, the contract last.                                         *)
(*                                                                         *)
(* Beside it the profile and the capability manifest on disk may be edited *)
(* (a version of either is a number; Content says what a version says),    *)
(* the turn goes its way, and the events file or its disk may fail.        *)
(*                                                                         *)
(* Bounds: MaxVersion edits of either file; a turn leaves at most          *)
(* MaxSignals parse and behaviour signals.                                 *)
(***************************************************************************)
EXTENDS Naturals, Sequences

CONSTANTS MaxVersion, MaxSignals

VARIABLES
    stage,      \* where the command is
    disk,       \* the profile and the manifest on disk
    hashed,     \* the versions whose digest the contract will name
    loaded,     \* the versions the command runs with, 0 until read
    shell,      \* the version of the profile the shell's posture came from
    asked,      \* what the evaluator asked for: arguments and environment
    posture,    \* the launch authority: open or frozen
    driver,     \* the driver's turn
    class,      \* its outcome: clean or an error class
    records,    \* the records of the run, in order
    written,    \* how many of them the events file holds
    printed     \* how many were printed

runVars == <<driver, class, records>>
solveVars == <<stage, disk, hashed, loaded, shell, asked, posture, runVars, written, printed>>

Files   == {"profile", "manifest"}
Classes == {"Model", "ContextExceeded", "Transport", "Timeout", "Harness", "None"}
Version == 0 .. MaxVersion

\* What the versions say: the first two profiles differ in nothing a baseline
\* is refused for.
Crew(version)  == version = 2
Model(version) == IF version = 3 THEN "other" ELSE "wanted"
Empty(version) == version # 1

SolveInit ==
    /\ stage = "prepare"
    /\ disk = [f \in Files |-> 0]
    /\ hashed = [f \in Files |-> 0] /\ loaded = [f \in Files |-> 0] /\ shell = 0
    /\ asked \in [unsafe : BOOLEAN, provider : BOOLEAN, team : BOOLEAN,
                  recorder : BOOLEAN, verify : BOOLEAN, events : BOOLEAN]
    /\ posture = "open"
    /\ driver = "none" /\ class = "clean"
    /\ records = <<>> /\ written = 0 /\ printed = 0

-----------------------------------------------------------------------------
(* Around the command.                                                     *)

EditFile(f) ==
    /\ posture = "open" /\ disk[f] < MaxVersion   \* read by nobody later
    /\ disk' = [disk EXCEPT ![f] = @ + 1]
    /\ UNCHANGED <<stage, hashed, loaded, shell, asked, posture, runVars, written, printed>>

DriverEnds ==
    /\ driver = "running"
    /\ \/ driver' = "completed" /\ class' \in Classes \cup {"clean"}
       \/ driver' = "failed" /\ class' = "None"
    /\ UNCHANGED <<stage, disk, hashed, loaded, shell, asked, posture, records, written, printed>>

-----------------------------------------------------------------------------
(* prepare, before the posture.                                            *)

Refuse == stage' = "error"

\* An inherited provider or team would not be the profile's.
Prepare ==
    /\ stage = "prepare"
    /\ stage' = IF asked.provider \/ asked.team THEN "error" ELSE "hash"
    /\ UNCHANGED <<disk, hashed, loaded, shell, asked, posture, runVars, written, printed>>

\* The file is read once for its digest ...
Hash(f) ==
    /\ stage = IF f = "profile" THEN "hash" ELSE "hashManifest"
    /\ hashed' = [hashed EXCEPT ![f] = disk[f]]
    /\ stage' = IF f = "profile" THEN "load" ELSE "loadManifest"
    /\ UNCHANGED <<disk, loaded, shell, asked, posture, runVars, written, printed>>

\* ... and once more to be parsed; only an empty capability set is run with.
Load(f) ==
    /\ stage = IF f = "profile" THEN "load" ELSE "loadManifest"
    /\ loaded' = [loaded EXCEPT ![f] = disk[f]]
    /\ IF f = "profile" THEN stage' = "hashManifest"
       ELSE IF Empty(disk[f]) THEN stage' = "posture" ELSE Refuse
    /\ UNCHANGED <<disk, hashed, shell, asked, posture, runVars, written, printed>>

-----------------------------------------------------------------------------
(* launch::apply_and_freeze_with_config.                                   *)

\* Slip: the posture resolves the configuration for itself.
FreezeFromDisk ==
    /\ stage = "posture"
    /\ shell' = disk["profile"]
    /\ posture' = "frozen"
    /\ stage' = "ensure"
    /\ UNCHANGED <<disk, hashed, loaded, asked, runVars, written, printed>>

\* The ambient switches and the shell's settings, then the freeze.
Freeze ==
    /\ stage = "posture"
    /\ shell' = loaded["profile"]
    /\ posture' = "frozen"
    /\ stage' = "ensure"
    /\ UNCHANGED <<disk, hashed, loaded, asked, runVars, written, printed>>

-----------------------------------------------------------------------------
(* run.                                                                    *)

\* Slip: a crew is run with.
BaselineWithCrew ==
    /\ asked.unsafe /\ ~asked.verify /\ asked.recorder /\ posture = "frozen"
    /\ Model(loaded["profile"]) = "wanted"

\* What a baseline requires.  The recorder is armed by Freeze unless the
\* environment turns it off.
Baseline ==
    /\ asked.unsafe /\ ~asked.verify /\ asked.recorder /\ posture = "frozen"
    /\ Model(loaded["profile"]) = "wanted"
    /\ ~Crew(loaded["profile"])

\* The preconditions, the instruction, which may be unreadable, and submit.
Submit ==
    /\ stage = "ensure"
    /\ \/ Baseline /\ driver' = "running" /\ stage' = "poll"
       \/ Refuse /\ UNCHANGED driver
    /\ UNCHANGED <<disk, hashed, loaded, shell, asked, posture, class, records,
                   written, printed>>

Clean == driver = "completed" /\ class = "clean"

\* Slip: what the driver failed with is no error of the run's.
OutcomeByClass ==
    IF class \in {"clean", "None"} THEN "completed" ELSE class

\* outcome_label: no class counts against the harness.
Outcome ==
    IF Clean THEN "completed"
    ELSE IF class = "None" THEN "Harness" ELSE class

\* contract_record says of every run that it had no crew, no capability and no
\* check of its own, that it was recorded, and that it had the machine.
Contract ==
    [outcome |-> Outcome, ocap |-> "off", crew |-> FALSE, capabilities |-> FALSE,
     verify |-> FALSE, recorder |-> TRUE]

\* The poll that finds the turn over takes its outcome; the result, its
\* signals (none of a turn that failed) and the contract are the records.
Finish ==
    /\ stage = "poll" /\ driver \in {"completed", "failed"}
    /\ \E n \in 0 .. MaxSignals :
         /\ driver = "failed" => n = 0
         /\ records' = <<"result">> \o [i \in 1 .. n |-> "signal"] \o <<Contract>>
    /\ stage' = IF asked.events THEN "events" ELSE "print"
    /\ UNCHANGED <<disk, hashed, loaded, shell, asked, posture, driver, class, written, printed>>

WriteEvent ==
    /\ stage = "events"
    /\ IF written < Len(records)
       THEN written' = written + 1 /\ UNCHANGED stage
       ELSE stage' = "print" /\ UNCHANGED written
    /\ UNCHANGED <<disk, hashed, loaded, shell, asked, posture, runVars, printed>>

\* The file cannot be opened, or not be written to the end.
EventsFail ==
    /\ stage = "events" /\ written < Len(records)
    /\ Refuse
    /\ UNCHANGED <<disk, hashed, loaded, shell, asked, posture, runVars, written, printed>>

\* main turns an outcome that is not clean into an exit code.
PrintRecord ==
    /\ stage = "print"
    /\ IF printed < Len(records)
       THEN printed' = printed + 1 /\ UNCHANGED stage
       ELSE stage' = (IF Clean THEN "ok" ELSE "error") /\ UNCHANGED printed
    /\ UNCHANGED <<disk, hashed, loaded, shell, asked, posture, runVars, written>>

SolveStep ==
    \/ Prepare \/ (\E f \in Files : Hash(f) \/ Load(f)) \/ Freeze \/ Submit
    \/ Finish \/ WriteEvent \/ PrintRecord

SolveNext == SolveStep \/ EventsFail \/ DriverEnds \/ (\E f \in Files : EditFile(f))

SolveSpec == SolveInit /\ [][SolveNext]_solveVars

-----------------------------------------------------------------------------
(* Properties.                                                             *)

\* apply_and_freeze_with_config: "shell posture and inference cannot read
\* different configurations", whatever is edited while the command starts.
OneConfiguration == posture = "frozen" => shell = loaded["profile"]

\* What the printed contract says of the run is so, though most of it is fixed
\* text; and it is the run that was asked for, with nothing inherited.
ContractHolds ==
    printed = Len(records) /\ printed > 0 =>
        LET said == records[printed] IN
        /\ said.crew = Crew(loaded["profile"])
        /\ said.capabilities = ~Empty(loaded["manifest"])
        /\ said.verify = asked.verify /\ said.recorder = asked.recorder
        /\ said.ocap = "off" => asked.unsafe /\ posture = "frozen"
        /\ ~asked.provider /\ ~asked.team
        /\ Model(loaded["profile"]) = "wanted"

\* The three accounts of a run agree: the command succeeds exactly when the
\* contract it printed says completed, and nothing is printed that the events
\* file, if there is one, does not hold.
AccountsAgree ==
    /\ printed > 0 /\ asked.events => written = Len(records)
    /\ stage = "ok" => records[printed].outcome = "completed"
    /\ stage = "error" /\ printed > 0 => records[printed].outcome # "completed"

\* What an evaluator reads of a run is true of it.
ContractIsTrue == OneConfiguration /\ ContractHolds /\ AccountsAgree

=============================================================================
