---------------------------- MODULE NotebookRun ----------------------------
(***************************************************************************)
(* `gila jupyter execute` (execute_notebook and parse_notebook_outputs of  *)
(* gila_jupyter.rs, run_jupyter_blocking of main.rs): nbconvert executes   *)
(* the code cells of a notebook in order, in place, and the outputs in the *)
(* file are what is reported.                                              *)
(*                                                                         *)
(* nbconvert is outside of src/: it replaces the outputs of a cell when it *)
(* executes it, stops at the first cell that raises and is not allowed to, *)
(* or is over its time, and saves what it has even then, if it is to save. *)
(* The cells it did not reach keep the outputs of an earlier run.  Another *)
(* program may save the file while it is read.                             *)
(***************************************************************************)
EXTENDS Naturals, Sequences, FiniteSets

CONSTANTS
    Notebooks   \* sequences of [type, allowed (to raise), outputs]

\* A cell has its type, the tag raises-exception or not, and what it printed.
ASSUME NotebooksAssumption ==
    Notebooks \subseteq
        Seq([type : {"code", "markdown", "raw"}, allowed : BOOLEAN,
             outputs : Seq({"text", "error"})])

VARIABLES
    cells,      \* the notebook, in nbconvert
    saved,      \* the outputs in the file
    saves,      \* save_outputs
    readable,   \* the file parses
    cell,       \* the next cell
    runPhase,      \* resolve, convert, parse, done, error
    success,    \* nbconvert's exit status
    raised,     \* the cell that stopped it by raising, or 0
    summaries   \* cell_outputs

runVars == <<cells, saved, saves, readable, cell, runPhase, success, raised, summaries>>

IsCode(i) == cells[i].type = "code"

RunInit ==
    /\ cells \in Notebooks
    /\ saved = [i \in DOMAIN cells |-> cells[i].outputs]
    /\ saves \in BOOLEAN /\ readable \in BOOLEAN
    /\ cell = 1 /\ runPhase = "resolve" /\ success = FALSE /\ raised = 0
    /\ summaries = <<>>

\* The path is resolved, and jupyter is there, or it is an error.
ResolveNotebook ==
    /\ runPhase = "resolve"
    /\ runPhase' \in {"convert", "error"}
    /\ UNCHANGED <<cells, saved, saves, readable, cell, success, raised, summaries>>

\* The conversion is over: what it has goes to the file.
Save(new) ==
    IF saves THEN saved' = [i \in DOMAIN new |-> new[i].outputs] /\ readable' = TRUE
    ELSE UNCHANGED <<saved, readable>>

\* One cell; a file that does not parse is not converted.
ConvertCell ==
    /\ runPhase = "convert" /\ readable /\ cell <= Len(cells)
    /\ IF ~IsCode(cell)
       THEN cell' = cell + 1 /\ UNCHANGED <<cells, saved, readable, runPhase, raised>>
       ELSE \E outputs \in {<<>>, <<"text">>, <<"error">>, <<"text", "error">>},
               slow \in BOOLEAN :
              LET fails == Len(outputs) > 0 /\ outputs[Len(outputs)] = "error"
                           /\ ~cells[cell].allowed
                  new == [cells EXCEPT ![cell].outputs = outputs]
              IN  /\ cells' = new
                  /\ slow => outputs \in {<<>>, <<"text">>}
                  /\ IF slow \/ fails
                     THEN /\ runPhase' = "parse" /\ Save(new) /\ UNCHANGED cell
                          /\ raised' = IF fails THEN cell ELSE 0
                     ELSE cell' = cell + 1 /\ UNCHANGED <<saved, readable, runPhase, raised>>
    /\ UNCHANGED <<saves, success, summaries>>

ConversionEnds ==
    /\ runPhase = "convert" /\ (~readable \/ cell > Len(cells))
    /\ runPhase' = "parse"
    /\ success' = readable
    /\ IF readable THEN Save(cells) ELSE UNCHANGED <<saved, readable>>
    /\ UNCHANGED <<cells, saves, cell, raised, summaries>>

\* An editor saves the notebook while nbconvert, or we, are at it.
Interfere ==
    /\ runPhase = "parse" /\ readable
    /\ readable' = FALSE
    /\ UNCHANGED <<cells, saved, saves, cell, runPhase, success, raised, summaries>>

\* Slip: a cell is judged by its first output.
FirstOutputFails(outputs) == outputs # <<>> /\ outputs[1] = "error"

\* A code cell failed if any of its outputs is an error.
HasError(outputs) == \E k \in DOMAIN outputs : outputs[k] = "error"

CellSummary(i) ==
    [type |-> cells[i].type, outputs |-> IF IsCode(i) THEN Len(saved[i]) ELSE 0,
     success |-> ~(IsCode(i) /\ HasError(saved[i]))]

\* The file that nbconvert left; a run that failed is reported without it
\* too.
ParseOutputs ==
    /\ runPhase = "parse"
    /\ IF readable
       THEN summaries' = [i \in DOMAIN cells |-> CellSummary(i)] /\ runPhase' = "done"
       ELSE summaries' = <<>> /\ runPhase' = IF success THEN "error" ELSE "done"
    /\ UNCHANGED <<cells, saved, saves, readable, cell, success, raised>>

RunNext == ResolveNotebook \/ ConvertCell \/ ConversionEnds \/ Interfere \/ ParseOutputs

RunSpec == RunInit /\ [][RunNext]_runVars

CellsFailed == {i \in DOMAIN summaries : ~summaries[i].success}

-----------------------------------------------------------------------------
(* Properties.                                                             *)

\* "Surface which cell failed": when a cell stopped the run and the file that
\* was saved is the one that is read, that cell is reported failed; a run is
\* reported a success only when every code cell was executed, and then only a
\* cell that may raise is among the failed.
ReportNamesTheFailure ==
    runPhase = "done" =>
        /\ raised # 0 /\ saves /\ summaries # <<>> => raised \in CellsFailed
        /\ success => cell > Len(cells)
        /\ success /\ saves => \A i \in CellsFailed : cells[i].allowed

=============================================================================
