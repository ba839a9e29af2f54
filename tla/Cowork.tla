------------------------------- MODULE Cowork -------------------------------
(***************************************************************************)
(* `gila cowork` (cowork.rs, run_cowork of main.rs): the loop that shows   *)
(* the agent's chat above the human's own shell, from setting the terminal *)
(* up to putting it back.  The shell, its reader thread, the turn and the  *)
(* window run beside the loop.                                             *)
(*                                                                         *)
(* Which key means what is KeyDispatcher's; here a key is what the loop    *)
(* does for it.  A key for the shell changes nothing the loop can see.     *)
(***************************************************************************)
EXTENDS PtyShell

CONSTANTS
    Keys         \* what the human does

ASSUME KeysAssumption == Keys \subseteq {"char", "backspace", "enter", "quit"}

VARIABLES
    pc,          \* the next step of run_cowork
    tty,         \* the human's own terminal
    guard,       \* the TerminalGuard
    window,      \* the size the shell's pane should have
    last,        \* last_shell_area
    quit,        \* CoworkApp::should_quit
    observed,    \* the shell's output the agent was given
    turn,        \* the driver's turn
    status,      \* CoworkApp::status
    input        \* CoworkApp::input, "empty" when there is nothing to send

program == <<pc, tty, guard>>
chat == <<turn, status, input>>
vars == <<pty, program, window, last, quit, observed, chat>>

Frame == {"pump", "drain", "draw", "resize", "keys", "check"}
Leaving == {"restore", "kill", "join", "guard"}

Init ==
    /\ \E size \in Sizes : PtyInit(size) /\ window = size /\ last = size
    /\ pc = "setup" /\ tty = "cooked" /\ guard = "none"
    /\ quit = FALSE
    /\ observed = <<>>
    /\ turn = "none" /\ status = "idle" /\ input = "empty"

-----------------------------------------------------------------------------
(* Starting.                                                               *)

SetUp ==
    /\ pc = "setup"
    /\ tty' = "screen" /\ guard' = "armed"
    /\ pc' = "spawn"
    /\ UNCHANGED <<pty, window, last, quit, observed, chat>>

\* setup_terminal fails, before there is a guard: at its first step, or at
\* its second, which does not undo the first.
SetUpFails ==
    /\ pc = "setup" /\ "setup" \in Faults
    /\ tty' \in {"cooked", "raw"}
    /\ pc' = "exited"
    /\ UNCHANGED <<pty, guard, window, last, quit, observed, chat>>

StartShell ==
    /\ pc = "spawn"
    /\ Spawn(window) /\ last' = window
    /\ pc' = "pump"
    /\ UNCHANGED <<tty, guard, window, quit, observed, chat>>

StartShellFails ==
    /\ pc = "spawn"
    /\ SpawnFails
    /\ pc' = "guard"
    /\ UNCHANGED <<tty, guard, window, last, quit, observed, chat>>

-----------------------------------------------------------------------------
(* One turn of the loop.                                                   *)

Go(from, to) == pc = from /\ pc' = to /\ UNCHANGED <<tty, guard>>

\* pump's match: a turn that came to an end is taken by the poll, and its
\* outcome stays on the status line.
Poll ==
    /\ turn' = IF turn = "running" THEN turn ELSE "none"
    /\ status' = CASE turn = "over" -> "completed"
                   [] turn = "erred" -> "failed"
                   [] turn = "running" -> "running"
                   [] turn = "none" -> IF status = "running" THEN "idle" ELSE status

Pump ==
    /\ Go("pump", "drain")
    /\ Poll
    /\ UNCHANGED <<pty, window, last, quit, observed, input>>

Observe ==
    /\ Go("drain", "draw")
    /\ Drain(observed)
    /\ UNCHANGED <<window, last, quit, chat>>

Draw ==
    /\ Go("draw", "resize")
    /\ UNCHANGED <<pty, window, last, quit, observed, chat>>

\* Slip: the new size is remembered and the pty not told.
FitForgets ==
    /\ Go("resize", "keys")
    /\ last' = window
    /\ UNCHANGED <<pty, window, quit, observed, chat>>

Fit ==
    /\ Go("resize", "keys")
    /\ last' = window
    /\ IF window # last THEN Resize(window) ELSE UNCHANGED pty
    /\ UNCHANGED <<window, quit, observed, chat>>

\* submit_input: nothing to send, or a driver that still has a turn, leaves
\* the line as it is.
Submit ==
    IF input = "text" /\ turn = "none"
    THEN turn' = "running" /\ status' = "running" /\ input' = "empty"
    ELSE UNCHANGED chat

\* The poll for input times out, or the key is not for the loop.
NoKey ==
    /\ Go("keys", "check")
    /\ UNCHANGED <<pty, window, last, quit, observed, chat>>

Press(key) ==
    /\ Go("keys", "check")
    /\ CASE key = "char" -> input' = "text" /\ UNCHANGED <<quit, turn, status>>
         [] key = "backspace" -> /\ input = "text" /\ input' \in {"text", "empty"}
                                 /\ UNCHANGED <<quit, turn, status>>
         [] key = "enter" -> Submit /\ UNCHANGED quit
         [] key = "quit" -> quit' = TRUE /\ UNCHANGED chat
    /\ UNCHANGED <<pty, window, last, observed>>

CheckExit ==
    /\ pc = "check"
    /\ quit' = (quit \/ HasExited)
    /\ pc' = IF quit' THEN "restore" ELSE "pump"
    /\ UNCHANGED <<pty, tty, guard, window, last, observed, chat>>

\* An error of the frame is the closure's result; the way out is the same.
FrameFails ==
    /\ "frame" \in Faults
    /\ pc \in {"draw", "resize", "keys"} /\ pc' = "restore"
    /\ UNCHANGED <<pty, tty, guard, window, last, quit, observed, chat>>

\* A panic unwinds past guard.restore(): the shell is dropped first.  It may
\* hit the frame while the screen is locked.
Panic ==
    /\ "panic" \in Faults
    /\ pc \in Frame /\ pc' = "kill"
    /\ poisoned' \in {poisoned, poisoned \/ pc \in {"draw", "resize"}}
    /\ UNCHANGED <<shell, held, written, read, reader, pending, kernel, grid,
                   tty, guard, window, last, quit, observed, chat>>

-----------------------------------------------------------------------------
(* Leaving.                                                                *)

\* TerminalGuard::restore, once.
RestoreTerminal ==
    /\ tty' = IF guard = "armed" THEN "cooked" ELSE tty
    /\ guard' = "done"

Restore ==
    /\ pc = "restore" /\ pc' = "kill"
    /\ RestoreTerminal
    /\ UNCHANGED <<pty, window, last, quit, observed, chat>>

\* Drop of PtyShell kills, then joins the reader.
DropKills ==
    /\ Go("kill", "join")
    /\ Kill
    /\ UNCHANGED <<window, last, quit, observed, chat>>

DropJoins ==
    /\ Go("join", "guard")
    /\ Joinable
    /\ UNCHANGED <<pty, window, last, quit, observed, chat>>

\* Slip: the guard trusts that the terminal was put back.
GuardDropsIdly ==
    /\ pc = "guard" /\ pc' = "exited"
    /\ UNCHANGED <<tty, guard>>
    /\ UNCHANGED <<pty, window, last, quit, observed, chat>>

GuardDrops ==
    /\ pc = "guard" /\ pc' = "exited"
    /\ RestoreTerminal
    /\ UNCHANGED <<pty, window, last, quit, observed, chat>>

-----------------------------------------------------------------------------
(* The rest of the world.                                                  *)

\* The backend answers, or fails; it may also never do either.
TurnEnds ==
    /\ turn = "running" /\ turn' \in {"over", "erred"}
    /\ UNCHANGED <<pty, program, window, last, quit, observed, status, input>>

WindowResizes ==
    /\ pc # "exited"
    /\ window' \in Sizes \ {window}
    /\ UNCHANGED <<pty, program, last, quit, observed, chat>>

Beside(step) == step /\ UNCHANGED <<program, window, last, quit, observed, chat>>

LoopStep ==
    \/ SetUp \/ SetUpFails \/ StartShell \/ StartShellFails
    \/ Pump \/ Observe \/ Draw \/ Fit \/ NoKey
    \/ (\E key \in Keys : Press(key))
    \/ CheckExit \/ FrameFails \/ Panic
    \/ Restore \/ DropKills \/ DropJoins \/ GuardDrops

Next ==
    \/ LoopStep
    \/ Beside(ReaderStep) \/ Beside(ShellStep)
    \/ TurnEnds \/ WindowResizes

Spec == Init /\ [][Next]_vars

\* The loop waits for a key for 50 ms at most; a read of the master returns
\* as soon as there is output or nobody to write it.
FairSpec == Spec /\ WF_vars(LoopStep) /\ WF_vars(Beside(ReaderReads \/ ReaderEnds))

-----------------------------------------------------------------------------
(* Properties.                                                             *)

\* Every variable keeps its shape; the guard is armed exactly while the
\* terminal is cowork's, and there is no shell without it.
TypeOK ==
    /\ PtyTypeOK
    /\ pc \in {"setup", "spawn", "exited"} \cup Frame \cup Leaving
    /\ tty \in {"cooked", "raw", "screen"} /\ guard \in {"none", "armed", "done"}
    /\ guard = "armed" <=> tty = "screen"
    /\ guard = "none" => shell = "none"
    /\ window \in Sizes /\ last \in Sizes /\ quit \in BOOLEAN
    /\ observed \in Seq(1 .. MaxBytes)
    /\ turn \in {"none", "running", "over", "erred"}
    /\ status \in {"idle", "running", "completed", "failed"}
    /\ input \in {"empty", "text"}

\* What the agent was given and what waits for it is the shell's output, in
\* its order, nothing twice; while the screen's lock is sound it is all that
\* was read.
ObservedInOrder ==
    \E n \in 0 .. read :
        /\ observed \o pending = Output(n)
        /\ poisoned \/ n = read

\* No way out of cowork leaves the shell running.
NoOrphan == pc = "exited" => shell # "running"

\* Every way out puts the terminal back but one: when the second step of
\* setup_terminal fails there is no guard yet, and the terminal stays raw.
\* That is all such a start leaves: it is not on the alternate screen and no
\* shell was started.  setup_terminal's comment promises more than this: "an
\* error without leaving the terminal half-configured if either step fails".
TerminalComesBack ==
    pc = "exited" => \/ tty = "cooked"
                     \/ tty = "raw" /\ guard = "none" /\ shell = "none"

\* Cowork is left, by a quit, an error or a panic anywhere after its setup,
\* with no shell behind it and the terminal as it was.  A setup that fails
\* leaves no shell either, and at most a raw terminal.
LeavesCleanly == NoOrphan /\ TerminalComesBack

\* What the shell writes reaches the agent while the loop and the reader run.
OutputIsObserved ==
    \A n \in 1 .. MaxBytes :
        (pc \in Frame /\ written >= n)
            ~> (Len(observed) >= n \/ pc \notin Frame \/ reader = "done")

\* Leaving ends, by a quit, an error or a panic, once no job has the slave.
LeavingEnds == <>[]~held => (pc \in Leaving ~> pc = "exited")

\* Kernel and parser end up with the size the window settles on.
PaneFollowsWindow ==
    \A size \in Sizes :
        <>[](window = size /\ pc \in Frame /\ ~poisoned)
            => <>[](grid = size /\ ("resize" \in Faults \/ kernel = size))

\* While the frames go on the shell pane is live: what is written there is
\* observed, and what the window does arrives there.
PaneIsLive == OutputIsObserved /\ PaneFollowsWindow

\* PtyShell's comment: "dropping the `PtyShell` kills the shell and the
\* reader thread observes EOF and exits".
DropReturns == pc = "join" ~> pc = "exited"
=============================================================================
