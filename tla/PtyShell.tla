------------------------------ MODULE PtyShell ------------------------------
(***************************************************************************)
(* The hosted shell (pty.rs): a child on a pseudo-terminal, the thread     *)
(* that reads its output into a shared screen, and the guard that kills    *)
(* it.  What is written to the pty is the sequence 1 .. MaxBytes; white    *)
(* space, which the channel does not pass on, is not counted.              *)
(*                                                                         *)
(* The shell, its jobs and the reader thread run beside their owner, whose *)
(* module composes the owner's steps (Spawn, Drain, Resize, Kill, Join)    *)
(* with ShellStep and ReaderStep.                                          *)
(***************************************************************************)
EXTENDS Naturals, Sequences

CONSTANTS
    MaxBytes,    \* bound: what is written to the pty
    Sizes,       \* sizes of the shell's pane
    Jobs,        \* whether the human starts jobs that outlive the shell
    Faults       \* what may go wrong

FaultKinds == {"setup", "spawn", "frame", "panic", "reader", "resize"}

ASSUME PtyAssumption ==
    /\ MaxBytes \in Nat /\ Sizes # {}
    /\ Jobs \in BOOLEAN /\ Faults \subseteq FaultKinds

VARIABLES
    shell,       \* the child
    held,        \* a job beside the shell has the slave open
    written,     \* bytes written to the slave
    read,        \* bytes the reader took off the master
    reader,      \* the reader thread
    pending,     \* SharedScreen::pending
    poisoned,    \* a thread died with the shared screen locked
    kernel,      \* the size the kernel has
    grid         \* the size the parser has

pty == <<shell, held, written, read, reader, pending, poisoned, kernel, grid>>

Output(n) == [i \in 1 .. n |-> i]

PtyInit(size) ==
    /\ shell = "none" /\ held = FALSE
    /\ written = 0 /\ read = 0
    /\ reader = "none"
    /\ pending = <<>> /\ poisoned = FALSE
    /\ kernel = size /\ grid = size

-----------------------------------------------------------------------------
(* The owner's operations.                                                 *)

Spawn(size) ==
    /\ shell' = "running" /\ reader' = "reading"
    /\ kernel' = size /\ grid' = size
    /\ UNCHANGED <<held, written, read, pending, poisoned>>

\* No pty or no program leaves nothing.  When the writer, the reader or the
\* thread cannot be had, the child runs, no guard holds it, and closing the
\* master is what hangs it up.
SpawnFails ==
    /\ "spawn" \in Faults
    /\ shell' \in {"none", "hungup"}
    /\ UNCHANGED <<held, written, read, reader, pending, poisoned, kernel, grid>>

\* Slip: what is pending is not taken.
DrainCopies(observed) ==
    /\ observed' = IF poisoned THEN observed ELSE observed \o pending
    /\ UNCHANGED pty

\* PtyShellSource::next_chunk and the feed.  A poisoned lock has no chunk.
Drain(observed) ==
    /\ observed' = IF poisoned THEN observed ELSE observed \o pending
    /\ pending' = IF poisoned THEN pending ELSE <<>>
    /\ UNCHANGED <<shell, held, written, read, reader, poisoned, kernel, grid>>

\* The kernel's resize is best effort; the parser's needs the lock.
Resize(size) ==
    /\ kernel' \in {size} \cup (IF "resize" \in Faults THEN {kernel} ELSE {})
    /\ grid' = IF poisoned THEN grid ELSE size
    /\ UNCHANGED <<shell, held, written, read, reader, pending, poisoned>>

HasExited == shell = "dead"

\* Slip: the child is let go and not killed.
Detach ==
    /\ UNCHANGED pty

\* PtyChildGuard::kill.  Its jobs may go down with the shell.
Kill ==
    /\ shell' = "dead"
    /\ held' \in {held, FALSE}
    /\ UNCHANGED <<written, read, reader, pending, poisoned, kernel, grid>>

Joinable == reader # "reading"

-----------------------------------------------------------------------------
(* The shell and its jobs.                                                 *)

ShellWrites ==
    /\ shell = "running" \/ held
    /\ written < MaxBytes /\ written' = written + 1
    /\ UNCHANGED <<shell, held, read, reader, pending, poisoned, kernel, grid>>

\* The human types exit, or the program dies.
ShellExits ==
    /\ shell \in {"running", "hungup"}
    /\ shell' = "dead"
    /\ UNCHANGED <<held, written, read, reader, pending, poisoned, kernel, grid>>

JobStarts ==
    /\ Jobs /\ shell = "running" /\ ~held
    /\ held' = TRUE
    /\ UNCHANGED <<shell, written, read, reader, pending, poisoned, kernel, grid>>

JobEnds ==
    /\ held
    /\ held' = FALSE
    /\ UNCHANGED <<shell, written, read, reader, pending, poisoned, kernel, grid>>

ShellStep == ShellWrites \/ ShellExits \/ JobStarts \/ JobEnds

-----------------------------------------------------------------------------
(* The reader thread.                                                      *)

\* Slip: a burst takes the place of what is pending.
ReaderReadsOver ==
    /\ reader = "reading" /\ read < written
    /\ read' \in read + 1 .. written
    /\ pending' = IF poisoned THEN pending ELSE [i \in 1 .. read' - read |-> read + i]
    /\ UNCHANGED <<shell, held, written, reader, poisoned, kernel, grid>>

\* A burst is ingested under the lock, or lost when the lock is poisoned.
ReaderReads ==
    /\ reader = "reading" /\ read < written
    /\ read' \in read + 1 .. written
    /\ pending' = pending \o IF poisoned THEN <<>>
                             ELSE [i \in 1 .. read' - read |-> read + i]
    /\ UNCHANGED <<shell, held, written, reader, poisoned, kernel, grid>>

\* The master is at its end when it is empty and nobody has the slave open.
ReaderEnds ==
    /\ reader = "reading"
    /\ shell = "dead" /\ ~held /\ read = written
    /\ reader' = "done"
    /\ UNCHANGED <<shell, held, written, read, pending, poisoned, kernel, grid>>

\* An error on the master ends the loop; a panic of the parser ends the
\* thread, with the burst not yet pending and the screen locked.
ReaderFails ==
    /\ "reader" \in Faults
    /\ reader = "reading"
    /\ reader' = "done"
    /\ \/ UNCHANGED <<read, poisoned>>
       \/ /\ read < written /\ read' \in read + 1 .. written
          /\ poisoned' = TRUE
    /\ UNCHANGED <<shell, held, written, pending, kernel, grid>>

ReaderStep == ReaderReads \/ ReaderEnds \/ ReaderFails

PtyTypeOK ==
    /\ shell \in {"none", "running", "hungup", "dead"}
    /\ reader \in {"none", "reading", "done"}
    /\ held \in BOOLEAN /\ poisoned \in BOOLEAN
    /\ written \in 0 .. MaxBytes /\ read \in 0 .. written
    /\ pending \in Seq(1 .. MaxBytes)
    /\ kernel \in Sizes /\ grid \in Sizes
=============================================================================
