# A TLA+ verification of gilamonster-agent

`gila` is one Rust binary with three interactive loops (a cockpit of panes, a
shell shared with an agent, a follower of a recorded shell), a manager of local
Jupyter servers that several `gila` processes use at once, and some thirty
one-shot commands. This directory models the parts that keep state across
steps and meet something that runs beside them: another process, a thread, a
child, a file that grows, a clock, a human. Model checking is done with TLC on
small instances, proofs with TLAPS for all values of the constants.

`src/...` below is relative to the repository root; `PROJECT.json` maps every
definition of a model to its lines.

## 1. Inventory

### Jupyter registry (`src/gila_jupyter.rs`, 1100-1500)

State: `servers.json` (schema version, revision, next handle, records by
handle), `servers.lock`, and in each process the private copy of a transaction.
Operations: wait for the lock (25 ms pauses up to `REGISTRY_LOCK_TIMEOUT`), load
(strictly), migrate a legacy array, take a snapshot, allocate and insert a record,
delete a record of an expected instance, replace the file by write, sync, rename
and directory sync.
Hard: processes interleave and crash with the lock or a half-written file; the
replacement can succeed and still be reported as an error; knowledge from one
transaction is used in another; handles and revisions are finite.
Correct when: the locked file behaves as one atomic value; a handle never means
two servers; two identity-bound records never share a socket; a file that is
not understood is never overwritten; a waiter gives up in time.

### Jupyter server lifecycle (`src/gila_jupyter.rs`, 4780-7260)

State: the private tree of an instance (directory, marker, runtime directory,
token, configuration, server file), the child process, the socket, the record.
Operations: `start_server` (create the tree entry by entry, spawn, poll for
readiness, register, erase both secrets through `.gila-cleanup-*` containers,
or roll everything back), `stop_server` (snapshot, probe, verify the identity,
post the shutdown, poll for a refusal, clean the tree, delete the record).
Hard: a start and several stops meet in the middle of each other's file
operations; the child dies, or a stranger takes its port, at any moment; one of
many steps fails; the answer to a shutdown says nothing about the listener.
Correct when: a server that serves stays in the registry with the files a stop
needs; secrets are gone when a start has ended; what was started can be
removed; a failed start leaves nothing; one stop succeeds at most; all commands
return.

### Cockpit (`src/cockpit.rs`, `src/cockpit_app.rs`, `src/pane_backend.rs`, `run_cockpit` in `src/main.rs`)

State: tabs with their panes, roles, tokens, focus and zoom; the backend of
each pane token (chat driver, pty, failed stand-in); the rectangle last given
to each backend. Operations: one per key action, and the steps of a frame
(tick, draw, resize, input, drain, reap).
Hard: pane ids are unique in a tab only while backends are keyed by token; a
reap closes panes and even tabs under the list it walks and aims by moving the
focus; programs in the panes print and exit at any step of the frame;
dropping a pty joins its reader in the loop's own thread, for as long as a job of
the shell has the slave open (`pty.rs:605`).
Correct when: tabs stay coherent and in step with the backends; reaping takes
only what died and gives the operator's focus back; what is drawn has its
size; nothing dead stays in front, as long as jobs let go, and nothing printed waits.

### Layout (`src/layout.rs`)

State: a tree of cells with absolute integer sizes, a zoom, the recency of
focus. Operations: fit to a terminal, split, close, zoom, find the neighbour in a
direction, presets. Hard: integer arithmetic with dividers, minimum
sizes and nested axes over long sequences of splits and closes.
Correct when: splits stay exactly filled, panes tile the terminal, close is the
inverse of split, stepping back is the inverse of stepping.

### Key dispatcher (`src/keys.rs`, and the key arms of `route_key` in `src/cowork.rs` and `route_app_key` in `src/cockpit_app.rs`)

State: the Root and Prefix tables, the prefix, the table in force, the repeat
window. Operations: a key, a pause, `set_prefix`, `bind`, `unbind`.
Hard: the window closes lazily, at the next key; two keys are compared outside
the dispatcher, before or after it; some keys have no word in it.
Correct when: the key after a bare prefix never reaches a shell; no move
happens after the window; the prefix can always be typed; the way out works.

### Follow (`src/follow.rs`, `run_follow` in `src/main.rs`)

State: the offset and the banner flag of the tail, the loop's pending flag, the
driver's turn and its polls. Operations: stat, read, strip, observe, ask for a
comment, poll, abandon. Hard: `script(1)` appends between the tail's steps; the
turn may never end. Correct when: nothing visible is kept from the agent, a
stuck turn is abandoned without harm, activity is commented on, and silence
follows silence.

### Cowork (`src/cowork.rs`, `src/pty.rs`, `run_cowork` in `src/main.rs`)

State: the human's terminal and its guard, the hosted shell, the reader thread and
the screen it shares with the loop, the pane's size, the agent's turn, the
input line. Operations: set up, spawn, the steps of a frame, and the
destructors in their order. Hard: a thread and a loop share a buffer that a
panic can poison; the way out passes through a join; the kernel and the parser
have the size each.
Correct when: output is observed in order and reaches the agent, no shell
outlives cowork, the terminal comes back, leaving ends, the pane follows the
window.

### Starting and using a Jupyter server (`src/src/gila_jupyter.rs`, `gila_pixi.rs`)

Five parts of the same command, each with state of its own:

- the private directories under `GILA_HOME` (980-1140, 2300-2370): what is
  missing is made, what is there is looked at again, closed to others and only
  then used, while another first command does the same or dies half way;
- the command line and the environment of the child (4095-4180, 6540-6590): the extra
  arguments are let through by an exact list, since the child reads the line
  again by rules of its own;
- the log of a start (2200-2750, 6100-6240): made under a fresh name, opened by
  name for the child and for the scanner, read in bounded polls while it grows or
  is cut, noticed or not, and shown on failure with the secrets taken out, which are
  looked for in several encodings and in both cases of an escape;
- the loop of a start (2145-2190, 5820-6700): discovery, probe, exit of the
  child, deadline, and the kill of a process group whose leader may go before the
  rest, tried again from `Drop`;
- the list (6790-7000): workers on one queue under one deadline; and
  `execute` (3734-3892): what a notebook run is reported to have done.

### Fleet dashboard (`src/src/fleet.rs`)

State: the selected phase and agent, the focus, the scroll of a transcript, the
frozen frame. Operations: a key, a resize, a frame. Hard: one cursor is carried
across phases of different and empty crews; the frame is cut out of terminals of
a few cells. Correct when: the cursor is on an agent that exists, and the regions
tile the frame.

### One-shot commands

- `gila solve` (`solve.rs`, `solve_contract.rs`, `launch.rs`): profile, posture,
  preconditions, one turn, the records. Correct when the contract that is
  printed, the events file and the exit code say what happened, with one
  configuration throughout.
- `gila git tend` (`gila_git.rs`): every selected repository is gone through
  and no work is lost by a strategy that does not say so.
- the shell delegate (`delegate.rs`): hops between programs called `gila` end.
- `gila cap config`, `gila code`, `gila hotseat` (`capabilities.rs`,
  `manifest.rs`, `venv.rs`, `hotseat.rs`): what a session mounts was opted in to.
- todos, ideas and notes: commands and an editor on one file without a lock.

### Other parts

`PROJECT.json` lists all of them with the reason they are not modelled: parts
that only read or write one file in one call, pure functions, and external
protocols (worktrees and checkpoints, the capability chain, the palette manifest,
scrybe, the Python bridge, the reports, the command line itself).

### How the parts interact

- `start_server` and `stop_server` call the registry; each call is one
  transaction of `JupyterRegistry`, and one step of `JupyterLifecycle`.
- `run_cockpit` sends a key through `route_app_key` (KeyDispatcher) and gives
  the resulting action to `CockpitApp`, which edits the model, the layout and the
  backends; a pty backend hosts a `PtyShell`.
- `start_server` first runs `PrivateState`'s walk, then `JupyterCommand`, then
  the loop of `JupyterStartup`, which polls `JupyterLog`; the lifecycle has that
  loop as two steps and none of the other three.
- `gila code` and `gila hotseat` read the manifest that `cap config` writes.
- `run_cowork` sends a key through `route_key` (KeyDispatcher), hosts one
  `PtyShell` and hands its output to the agent.
- `run_follow` hands the tail's chunks to the same kind of driver.

## 2. Modules

| module | models | state and actions in the code |
|---|---|---|
| `RegistryData` | the registry as a value | `DiskFile` is `servers.json`; `Loadable`, `Migrated`, `Allocated`, `Inserted`, `Deleted` are `load_registry` and the edits of `RegistryTransaction` |
| `AtomicRegistry` | what it promises | a value changed by indivisible migrations, registrations and deletions |
| `JupyterRegistry` | the locked protocol | `pc` is the place in a transaction, `tx` its data; one action per step up to the rename and its late errors; `Crash` anywhere |
| `RegistryDataProofs` | theorems of the value | what an edit makes of it, and what a legal successor preserves |
| `JupyterRegistryProofs` | theorems of the protocol | |
| `JupyterLifecycle` | start and stop | extends `AtomicRegistry` (a transaction is a step, which the refinement of `AtomicRegistry` justifies); one action per file-system call, probe and request; `World` is the child and strangers |
| `JupyterLifecycleProofs` | theorems of it | |
| `PrivateState` | the private directories | `there` is the file system, `phase` the call a command is at; a second command, a stranger and a death in between; a Windows user, one of Unix, or a privileged one |
| `JupyterCommand` | `parse_extra_args`, launcher, environment | one step per argument; `Understood` is how the child reads the line |
| `JupyterLog` | log, scanner, redaction | `place` is the point in a poll; child, rotation and cuts beside it; `Normalized` is what the redactor reads, `Shown` what a failure shows, `heard` all that was read |
| `JupyterStartup` | the loop and `StartupGuard` | one action per look of the loop and per try of the kill; `leader` and `rest` are the process group, the child as the fixture plays it |
| `JupyterStatus` | `list_servers` | workers, the queue's front, the deadline; servers that change |
| `NotebookRun` | `execute_notebook` | one step per cell, the save, the reading of the file |
| `JupyterProofs` | theorems of these parts | |
| `Cockpit`, `CockpitProofs` | model, backends, frame loop | one action per frame step and per action of a key; `closing` and `held` are the joins a drop waits in |
| `LayoutTree` | layout arithmetic | `tree` is the arena without its indices: a cell is a value, `Put` replaces one where the code writes through its index, and each walk of the code (`fit`, `walk`, the leaves) is a recursive function on cells; one action per operation a client calls |
| `KeyDispatcher` | dispatcher behind each front end | `Frontend` chooses `route_app_key` or `route_key`; `Configure` is `set_prefix`, `bind`, `unbind` |
| `KeyNames` | key strings, events, bytes | operators; a behaviour names one key |
| `Follow` | tail and loop | `pc` is the place in the loop; `ScriptWrites` and `TurnEnds` run beside it |
| `PtyShell` | the hosted shell | child, jobs, reader thread, shared screen; steps its owner composes |
| `Cowork`, `CoworkProofs` | the cowork loop | extends `PtyShell`; `pc` walks set-up, frame and destructors |
| `Fleet` | the dashboard | one action per key; `Layout` is `fleet_layout` |
| `HeadlessSolve` | `gila solve` | one action per stage; profile and manifest edited beside it |
| `GitTend` | `git tend` | one action per step of a profile, which may fail, and per strategy |
| `Delegate` | the hops | resolution and the run of what was found |
| `Capabilities` | the manifest and who mounts it | sessions that write (in two steps) and read it |
| `NoteFiles` | the note commands | look, truncate, write, append of two commands and an editor |
| `CommandProofs` | theorems of the commands, the dashboard and the tail | |
| `ScreenProofs` | theorems of the dispatcher, the names and the layout | |
| `MCScreen` | `KeyNames`, `KeyDispatcher`, `LayoutTree` | a behaviour is one of them |
| `MCJupyter` | the five parts of a start, the list, the run | a behaviour is one of them |
| `MCCommands` | the one-shot commands, the dashboard and `Follow` | a behaviour is one of them |
| other `MC*` | instances for TLC | constants only |

`PtyShell` is a part, not a system: it has steps and no Next, and `Cowork`
composes them. A definition that ends in a word like `Stays` or
`Forgets` under a comment "slip" is a plausible mistake that no action uses; each
one shows that a property would notice it.

## 3. Abstractions

- Text is positions: bytes of a typescript are `1 .. MaxBytes`, what a shell
  writes is `1 .. MaxBytes`, keys are classes, tokens and secrets are names.
- A log has four letters, of which one is the percent sign and one a hexadecimal digit
  in upper case; a pattern is a sequence of them and of the digit in lower case.
- A timeout in the lifecycle is a step that may be taken at any time; in the registry and
  in the follower it is a count of retries, in the dispatcher what is left of the window.
- Integers that matter keep their end: `MaxU64` is the largest handle
  and revision, so that the checked additions of the code can fail.
- The layout keeps cell sizes far below 2^16, where `u16` sums do not wrap.
- The file of the registry is "unreadable" for every content the loader refuses.
- Panics are modelled where a destructor follows (`Cowork`), the parts they
  would strike elsewhere are invariants (`TabsCoherent`, and `ListIsTrue` for the
  `expect` of the list).
- Three instances put parts side by side that never run together: TLC
  explores each of them from its own initial states while the others stand still
  in a state in which they are over, which their properties allow.
- git, nbconvert, Jupyter and `script(1)` are outside of the repository's source: what
  they do to a file, a cell or a piece of work is modelled from how they are used.

## 4. Runs

Violations are expected where a document of the repository says something else
than the code does; section 7 explains each.

| run | instance | what it shows |
|---|---|---|
| `registry` | two processes, two instance ids, two sockets that share a port, six first files, `MaxU64` = 6, one lock retry | `RecordsStayTrue`: handles name one instance, sockets differ, what a process remembers is the same or gone; `RevisionTellsFilesApart`; `AtomicFile`, the refinement of `AtomicRegistry`; `WaitEnds` |
| `lifecycle_stops` | one start, two stops, one crash or failure, three first files | `ServingStaysManaged`: what serves is in the registry with what a stop needs; `StartLeavesInOrder`: a start that ended left no secret and something a stop can remove; `OneStopSucceeds`; `CommandsReturn` |
| `lifecycle_starts` | two starts for one port, one stop, up to two crashes or failures, registry numbers that run out | `FailedStartLeavesNothing`: no process, record or file of a start that failed without mishap, but for the record that cannot be taken back when the registry has no revision left |
| `jupyter` | two first commands; command lines of up to three words; five bytes of log, cut anywhere, three secrets, one of them an escape; three kills of a leader and the rest of its group; three records and two workers; notebooks of three cells | `StateIsPrivate`, `ChildIsControlled`, `LogIsTrue`, `NothingLeftUnreported`, `ListIsTrue`, `ReportNamesTheFailure`, `CommandsEnd` |
| `cockpit` | three tokens over tabs in any arrangement, two rectangles, a shell that prints, and shells that exit or are closed and may leave a job | `PiecesAgree`: tabs, backends and buffers; `DrawnAtItsSize`; `ReapIsClean`: only the dead go, and focus returns; `DeadPanesGo`: unless a job holds a slave for good, dead panes go and frames go on |
| `screen` | a key of each class, three keys the configuration may rebind or make the prefix; every key string over a small alphabet; four panes, both axes, a terminal of 15x11 and one of 10x7 | `PostPrefixKeyIsHeld`, `NoMoveAfterTheWindow`, `LiteralPrefixReachable`, `LiteralIsTheKey`, `PanesTile`, `FilledStaysFilled`, `WaysBack` (closing undoes splitting, stepping back returns) |
| `cowork` | two bytes of output, two window sizes, jobs, five kinds of fault, all keys | `ObservedInOrder`, `LeavesCleanly`, `LeavingEnds`, `PaneIsLive` (output reaches the agent, the pane follows the window) |
| `commands` | a solve with three edits; two repositories; search paths of three files; two note commands and an editor; two `cap config` and a session; three phases and 30 frames; six bytes of typescript with a banner of two and one blank | `ContractIsTrue`, `ReposAreTended`, `HopsSearchPast`, `NotesAreKept`, `MountedIsOptedIn`, `CursorIsOnAnAgent`, `FrameIsTiled`, `NothingMissed`, `CommentsFollowActivity` |
| `cockpit_zoom` | a pane is split while one is zoomed | violation: the focus leaves the zoomed pane |
| `keys_cowork` | a key without a word after the prefix, in cowork | violation: it reaches the shell |
| `follow_once` | an append between stat and read | violation: it is observed twice |
| `cowork_jobs` | a job outlives the shell | violation: dropping the shell does not return |

Each of `PROJECT.json`'s mutants breaks one property the way a plausible slip in the
code would, and is found by the run it names.

### Bounds, and why they are enough

- Two registry processes: every property of the registry is about a pair (a
  holder and a waiter, a reader and a writer) and the lock admits one; the
  theorems remove the bound. `MaxU64` = 6 leaves room for a legacy row,
  migration, registrations and deletions, and then for the checked additions
  to fail. Two instance ids may be drawn twice, which the code does not exclude.
- The lifecycle's conflicts are between a start and a stop, two stops, or
  two starts; each pair is in one of the two runs. One mishap among the stops is
  a crash, a failed removal, or a failed request at any single point; two of them
  among the starts also reach a failure while a failure is rolled back.
- Two first commands are a maker and one that finds the path made, at every pair
  of places; the theorem removes the bound.
- Three words hold an option with its value and one more, and an option with its
  value in one word among others. Five bytes with chunks of two and polls of three
  span chunk and poll; the caps are of one to three, so that a line exceeds each. They
  are counted with those a cut took: two bytes that were read, a cut, and three new
  ones are a cut that goes unnoticed. The secrets are an escape, the end of one with the
  beginning of the next, and one without any: each is as long as the overlap or shorter,
  and begins before, at and after what is shown.
  Three kills are a kill, its retry and the one of `Drop`.
- Three records and two workers: a worker takes a second one while the other
  still probes, and one is left in the queue. Three cells: one before the
  failing one, that one, and one that is not reached.
- Three pane tokens give three panes in one tab, two tabs of which one
  has two panes, or three tabs, which is every shape in which a reap can lose
  its pane or its tab under its list. `Areas` needs two sizes to be stale.
- Four panes nest splits to depth three, collapse a split of the same axis into
  its parent, and meet `PANE_MIN` on the smaller terminal.
- A key of each class meets every branch of the dispatcher; `RepeatTimeout` = 2
  lets a pause end within, at and after the window.
- Six bytes: the banner, a visible byte, a blank and two more, so that an append
  can fall before, into and after each step; two polls are one that is answered
  and one that is not.
- Two bytes of output tell order and duplication apart; two sizes let
  the window change back before the pane followed.
- Two repositories: the default one, and one with two profiles, of which one is
  unknown, and a strategy of its own; each may fail at each step. A search path of three
  files reaches a wrapper, what it runs, and what is behind both. Three edits change the
  profile before, between and after the two reads. Two `cap config` overlap in their
  writes, and the session reads in the middle.

`CHECK_DEADLOCK FALSE` is said where the system may stop: commands end in the
lifecycle, the program ends in cowork, one-shot
commands in `commands` and `jupyter`, and `screen` names a key once.

## 5. Fairness

Fairness is assumed only of steps the code itself takes, never of a fault, of
a crash, of the child, of the turn, of a job, or of the human.

- `registry`: a waiter tries the lock, retries or gives up (`Acquire`,
  `LockRetry`, `LockTimeout`: a loop with a pause and a deadline). The holder of
  the lock need not move.
- `lifecycle_stops`: a command that has begun takes its next step. Its polling
  loops have deadlines (`STARTUP_TIMEOUT`, `SHUTDOWN_CONFIRM_TIMEOUT`,
  `DUPLICATE_STOP_RACE_TIMEOUT`) and its requests have timeouts.
- `jupyter`: the scanner's next step, the loop of the start and its deadline,
  each worker, the join and the summaries. A child that was killed
  (`doomed`) is gone at some time; no other step of it, and none of the rest of its
  group, is fair.
- `cockpit`: weak fairness of the loop's thread (`LoopStep`): the next step of the
  frame, or, where it dropped ptys, the return of the join of one whose slave nobody
  holds. It has two reasons. The loop's `event::poll` waits 50 ms at most and so never on
  the human; and a join returns once the reader has its end of file. The second needs
  every job of the shell to let go of the slave, and nothing in the code makes a job
  end: `JobEnds` is not fair, and `DeadPanesGo` says only what holds if jobs do
  (`[]<>~held`). While one does not, the thread is in `PtyShell::drop`, draws no frame
  and reads no key. What remains supposed is that a write of a forwarded key to the
  master returns.
- `commands`, of `Follow` only: weak fairness of the loop, whose poll waits 100 ms at most, and
  strong fairness of a tick that finds the file longer and of its read. The loop
  ticks again and again; this says that not every one of its reads fails, which is
  an assumption on the file system.
- `cowork`: weak fairness of the loop (50 ms) and of the reader thread's read
  and end-of-file. The reader's death is not fair.

## 6. Proofs

Assumptions are on constants only and named in the module that declares them:
numbers are natural, sentinels are not values (`NoProc` is no process, "none" no
key), keys without a word are no combinations, a search path names files, profiles
and steps are lists of names (`ReposAssumption`), a notebook is a list of cells
(`NotebooksAssumption`), the operator's servers and manifest entries are lists
(`ListsAssumption`), no upper-case letter is a lower-case one (`CasesAssumption`), no
pattern of a secret is empty or longer than the overlap (`CapsAssumption`, which
`secret_representations` and `validate_auth_input` see to), the header of a note file
is at its top (`NotesAssumption`), an argument is one kind of thing (a flag, a switch or
a flag with its value in one), an option of the stand-in is no word Gila writes
itself, and a default page is a path (`FlagsAssumption`). `FirstFilesAssumption` is about the lifecycle only: its history
begins before the first start, so that every bound record found is
the work of one of its commands. TLC evaluates them in every run.

### Registry (`RegistryDataProofs`, `JupyterRegistryProofs`)

The invariants are not inductive: that a handle names one instance does not say
why a process that is about to replace the file may do so. `IInv` adds

- `LockMatches`: a process is inside its transaction exactly if it holds the lock;
- `CopyMatches`: by the place in the transaction, the private copy is the file,
  or a legal successor of it (`MigrationOf`, `RegistrationOf`, `DeletionOf`), so a
  replacement is a step of the abstract registry;
- `FileSound`: the file is well formed and its bound sockets are distinct;
- `OwnersFixed`: the history of first owners agrees with the file, and
  handles from `next_handle` on have had no owner;
- `SeenOwned`: what a process remembers agrees with that history.

The lemmas come in three layers: what an edit does to a value (`AllocatedType`,
`InsertedType`, `DeletedType`), what a legal successor preserves
(`MigrationSound`, `RegistrationSound`, `DeletionSound`), and one lemma for each
part of `IInv` over the actions of a step (`TypeStep`, `LockStep`, `CopyStep`,
`FileStep`, ...). From `Inductive` follow: `TypeCorrect`, `TransactionsExclude`
(`OneTransaction`: the lock is held to the end of the replacement),
`HandlesNeverReused`, `SeenStaysTrue`, `SocketsStayDistinct` and, of all three,
`RecordsStay`,
`RefusedFilesSurvive` (`RefusedFilePreserved`: a file the loader refuses is not
overwritten), `RevisionsRise`, and `ImplementsAtomicRegistry`: every step of the
protocol, crashes included, is a step of `AtomicRegistry` or leaves the file alone.

### Lifecycle (`JupyterLifecycleProofs`)

For any number of starts, stops, sockets and mishaps and every set of first
files: `LifecycleTypesHold`, `ServersStayManaged` (`ServingStaysManaged`),
`StartsLeaveInOrder` (`StartLeavesInOrder`), `FailedStartsLeaveNothing`,
`OneStopAnswers` (`OneStopSucceeds`) and the refinement `CommandsUseTheRegistry`:
every step of a command is a step of `AtomicRegistry` or leaves the file alone.

None of the four is inductive: that a stop has removed everything of a server says
nothing of the places on its way there. `IInv` says for each place of a start what
its directory, secrets, child and record are by then (`StartFits`, and `CalmFits`
while there was no mishap), for each place of a stop what it may rely on
(`StopFits`), for each child where it listens (`ChildFits`), and of the file that
each record is true of the start that wrote it (`FileFits`).

A command is let down only by the steps of others. So the proof first fixes
what no step of anybody undoes: `Lasting` (a child that is gone stays
gone, a server that announced itself keeps its socket, a directory that a
cleaner emptied stays so) and `Listing` (a record comes only from its own start, and
goes only when its child is gone or its start gives it up). Each action of a
command is then a lemma about its own instance, and one lemma (`StartKept`,
`StopKept`) carries the invariant of every other command across it.

The attempt corrected a property. A start that fails after its record was
committed takes the record back in a transaction of its own, and that fails
when the registry's revision is at its end: then the record stays. TLC had not met it
since the runs' numbers ran out earlier. `FailedStartLeavesNothing` now says so.

### Keys (`ScreenProofs`)

`TypeOK` is inductive here (the window is open only while a repeat is, and a
repeat only in the Prefix table), as is `LiteralPrefixReachable`. The
action properties follow from `TypeOK` by cases on the way a key takes through
the front end. `LiteralPrefixAlways`, `SecondQuitAlwaysLeaves` and `NoLateMove`
hold behind both front ends; `CockpitHoldsPostPrefixKey` and `CockpitSequenceEnds`
(`SequenceEnds`: the key after the prefix ends the sequence unless it was a move)
hold for the cockpit, and run `keys_cowork` shows why only there.

`LiteralIsAlwaysTheKey` (`LiteralIsTheKey`), for any alphabet: normalising a key
does not change what it sends (`NormalizedSendsTheSame`), so neither does the
detour of the prefix over a combination. How the prefix was spelled does
not matter, since the key that is pressed has the same combination.

### Layout (`ScreenProofs`)

For any bound on the panes, any nesting, any set of terminals and any sequence of splits,
closes and resizes, from `BoundsAssumption` alone (sizes are natural, `MaxPanes` is
positive, `NoPane` is no number): `LayoutTypeCorrect`, `FilledAlwaysStaysFilled`
(`FilledStaysFilled`), `PanesAlwaysTile` (`PanesTile`) and `AlwaysWaysBack` (`WaysBack`).

None of the properties is inductive. That a tree is filled says nothing of what a split
may take from a pane, or of where a sum starts when the room changes; and a tree that is
not filled (the terminal shrank) must still come out of each operation in a shape from
which the later ones work. `LayoutInv` is what every operation keeps, whatever the room:

- `Fitted`: every split is `Settled`, that is, it has at least two children, no pane is in
  two of them, each child is at `PaneMin` or over it along the split's axis and matches
  it across; the tree has the size of the terminal;
- `Numbered`: panes, zoom and recency are among the numbers handed out, and the recency
  names no pane twice.

That children are at the floor or over it makes `distribute` exact when there is room: its
turns are enough to give out what is left over (`NudgeIs`), so a filled tree that is given
more room is filled again (`FitFills`), at every depth: the survivor of a collapse may get
cells along either axis. It also keeps the children's sum from being 0, where
`distribute` would deal out even sizes. `CloseInIs` and `SplitInIs` then
say for each operation which panes the tree has afterwards, that it is settled, and that
it is filled if it was; `SplitKeeps`, `CloseKeeps` and the others carry that to `LayoutInv`.

`PanesAlwaysTile` is `WalkTiles`: the rectangles of a subtree lie inside its box, each of
its panes once, and two of them are in the same child or on the two sides of a divider
(`KidsApart`). Inside the terminal nothing is clipped (`RectsAre`). For
`AlwaysWaysBack`, `SplitBack` follows a split that went into its parent and
one that wrapped the pane: the pane before it inherits what it gave, the collapse
unwraps, and re-fitting a leaf is its size. `StepBack` needs only that a pane is drawn at
most once and that adjacency is symmetric (`AdjacentBothWays`): the pane one came from is
the last touched among the neighbours, since a step touches only its target.

Induction over trees is a statement about sets here: a set that has the leaves, and each
split with its children, has all trees (`TreeInduction`, from `Climb`). That the
recursive functions of the model return what their equation says is a theorem too: a
function that satisfies it exists (`WalkExists` for walks over trees, `RecursionExists`
for those over numbers), so `CHOOSE` takes one. `Cells` has trees as high as the number of
panes, which loses none, since a split divides its panes (`FewPanesAreLow`). TLC found
`LayoutInv` to hold on the instance of run `screen` before it was proved.

### Private directories (`JupyterProofs`)

`StateIsPrivate` is made inductive by two facts: a path only gets better
(`Steady`: kinds stay, private stays private, what is foreign stays foreign), and
what a command knows of the path it is at, at each of its calls (`Fine`). So what
another command does between two calls of this one cannot hurt it.

### The list (`JupyterProofs`)

`SInv` says that each record is in exactly one place (before the front of
the queue and summarised, in a worker's hands, or still queued) and that an answer
taken for `running` was given. Hence no record is without its summary
when the list is printed, for any number of workers and records.

### Start's loop, log and notebook run (`JupyterProofs`)

`FailuresAreReported` (`NothingLeftUnreported`): a start fails at two
places, after a wait that reaped the child and after a guard that said it gave up, and
nothing comes after. `StartInv` adds why it is enough to wait for the leader: a kill
that was accepted reached all of the group, also when the leader had exited, and what
was killed starts nothing. `FailuresAreNamed` (`ReportNamesTheFailure`), for
every notebook, needs three facts about the run on its way: what nbconvert went past has
no error that is not allowed (`Passed`), the cell that stopped it has one (`Blamed`),
and the saved file has the outputs of the cells (`InFile`).

`LogStaysTrue` (`LogIsTrue`) is for any log, chunks, budgets, caps and secrets.
`LogIsTheCreatedFile`: a handle that was kept is the created file's, whoever moved
the path. For the rest `LogInv` relates the scanner to what it read (`heard`): what it has
handed out and found are the lines of that text, what it holds back is the rest of it
behind the last newline, cut to the cap (`HasRead`), and its tail is the end (`Knows`).
That holds of one byte (`LinesAndByte`, `LinesAndNewline`), hence of a chunk (`TakenReads`,
by `Climb` over the recursive function `Taken`), wherever the budget stops it (`ReadAdds`).
What was read is the file from where the last cut was crossed on (`HeardIsHeld`): a file
that was cut and has grown past the offset cannot be told from one that only grew, so the
bytes of the new file before the offset are never read and a line may be of two files;
the property says so and promises the rest.

From there `ShownIsSafe`: a secret that begins before the tail ends
within the overlap, hence before what is shown; one that begins in the tail is matched
there (`SecretIsInTail`) and found (`FoundWhereItIs`). Matching is about the normalisation:
`SecretAt` says, byte for byte and without the redactor's operators, that a pattern was
read with the digits of its escapes in either case; its escapes are then escapes of the
tail too (`EscapesOfSecret`), and of its other bytes the normalisation of the tail changes
none that the one of the whole text does not (`EscapesOfPiece`). Three cases are left out
by name, since the code shows the secret in them: an earlier occurrence overlaps it
(`match_indices` steps over the one it found); its first or last bytes make an escape with
the bytes beside it, and this changes their case (`Apart`; in the text `%AB%2F` the
pattern `AB%2f` is not found, as the text is read as `%ab%2f`); or a cut left its
beginning unread.

### The child's command line (`JupyterProofs`)

`ChildStaysControlled` (`ChildIsControlled`) is for any arguments, flags, default pages,
launchers and environments, and it is about two readings of one line. `LineInv` says of the
parser that what it has taken is a sequence of legal groups (an option with its value, in
one word or two) with one default page at most (`Grouped`), and that every way to cut
the whole line into such groups has a cut where the parser is (`Reached`). So where
the parser refuses, no grouping goes on (`ParserRefuses`, `GroupAtIndex`), and a refused
line is not `Acceptable`: the allowlist is exact in both directions. Of what is handed on
it says that it is `Complete`: however its words are read, no option in it is left
waiting for a value. Completeness survives joining (`JoinIsComplete`), and the words of the
launcher are complete, so the child reads Gila's own options as options, and they come
last (`OwnOptionsCount`). `FlattenSeq` and the child's reading are recursive functions;
their existence and values follow by `Climb` (`FlatAppend`, `FlatCut`, `ReadIsHeard`).

### Cowork (`CoworkProofs`)

`ObservedInOrder` and the types are inductive with `WInv`, which ties the guard
and the shell to the place in the loop; `LeavesCleanly` follows from the order of
the destructors. For a setup that fails at its second step it says what is left, a
raw terminal without a shell, and not that the terminal is as it was. The lemmas go by phase: `StartingIsSound`, `FramesAreSound`,
`LeavingIsSound`, `BesideIsSound`.

### Dashboard and delegate (`CommandProofs`)

`CursorStays` rests on `FInv` (the cursor is clamped whenever the phase changes);
`FramesAreTiled` is arithmetic on areas of any size. `HopsAlwaysSearchPast`
rests on the two facts that what was tried is excluded (`Listed`) and what
is excluded was not the Python program (`Unspent`).

### Follow, solve, git and notes (`CommandProofs`)

`TailMissesNothing` (`NothingMissed`), for a file of any length: a read begins
below the length that was seen, and the file only grew since, so the chunk
reaches as far as the new offset. `FollowGoesOn` (`LoopNeverEnds`): the driver has a
turn only while the loop polls it.

`SolvedIsTrue` (`ContractIsTrue`): by the stage, what the command line and the files
have settled (`Settled`: the posture is frozen once, with one configuration) and
what is written and printed by then (`Reported`). Once it ran, the run was a
baseline and the last record is its contract (`Ran`, `Told`).

`ReposStayTended` (`ReposAreTended`), for any list of repositories: `Carried` says how
far the work of a repository is by the number of its steps that are done, and
`InLoop` what the loop has reached. The attempt needed that a repository in work
is a selected one at every place of its strategy, which the first form
left out. The steps of a repository are those of its profiles in a row;
`FlattenedIsSequence` shows that they are a sequence at all, by `Climb`: a set
of numbers that has 0, and with each number the next, has all of them. (The
library's induction takes an operator, which no prover here can instantiate; a set
does as well, as long as the recursion is a function's or a fold's.)

`NotesStay` (`NotesAreKept`), for any number of commands and notes: every promised
line is in the file while no one writes (`Between`), or is in what the only writer
has read (`Rewriting`), or a second one has crossed it (`Crossed`), and then the
last to write finds what it had not seen.

`MountsAreOptedIn` (`MountedIsOptedIn`), for any number of `cap config` that write
the manifest without a lock, over each other's text, and die in the middle of it, beside sessions that read it once for
the list and again for each venv. Until a configuration truncates it, the manifest is
the operator's, and then it holds answers only, which name no venv
(`Configured`); what it exposes at any time was offered (`Offered`). So a name
that a session still has to resolve (`Awaited`) may be mounted in the venv that the
manifest gives for it now and in the one that a rewritten manifest would give,
and what is mounted so far (`Mounts`) is the operator's servers and then opted-in
ones under names of their own.

### Cockpit (`CockpitProofs`)

`PiecesNeverPart` (`PiecesAgree`) and `DrawnSizesHold` (`DrawnAtItsSize`), for
any number of tokens and of rectangles. The invariant adds `Fresh` (no backend,
frame, size or unread output belongs to a token that was not handed out, so a new
pane shares nothing with an older one), `Aging` (how long output may have waited
by the step of the frame) and `Sized` (the sizes agree with `lastAreas` at every
step, not only where a key is read). Below them are lemmas on `InsertAt` and
`RemoveAt`, on what a split, a close and a change of focus make of one tab
(`SplitTabIs`, `CloseInIs`, `RefocusedIs`), and on the lockstep of any tabs with any
backends (`SplitLock`, `CloseLock`, `AppendLock`, `RemoveLock`).

`ReapingIsClean` (`ReapIsClean`) adds `Reaping`: while it goes on, its list names
panes of the active tab, each once, whose programs exited, and the operator's pane
is in that tab or gone. A close may take the tab, and others may exit meanwhile; the
list stays good as its head goes (`TakeNext`), and a tab goes only with its last
pane (`AloneIs`). The list is a recursive function (`PanesIn`), whose existence
and values follow by `Climb`, as in the proof about `git tend`.

### Only model-checked

Everything that must eventually happen (`WaitEnds`, `CommandsReturn`,
`CommandsEnd`, `DeadPanesGo`, `CommentsFollowActivity`, `PaneIsLive`,
`LeavingEnds`): liveness under fairness is out of the prover's reach. Every safety
property and every action property of the passing runs is a theorem.

## 7. Findings

Four runs end in the violation they expect:

1. `cockpit_zoom` (`src/src/cockpit.rs:313`). `split` focuses the new pane
   also while a pane is zoomed, and the zoom stays: keys go to a pane that is
   not drawn. The comment on `focus_cycle` says focus stays put then.
2. `keys_cowork` (`src/src/cowork.rs:222`). A key without a combination
   (Delete, Insert, BackTab) is forwarded while a prefix is armed; the header of
   `keys.rs` says a post-prefix typo never reaches the shell. The
   cockpit absorbs such a key.
3. `follow_once` (`src/src/follow.rs:340`). `read_new` takes the length before it reads
   to the end, and the next read starts at that length: what was appended between
   is observed twice.
4. `cowork_jobs` (`src/src/pty.rs:604`). `Drop` joins the reader, whose end of
   file needs every holder of the slave to be gone: a disowned job keeps
   the quit waiting. The comment says the reader observes the end once the shell is
   killed.

Met on the way, and not kept as runs:

- `cockpit_app.rs:60` asks the dispatcher whether it is armed before the lazy
  close of the repeat window (`keys.rs:497-500`), so the first Ctrl+Q after a
  series of moves goes to the dispatcher, which then closes the window; the second quits.
  `SecondQuitLeaves` states what holds.
- `distribute` (`layout.rs:691`) gives up after a number of turns that counts
  cells and children, not the children that can still give, so fitting a tree
  twice may differ from fitting it once.
- `PANE_MIN` is the floor of a cell, not of the subtree in it (`layout.rs:699`): on a
  terminal that shrinks, nested splits overlap. The properties of the
  layout are therefore about trees that are filled (`Exact`), and
  `FilledStaysFilled` says which steps keep them so.
- Closing a pane twice indexes a parent that may be gone (`layout.rs:430`); the
  cockpit closes only live panes, and so does the model.
- A banner that arrives in two reads is looked for in the first only
  (`follow.rs:345`), and its rest is observed.
- The join of the fourth finding is met in the cockpit too (`cockpit_app.rs:223`), where
  it stops the frames and keys of all panes: `DeadPanesGo` is conditional for it.
- The redactor normalises the whole text before it looks for an encoded secret
  (`gila_jupyter.rs:6163`), so an escape that the bytes before the secret make with its
  own first bytes hides it (`NoSecretByteShown`, `Apart`).
- The scanner compares lengths only (`gila_jupyter.rs:2634`): a log that was cut and has
  grown past the offset is read on from there.
- When a frame panics, the shell is dropped, and so joined, before the guard of the
  terminal (`main.rs:1343`): the terminal stays raw as long as a job holds the
  slave. `TerminalComesBack` is about the ways out that end.
- The literal prefix of cowork has no bytes for an arrow or a function key
  (`cowork.rs:261`), so such a prefix cannot be typed there; `S-Tab` can be bound but
  the terminal reports it as BackTab, which has no combination.
- Under the strategy Branch `git tend` goes on with the next step
  (`gila_git.rs:392`), where its comments (`:45`, `:393-394`) say that it stops. `shell_split` (`gila_git.rs:211`) accepts an unterminated
  quote, which the `shlex` it stands for refuses.
- `gila solve` records the digest of the profile from one read (`solve.rs:47`) and
  loads it with another (`:50`): edited in between, the digest is of another text.
  `ContractIsTrue` is about the configuration that was used.
- `cap config` keeps neither the global `venv`, `env` nor `tools` of the manifest it
  replaces (`capabilities.rs:262`), and `tools` and `env` of an entry are read and
  never applied.
- `execute` counts the code cells of the file as executed, those after
  the failing one included.
- `gila_pixi.rs:104` shows the operator a bootstrap decided from the parsed
  `[project]`, and `:115` modernises the text of it; the two can disagree.
- `setup_terminal` (`cowork.rs:743`) leaves raw mode on when entering the alternate
  screen fails, since the guard is armed after it; its comment (`:738-739`) says that the
  terminal is not left half-configured if either step fails. `TerminalComesBack` states
  what is left then.
- The Unix code sets the access of the private directories and compares no owner
  (`gila_jupyter.rs:1052-1062`): a privileged user may use one that is somebody else's,
  which `UsedIsPrivate` allows.

## 8. Limits and plan

Not modelled inside the modelled parts: the bytes of HTTP probes and the
identity check of a running server (a probe is a choice of its outcomes),
Windows handles and access lists (one step that closes a path), the text of chunks
and screens, UTF-8 at chunk ends, the kernel's input buffer of a pty (a
write that blocks the loop), crashes of the lifecycle from which no later
command can recover (a child without a record, a secret left in a container),
processes of a server that leave its process group, parsing (TOML, YAML, notebooks),
listings and templates. Commands that
only print a report have no behaviour to check.

The layout's sizes are integers in the model: that no sum of them leaves `u16`
is not stated (a terminal has at most a few thousand cells on a side).

How to run: `tlc -workers 2 -config MCCowork.cfg MCCowork`, and likewise for the others (the
module and configuration of each run are in `PROJECT.json`);
`tlapm JupyterRegistryProofs.tla`, and likewise for the other `*Proofs` modules.
