------------------------------- MODULE Follow -------------------------------
(***************************************************************************)
(* `gila follow`: TypescriptTail reads a file that script(1) appends to,   *)
(* the channel hands what it reads to the agent, and the loop of           *)
(* run_follow asks for a comment once the shell is quiet (follow.rs,       *)
(* main.rs).  script(1) and the turn run beside the loop.                  *)
(*                                                                         *)
(* The typescript is the number of bytes in it; the text of a read is the  *)
(* interval of positions it holds.  Its first Banner bytes are the line    *)
(* script(1) starts with, of which the first Magic are "Script started     *)
(* on"; Blanks are the positions that hold white space.  A typescript that *)
(* is truncated or rotated is out of scope, as the code says.              *)
(*                                                                         *)
(* Bounds: MaxBytes are written; a comment is given MaxPolls polls (1200   *)
(* in the code).                                                           *)
(***************************************************************************)
EXTENDS Naturals, Sequences

CONSTANTS
    MaxBytes, Banner, Magic, Blanks,
    MaxPolls

ASSUME BoundsAssumption ==
    /\ MaxBytes \in Nat /\ MaxPolls \in Nat \ {0}
    /\ Banner \in Nat /\ Magic \in Nat /\ (Banner = 0 \/ Magic \in 1 .. Banner)
    /\ Blanks \subseteq 1 .. MaxBytes

VARIABLES
    size,        \* bytes in the typescript, 0 also when there is no file
    offset,      \* TypescriptTail::offset
    stripped,    \* TypescriptTail::header_stripped
    len,         \* read_new: the length it found before it read
    pc,          \* where the loop is
    observed,    \* the chunks the agent was given, in order
    pending,     \* pending_since_comment
    turn,        \* the driver's turn
    polls        \* polls left to the comment

followVars == <<size, offset, stripped, len, pc, observed, pending, turn, polls>>
tailVars == <<offset, stripped, len>>

Position == 1 .. MaxBytes
Chunk == Position \X Position

-----------------------------------------------------------------------------
(* Reading.                                                                *)

\* Slip: the banner takes the rest of the first read with it.
StripHeaderAndMore(from, to) ==
    IF ~stripped /\ from = 1 /\ Banner > 0 /\ to >= Magic THEN to + 1 ELSE from

\* strip_script_header: where the text of a read begins once the banner is
\* taken off.  A banner without its newline leaves nothing.
StripHeader(from, to) ==
    IF ~stripped /\ from = 1 /\ Banner > 0 /\ to >= Magic
    THEN (IF to >= Banner THEN Banner ELSE to) + 1
    ELSE from

\* ObservationChannel::feed skips a chunk of nothing but white space.
Observable(from, to) == \E p \in from .. to : p \notin Blanks

FollowInit ==
    /\ size = 0 /\ offset = 0 /\ len = 0
    /\ stripped = FALSE
    /\ pc = "tick"
    /\ observed = <<>>
    /\ pending = FALSE
    /\ turn = "none"
    /\ polls = 0

\* script -F flushes what the shell wrote.
ScriptWrites ==
    /\ \E n \in size + 1 .. MaxBytes : size' = n
    /\ UNCHANGED <<tailVars, pc, observed, pending, turn, polls>>

\* No file, no growth, or an error on the way: next_chunk is None.
TickNothing ==
    /\ pc = "tick"
    /\ pc' = "idle"
    /\ UNCHANGED <<size, tailVars, observed, pending, turn, polls>>

TickStat ==
    /\ pc = "tick"
    /\ size > offset
    /\ len' = size
    /\ pc' = "read"
    /\ UNCHANGED <<size, offset, stripped, observed, pending, turn, polls>>

\* The read runs to the end of the file, which may be further by now than
\* `len`; `len` is where the next one starts.
TickRead ==
    /\ pc = "read"
    /\ offset' = len
    /\ stripped' = TRUE
    /\ LET from == StripHeader(offset + 1, size) IN
       \/ /\ Observable(from, size)
          /\ observed' = Append(observed, <<from, size>>)
          /\ pending' = TRUE
          /\ pc' = "tick"
       \/ ~Observable(from, size) /\ pc' = "idle" /\ UNCHANGED <<observed, pending>>
    /\ UNCHANGED <<size, len, turn, polls>>

\* The seek or the read fails; nothing was taken.
TickReadFails ==
    /\ pc = "read"
    /\ pc' = "idle"
    /\ UNCHANGED <<size, tailVars, observed, pending, turn, polls>>

-----------------------------------------------------------------------------
(* Commenting.                                                             *)

Sleep ==
    /\ pc = "idle" /\ ~pending
    /\ pc' = "tick"
    /\ UNCHANGED <<size, tailVars, observed, pending, turn, polls>>

\* Slip: the flag is not taken down.
StartCommentStaysPending ==
    /\ pc = "idle" /\ pending
    /\ pending' = pending
    /\ turn' = "running" /\ polls' = MaxPolls
    /\ pc' = IF turn = "none" THEN "comment" ELSE "ended"
    /\ UNCHANGED <<size, tailVars, observed>>

\* drive_comment submits the nudge.  A driver that still has a turn refuses
\* it, and the error ends the loop.
StartComment ==
    /\ pc = "idle" /\ pending
    /\ pending' = FALSE
    /\ turn' = "running" /\ polls' = MaxPolls
    /\ pc' = IF turn = "none" THEN "comment" ELSE "ended"
    /\ UNCHANGED <<size, tailVars, observed>>

\* A turn that came to an end is taken by the poll that sees it.
PollEnded ==
    /\ pc = "comment" /\ polls > 0
    /\ turn = "over"
    /\ turn' = "none"
    /\ pc' = "tick"
    /\ UNCHANGED <<size, tailVars, observed, pending, polls>>

PollRunning ==
    /\ pc = "comment" /\ polls > 0
    /\ turn = "running"
    /\ polls' = polls - 1
    /\ UNCHANGED <<size, tailVars, pc, observed, pending, turn>>

\* Slip: the turn is left to run.
GiveUpQuietly ==
    /\ pc = "comment" /\ polls = 0
    /\ turn' = turn
    /\ pc' = "tick"
    /\ UNCHANGED <<size, tailVars, observed, pending, polls>>

\* The budget is spent; the turn is cancelled, whether or not it has ended
\* since the last poll.
GiveUp ==
    /\ pc = "comment" /\ polls = 0
    /\ turn' = "none"
    /\ pc' = "tick"
    /\ UNCHANGED <<size, tailVars, observed, pending, polls>>

\* The backend answers, or fails; it may also never do either.
TurnEnds ==
    /\ turn = "running"
    /\ turn' = "over"
    /\ UNCHANGED <<size, tailVars, pc, observed, pending, polls>>

LoopStep ==
    \/ TickNothing \/ TickStat \/ TickRead \/ TickReadFails
    \/ Sleep \/ StartComment \/ PollEnded \/ PollRunning \/ GiveUp

FollowNext == LoopStep \/ ScriptWrites \/ TurnEnds

FollowSpec == FollowInit /\ [][FollowNext]_followVars

\* The loop sleeps for a bounded time and never waits on the shell or the
\* backend.  The file system does not fail for ever: a read that is tried
\* again and again succeeds again and again.
TailFairness ==
    WF_followVars(LoopStep) /\ SF_followVars(TickStat) /\ SF_followVars(TickRead)

-----------------------------------------------------------------------------
(* Properties.                                                             *)

\* Every variable keeps its shape, and the tail is never ahead of the file.
FollowTypeOK ==
    /\ size \in 0 .. MaxBytes
    /\ offset <= len /\ len <= size
    /\ stripped \in BOOLEAN /\ pending \in BOOLEAN
    /\ pc \in {"tick", "read", "idle", "comment", "ended"}
    /\ \A i \in 1 .. Len(observed) : observed[i] \in Chunk
    /\ turn \in {"none", "running", "over"}
    /\ polls \in 0 .. MaxPolls

\* Whatever was appended while the tail was between its steps, no visible
\* byte of shell activity before `offset` was kept from the agent.
NothingMissed ==
    \A p \in (Banner + 1) .. offset :
        p \notin Blanks =>
            \E i \in 1 .. Len(observed) :
                p \in observed[i][1] .. observed[i][2]

\* The loop never trips over its own turn: an abandoned comment leaves the
\* driver free for the next one.
LoopNeverEnds == pc # "ended"

\* Activity is commented on once the shell falls quiet: every visible byte
\* written reaches the agent, and a comment is asked for after it did.
ActivityIsCommented ==
    \A p \in Position :
        (p \notin Blanks /\ p > Banner /\ p \in offset + 1 .. size)
            ~> (pc = "comment" /\ p <= offset)

\* The agent falls silent when the shell does: no comment is asked for over
\* activity that was commented on.
FallsSilent == <>[](pc # "comment")

\* A comment follows activity, and only activity.
CommentsFollowActivity == ActivityIsCommented /\ FallsSilent

\* TypescriptTail's comment: next_chunk "reads everything appended since the
\* last read", "without re-reading": no position is observed twice.
ObservedOnce ==
    \A i, j \in 1 .. Len(observed) :
        i < j => observed[i][2] < observed[j][1]
=============================================================================
