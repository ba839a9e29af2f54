----------------------------- MODULE JupyterLog -----------------------------
(***************************************************************************)
(* The durable log of a starting Jupyter server (gila_jupyter.rs): how     *)
(* create_start_log makes it and opens its handles, how                    *)
(* IncrementalLogScanner reads it while the child appends to it, and what  *)
(* of it a failed start shows, with the secrets taken out.                 *)
(*                                                                         *)
(* Beside it runs the child, which appends through two O_APPEND handles,   *)
(* and the log rotation an operator may have: it may move the path away    *)
(* before it is opened, or cut the file while it is read.  A byte is a     *)
(* member of Bytes; files are numbered by their inodes, and the name drawn *)
(* for the log may be taken.  A pattern stands for one representation of a *)
(* secret; one with a percent sign is looked for in the text after the     *)
(* digits of every escape in it were put in lower case.                    *)
(*                                                                         *)
(* The scanner cannot tell a file that was cut and grew past its offset    *)
(* again from one that only grew: it reads on at its offset.  `heard` is   *)
(* all it read since it started afresh, from whichever file, and `crossed` *)
(* the offset at which the last such cut passed it by.                     *)
(*                                                                         *)
(* Bound: MaxBytes are written, those a cut takes included.  The five caps *)
(* stand for 16 names, 4 KiB, 64 KiB, 1024 lines and 8 KiB of the code.    *)
(***************************************************************************)
EXTENDS Naturals, Sequences, FiniteSets

CONSTANTS
    Bytes,         \* what the child writes
    Newline, Return, Percent,
    Lower,         \* a hexadecimal digit -> the digit in lower case
    Patterns,      \* representations of the secrets of this start
    Attempts,      \* START_LOG_CREATE_ATTEMPTS
    ChunkSize,     \* LOG_SCAN_CHUNK_SIZE
    PollBytes,     \* LOG_SCAN_POLL_BYTE_CAP
    PollLines,     \* LOG_SCAN_POLL_LINE_CAP
    PartialCap,    \* LOG_PARTIAL_LINE_CAP
    VisibleCap,    \* LOG_DIAGNOSTIC_TAIL_CAP
    OverlapCap,    \* LOG_REDACTION_OVERLAP_CAP
    MaxBytes

\* normalize_percent_hex_nibbles: a percent sign and two digits, wherever
\* they stand.  Escapes do not overlap, so the scan finds them all.
Escape(text, q) ==
    /\ q + 2 <= Len(text)
    /\ text[q] = Percent /\ {text[q + 1], text[q + 2]} \subseteq DOMAIN Lower
InEscape(text, i) ==
    \E q \in 1 .. Len(text) : Escape(text, q) /\ i \in {q + 1, q + 2}
Normalized(text) ==
    [i \in 1 .. Len(text) |-> IF InEscape(text, i) THEN Lower[text[i]] ELSE text[i]]

Encoded(pattern) == \E i \in 1 .. Len(pattern) : pattern[i] = Percent

\* secret_representations drops the empty ones; validate_auth_input bounds a
\* secret by a third of the overlap, and none of them is more than three times
\* as long.  DiagnosticSecretRedactor::new normalises the encoded ones.
ASSUME CapsAssumption ==
    /\ {ChunkSize, PollBytes, PollLines, PartialCap, VisibleCap, OverlapCap} \subseteq Nat
    /\ \A p \in Patterns : /\ p \in Seq(Bytes \cup {Lower[d] : d \in DOMAIN Lower})
                           /\ Len(p) \in 1 .. OverlapCap
                           /\ Encoded(p) => Normalized(p) = p
    /\ Percent \notin DOMAIN Lower

VARIABLES
    place,      \* what the start is doing with its log
    attempt,    \* names that were taken, until one is not
    inode,      \* the file the log's path leads to, 0 if none
    handles,    \* files behind the handles opened so far
    opening,    \* the file behind the handle being opened, 0 if none
    bytes,      \* what the created file holds
    lost,       \* bytes the cuts of the file took
    heard,      \* what the scanner read since it started afresh
    crossed,    \* the offset at the last cut since then, 0 if there was none
    offset,     \* IncrementalLogScanner::offset
    partial,    \* partial_line
    long,       \* partial_line_truncated
    tail,       \* diagnostic_tail
    left,       \* poll_lines: bytes_available
    done,       \* poll_lines: bytes_processed
    found,      \* poll_lines: the lines of this poll
    given       \* lines handed out since the scanner started afresh

creation == <<attempt, inode, handles, opening>>
scanner  == <<offset, partial, long, tail>>
poll     == <<left, done, found, given>>
ghosts   == <<heard, crossed>>
logVars  == <<place, creation, bytes, lost, ghosts, scanner, poll>>

CreatedFile   == 1
RetainCap == VisibleCap + OverlapCap
Least(a, b) == IF a < b THEN a ELSE b
Ending(s, n)  == SubSeq(s, Len(s) - Least(n, Len(s)) + 1, Len(s))

LogInit ==
    /\ place = "create" /\ attempt = 0 /\ inode = 0
    /\ handles = <<>> /\ opening = 0
    /\ bytes = <<>> /\ lost = 0 /\ heard = <<>> /\ crossed = 0
    /\ offset = 0 /\ partial = <<>> /\ long = FALSE /\ tail = <<>>
    /\ left = 0 /\ done = 0 /\ found = <<>> /\ given = <<>>

-----------------------------------------------------------------------------
(* Making the log.                                                         *)

\* create_new refuses a name that is taken; another is drawn.
LogNameTaken ==
    /\ place = "create"
    /\ attempt' = attempt + 1
    /\ place' = IF attempt + 1 = Attempts THEN "failed" ELSE "create"
    /\ UNCHANGED <<inode, handles, opening, bytes, lost, ghosts, scanner, poll>>

Create ==
    /\ place = "create"
    /\ inode' = CreatedFile /\ attempt' = 0
    /\ place' = "look"
    /\ UNCHANGED <<handles, opening, bytes, lost, ghosts, scanner, poll>>

\* validate_log_path before the open: the path leads to the file created.
LookBefore ==
    /\ place = "look"
    /\ place' = IF inode = CreatedFile THEN "open" ELSE "failed"
    /\ UNCHANGED <<creation, bytes, lost, ghosts, scanner, poll>>

Open ==
    /\ place = "open"
    /\ opening' = inode
    /\ place' = IF inode = 0 THEN "failed" ELSE "check"
    /\ UNCHANGED <<attempt, inode, handles, bytes, lost, ghosts, scanner, poll>>

\* Slip: the path is looked at again, the handle is not.
CheckPathOnly ==
    /\ place = "check"
    /\ IF inode = CreatedFile
       THEN /\ handles' = Append(handles, opening)
            /\ place' = IF Len(handles) = 2 THEN "poll" ELSE "look"
       ELSE place' = "failed" /\ UNCHANGED handles
    /\ opening' = 0
    /\ UNCHANGED <<attempt, inode, bytes, lost, ghosts, scanner, poll>>

\* validate_opened_log: the handle is the created file's, and the path still
\* leads there.  The third handle is the one the scanner reads.
CheckOpened ==
    /\ place = "check"
    /\ IF opening = CreatedFile /\ inode = CreatedFile
       THEN /\ handles' = Append(handles, opening)
            /\ place' = IF Len(handles) = 2 THEN "poll" ELSE "look"
       ELSE place' = "failed" /\ UNCHANGED handles
    /\ opening' = 0
    /\ UNCHANGED <<attempt, inode, bytes, lost, ghosts, scanner, poll>>

\* The path is renamed away, given to another file, or given back.
PathMoves ==
    /\ place \in {"look", "open", "check"}
    /\ \E file \in 0 .. 2 : file # inode /\ inode' = file
    /\ UNCHANGED <<place, attempt, handles, opening, bytes, lost, ghosts, scanner, poll>>

-----------------------------------------------------------------------------
(* Writing the log.                                                        *)

ChildWrites ==
    /\ place \in {"poll", "reading"} /\ lost + Len(bytes) < MaxBytes
    /\ \E b \in Bytes : bytes' = Append(bytes, b)
    /\ UNCHANGED <<place, creation, lost, ghosts, scanner, poll>>

\* The file is cut at its beginning, as rotation by copying does it; O_APPEND
\* carries on at the new end.
Cut ==
    /\ place \in {"poll", "reading"} /\ bytes # <<>>
    /\ bytes' = <<>>
    /\ lost' = lost + Len(bytes)
    /\ crossed' = offset
    /\ UNCHANGED <<place, creation, heard, scanner, poll>>

-----------------------------------------------------------------------------
(* Reading it: poll_lines.                                                 *)

\* Slip: a file that shrank is taken for one that did not grow.
PollBeginsNeverAfresh ==
    /\ place = "poll"
    /\ UNCHANGED <<scanner, given, ghosts>>
    /\ left' = IF Len(bytes) < offset THEN 0 ELSE Len(bytes) - offset
    /\ done' = 0 /\ found' = <<>>
    /\ place' = "reading"
    /\ UNCHANGED <<creation, bytes, lost>>

\* The length is taken once; a file shorter than the offset was cut, and is
\* read from its beginning.  One that grew past the offset again looks whole:
\* its bytes up to there are never read.
PollBegins ==
    /\ place = "poll"
    /\ IF Len(bytes) < offset
       THEN /\ offset' = 0 /\ partial' = <<>> /\ long' = FALSE /\ tail' = <<>>
            /\ given' = <<>> /\ heard' = <<>> /\ crossed' = 0
            /\ left' = Len(bytes)
       ELSE /\ UNCHANGED <<scanner, given, ghosts>>
            /\ left' = Len(bytes) - offset
    /\ done' = 0 /\ found' = <<>>
    /\ place' = "reading"
    /\ UNCHANGED <<creation, bytes, lost>>

\* consume_appended_bytes stops behind the newline that spends the budget.
Breaks(text) == {i \in 1 .. Len(text) : text[i] = Newline}
Nth(places, n) == CHOOSE i \in places : Cardinality({j \in places : j <= i}) = n
Consumed(chunk, budget) ==
    IF Cardinality(Breaks(chunk)) < budget THEN Len(chunk)
    ELSE Nth(Breaks(chunk), budget)

\* A finished line loses a carriage return; the flag says that its beginning
\* was lost (the prefix "[...truncated...] ").
FinishLine(line, cut) ==
    <<cut, IF line # <<>> /\ line[Len(line)] = Return
           THEN SubSeq(line, 1, Len(line) - 1) ELSE line>>

\* Slip: a line that overflows the cap is not marked.
TakeByteUnmarked(s, b) ==
    IF b = Newline
    THEN [partial |-> <<>>, long |-> FALSE,
          lines |-> Append(s.lines, FinishLine(s.partial, s.long))]
    ELSE [s EXCEPT !.partial = Ending(Append(@, b), PartialCap)]

\* retain_partial_suffix and the end of a line, one byte at a time: a chunk
\* is shorter than the cap.
TakeByte(s, b) ==
    IF b = Newline
    THEN [partial |-> <<>>, long |-> FALSE,
          lines |-> Append(s.lines, FinishLine(s.partial, s.long))]
    ELSE [s EXCEPT !.partial = Ending(Append(@, b), PartialCap),
                   !.long = @ \/ Len(s.partial) = PartialCap]

Taken(chunk) ==
    LET after[i \in 0 .. Len(chunk)] ==
            IF i = 0 THEN [partial |-> partial, long |-> long, lines |-> found]
            ELSE TakeByte(after[i - 1], chunk[i])
    IN  after[Len(chunk)]

\* Slip: only what is shown is kept.
RetainVisible(chunk) == Ending(tail \o chunk, VisibleCap)

Retain(chunk) == Ending(tail \o chunk, RetainCap)

PollOver == left = 0 \/ done >= PollBytes \/ Len(found) >= PollLines

EndPoll(lines) ==
    /\ given' = given \o lines
    /\ place' = "poll" /\ left' = 0 /\ done' = 0 /\ found' = <<>>

\* One read of at most a chunk; it may return less than it was asked for,
\* and nothing where the file was cut behind the scanner's back.
ReadChunk ==
    /\ place = "reading" /\ ~PollOver
    /\ offset < Len(bytes)
    /\ \E n \in 1 .. Least(Least(left, ChunkSize), PollBytes - done) :
         /\ offset + n <= Len(bytes)
         /\ LET chunk == SubSeq(bytes, offset + 1, offset + n)
                used  == Consumed(chunk, PollLines - Len(found))
                taken == Taken(SubSeq(chunk, 1, used))
            IN /\ partial' = taken.partial /\ long' = taken.long
               /\ tail' = Retain(SubSeq(chunk, 1, used))
               /\ offset' = offset + used
               /\ heard' = heard \o SubSeq(chunk, 1, used)
               /\ IF used < n
                  THEN EndPoll(taken.lines)
                  ELSE /\ left' = left - used /\ done' = done + used
                       /\ found' = taken.lines
                       /\ UNCHANGED <<place, given>>
    /\ UNCHANGED <<creation, bytes, lost, crossed>>

PollEnds ==
    /\ place = "reading" /\ (PollOver \/ offset >= Len(bytes))
    /\ EndPoll(found)
    /\ UNCHANGED <<creation, bytes, lost, ghosts, scanner>>

\* The read fails: the lines of this poll are lost, and the start fails.
ReadFails ==
    /\ place = "reading" /\ ~PollOver
    /\ place' = "failed"
    /\ UNCHANGED <<creation, bytes, lost, ghosts, scanner, poll>>

ScannerStep == PollBegins \/ ReadChunk \/ PollEnds
LogStep == LogNameTaken \/ Create \/ LookBefore \/ Open \/ CheckOpened \/ ReadFails
LogNext == LogStep \/ ScannerStep \/ PathMoves \/ ChildWrites \/ Cut

LogSpec == LogInit /\ [][LogNext]_logVars

\* A start polls until it ends, and a poll takes bounded work.
LogFairness == WF_logVars(ScannerStep)

-----------------------------------------------------------------------------
(* Showing it: redacted_log_tail.                                          *)

\* Slip: an escape is looked for in the case the text has it in.
AsReadRaw(text, pattern) == text

\* A text as the redactor reads it when it looks for a pattern.
AsReadFor(text, pattern) == IF Encoded(pattern) THEN Normalized(text) ELSE text

Matches(text, pattern, i) ==
    /\ i >= 1 /\ i + Len(pattern) - 1 <= Len(text)
    /\ SubSeq(AsReadFor(text, pattern), i, i + Len(pattern) - 1) = pattern

\* match_indices: from the left, none overlapping the one before.
Found(text, pattern) ==
    LET from[i \in 1 .. Len(text) + 1] ==
            IF i + Len(pattern) > Len(text) + 1 THEN {}
            ELSE IF Matches(text, pattern, i)
                 THEN {i} \cup from[i + Len(pattern)]
                 ELSE from[i + 1]
    IN from[1]

\* redact_from merges the matches: a position is hidden by any of them.
Hidden(text) ==
    {k \in 1 .. Len(text) : \E p \in Patterns : \E i \in Found(text, p) :
                               k \in i .. i + Len(p) - 1}

\* The positions of the tail that are shown as they are: the matches are
\* looked for in all that was retained, the last VisibleCap are shown.
\* bounded_text may take more away.
Shown == {i \in 1 .. Len(tail) : i > Len(tail) - Least(VisibleCap, Len(tail))} \ Hidden(tail)

-----------------------------------------------------------------------------
(* Properties.                                                             *)

\* create_handles: whatever is done to the path meanwhile, the handles the
\* child writes and the one the scanner reads are one file, the one created.
HandlesAreOneFile == \A i \in 1 .. Len(handles) : handles[i] = CreatedFile

\* The lines of a text by the definition: between newlines, at most the last
\* PartialCap bytes, marked when that is not all.
LinesOf(text) ==
    LET end(k)  == IF k = 0 THEN 0 ELSE Nth(Breaks(text), k)
        line(k) == SubSeq(text, end(k - 1) + 1, end(k) - 1)
    IN [k \in 1 .. Cardinality(Breaks(text)) |->
          FinishLine(Ending(line(k), PartialCap), Len(line(k)) > PartialCap)]

\* poll_lines: "Read only bytes appended since the prior poll and return
\* newly completed lines".  Across chunks, budgets, short reads and cuts,
\* every line of what was read is handed out once, in order and whole up to
\* the cap, and the diagnostic tail is what comes last.  What was read is the
\* file from its beginning on, without a gap, or, when a cut went unnoticed,
\* from where the cut was crossed on: the bytes of the new file before that
\* place are never read, and a line that reaches over it is of two files.
LogIsReadOnce ==
    place \in {"poll", "reading"} =>
        /\ given \o found = LinesOf(heard)
        /\ tail = Ending(heard, RetainCap)
        /\ Len(heard) = offset
        /\ \A i \in crossed + 1 .. offset : heard[i] = bytes[i]

\* A secret was read at k: a pattern of it, in which the digits of an escape
\* may be in either case.
SecretAt(p, k) ==
    /\ k + Len(p) - 1 <= Len(heard)
    /\ \A m \in 1 .. Len(p) :
          LET b == heard[k + m - 1]
          IN  b = p[m] \/ (InEscape(p, m) /\ b \in DOMAIN Lower /\ Lower[b] = p[m])

\* No byte of an encoded secret at k has become a digit of an escape with the
\* bytes beside it, or none that this changes.
Apart(p, k) ==
    Encoded(p) => \A m \in 1 .. Len(p) :
        InEscape(heard, k + m - 1) /\ ~InEscape(p, m) => Lower[p[m]] = p[m]

\* The overlap the redactor is given is enough: of a secret that was read not
\* one byte is shown, also where it begins before what is shown, and in
\* whichever case the digits of its escapes were written.  Three exceptions,
\* all the code's: of two that overlap in the retained text match_indices
\* finds the first; an encoded secret is not known where its own first or
\* last bytes make an escape with the bytes beside it ("%AB%2F" is read as
\* "%ab%2f", in which the pattern "AB%2f" does not occur); and of a secret
\* that begins in the part of a file a cut left unread, the rest is not known
\* for one.
NoSecretByteShown ==
    place \in {"poll", "reading"} =>
        LET before == offset - Len(tail) IN
        \A p \in Patterns, k \in 1 .. offset :
            /\ SecretAt(p, k) /\ Apart(p, k)
            /\ \A j \in 1 .. k - 1 : j + Len(p) > k => ~Matches(tail, p, j - before)
            => \A i \in Shown : before + i \notin k .. k + Len(p) - 1

\* The start reads its child's log: that file, and what it reads of it once;
\* and of what it shows when it fails it has taken the secrets it read.
LogIsTrue == HandlesAreOneFile /\ LogIsReadOnce /\ NoSecretByteShown

\* A log that stops changing is read to its end, cut or not.
ScannerCatchesUp ==
    (place = "poll") ~> (place = "failed" \/ offset = Len(bytes))

=============================================================================
