----------------------------- MODULE NoteFiles -----------------------------
(***************************************************************************)
(* The commands that keep a markdown file of the operator's: `gila todos`  *)
(* and `gila ideas` add a line, `gila todos --done N` rewrites the file,   *)
(* `gila daily`, `meeting`, `top5`, `standup` and `log prompt create` make *)
(* the note of a day if there is none, `gila prompt create` refuses if     *)
(* there is one.  Each runs in a process of its own, may die or fail at    *)
(* any step, and takes no lock; the operator edits the file as well.       *)
(*                                                                         *)
(* fs::write truncates and then writes from the start; a file is the       *)
(* sequence of its lines: the header (or template), the todos, the         *)
(* operator's notes.                                                       *)
(*                                                                         *)
(* Bound: the operator edits MaxNotes times.                               *)
(***************************************************************************)
EXTENDS Naturals, Sequences, FiniteSets

CONSTANTS
    Commands,      \* the processes
    Kinds,         \* what they run: "done", or a command of Plan
    Bodies,        \* what the file may hold at first
    Absent,
    MaxNotes

VARIABLES
    kind, nth,     \* the command of each process, the todo --done names
    step,          \* look, truncate, write, append, end, failed
    body,          \* the file
    seen, text,    \* what a process found there, what it is to write
    promised,      \* lines a command, or the editor, said are there
    stale,         \* processes that wrote over what they had not seen
    torn           \* a process died between truncating and writing

noteVars == <<kind, nth, step, body, seen, text, promised, stale, torn>>

Header == [by |-> "header", open |-> FALSE]
Todo(c) == [by |-> c, open |-> TRUE]
Note == [by |-> "note", open |-> FALSE]

\* What the file holds at first is a notes file of this kind, or none; a
\* process is not one of the two other authors.
Authors ==
    Commands \cup {"header", "note"}
        \cup UNION {{file[i].by : i \in DOMAIN file} : file \in Bodies \ {Absent}}
Lines == [by : Authors, open : BOOLEAN] \ {[by |-> "header", open |-> TRUE]}

ASSUME NotesAssumption ==
    /\ Absent \notin Seq(Lines)
    /\ Bodies \subseteq Seq(Lines) \cup {Absent}
    /\ \A file \in Bodies \ {Absent} : \A i \in DOMAIN file : file[i] = Header => i = 1
    /\ Commands \cap {"header", "note"} = {}

NoteInit ==
    /\ kind \in [Commands -> Kinds] /\ nth \in [Commands -> 0 .. 2]
    /\ \A c \in Commands : kind[c] # "done" => nth[c] = 0
    /\ step = [c \in Commands |-> "look"]
    /\ body \in Bodies
    /\ seen = [c \in Commands |-> Absent] /\ text = [c \in Commands |-> <<>>]
    /\ promised = {} /\ stale = {} /\ torn = FALSE

Text(file) == IF file = Absent THEN <<>> ELSE file

\* The open todos, and the n-th of them.
OpenUpTo(lines, i) == {j \in 1 .. i : lines[j].open}
IsNthOpen(lines, i, n) == lines[i].open /\ Cardinality(OpenUpTo(lines, i)) = n

\* Slip: the other lines are left out of the new text.
OnlyTheMarked(lines, n) ==
    IF \E i \in DOMAIN lines : IsNthOpen(lines, i, n)
    THEN << [lines[CHOOSE i \in DOMAIN lines : IsNthOpen(lines, i, n)] EXCEPT !.open = FALSE] >>
    ELSE <<>>

\* mark_done: every line, the n-th open one marked.
MarkDone(lines, n) ==
    [i \in DOMAIN lines |->
        [lines[i] EXCEPT !.open = @ /\ ~IsNthOpen(lines, i, n)]]

\* What each command goes on to do when its file is not there, and when it is.
AddTodo     == [absent |-> "truncate", present |-> "append"]
AppendIdea  == [absent |-> "truncate", present |-> "append"]
DailyNote   == [absent |-> "truncate", present |-> "end"]
StatusNote  == [absent |-> "truncate", present |-> "end"]
MeetingNote == [absent |-> "truncate", present |-> "end"]
PromptLog   == [absent |-> "truncate", present |-> "end"]
NewPrompt   == [absent |-> "truncate", present |-> "failed"]
Plan ==
    [todos |-> AddTodo, ideas |-> AppendIdea, daily |-> DailyNote,
     status |-> StatusNote, meeting |-> MeetingNote, log |-> PromptLog,
     prompt |-> NewPrompt]

ASSUME KindsAssumption == Kinds \subseteq DOMAIN Plan \cup {"done"}

\* exists() of every command but --done, which reads, and fails on a number
\* that is out of range.
Look(c) ==
    /\ step[c] = "look"
    /\ seen' = [seen EXCEPT ![c] = body]
    /\ IF kind[c] = "done"
       THEN /\ text' = [text EXCEPT ![c] = MarkDone(Text(body), nth[c])]
            /\ step' = [step EXCEPT ![c] =
                 IF nth[c] \in 1 .. Cardinality(OpenUpTo(Text(body), Len(Text(body))))
                 THEN "truncate" ELSE "failed"]
       ELSE /\ text' = [text EXCEPT ![c] = <<Header>>]
            /\ step' = [step EXCEPT ![c] =
                 IF body = Absent THEN Plan[kind[c]].absent ELSE Plan[kind[c]].present]
    /\ UNCHANGED <<kind, nth, body, promised, stale, torn>>

\* fs::write, first half.
Truncate(c) ==
    /\ step[c] = "truncate"
    /\ stale' = IF body = seen[c] THEN stale ELSE stale \cup {c}
    /\ body' = <<>>
    /\ step' = [step EXCEPT ![c] = "write"]
    /\ UNCHANGED <<kind, nth, seen, text, promised, torn>>

\* Second half, over whatever is there by now.
Written(c) == text[c] \o SubSeq(Text(body), Len(text[c]) + 1, Len(Text(body)))

\* What --done promises: the line it marked.
MarkedLine(c) ==
    {text[c][i] : i \in {j \in DOMAIN text[c] : IsNthOpen(Text(seen[c]), j, nth[c])}}

Write(c) ==
    /\ step[c] = "write"
    /\ stale' = IF body = <<>> THEN stale ELSE stale \cup {c}
    /\ body' = Written(c)
    /\ step' = [step EXCEPT ![c] = IF kind[c] \in {"todos", "ideas"}
                                     THEN "append" ELSE "end"]
    /\ promised' = IF kind[c] = "done"
                   THEN {line \in promised :
                           line.open => \A m \in MarkedLine(c) : m.by # line.by}
                        \cup MarkedLine(c)
                   ELSE promised
    /\ UNCHANGED <<kind, nth, seen, text, torn>>

\* The line goes to the end, wherever that is.
AppendLine(c) ==
    /\ step[c] = "append"
    /\ body' = Append(Text(body), Todo(c))
    /\ promised' = promised \cup {Todo(c)}
    /\ step' = [step EXCEPT ![c] = "end"]
    /\ UNCHANGED <<kind, nth, seen, text, stale, torn>>

Fail(c) ==
    /\ step[c] \notin {"end", "failed"}
    /\ torn' = (torn \/ step[c] = "write")
    /\ step' = [step EXCEPT ![c] = "failed"]
    /\ UNCHANGED <<kind, nth, body, seen, text, promised, stale>>

\* The operator's editor replaces the file at once.
EditNote ==
    /\ body # Absent
    /\ Cardinality({i \in DOMAIN body : body[i] = Note}) < MaxNotes
    /\ body' = Append(body, Note)
    /\ promised' = promised \cup {Note}
    /\ UNCHANGED <<kind, nth, step, seen, text, stale, torn>>

CommandStep(c) == Look(c) \/ Truncate(c) \/ Write(c) \/ AppendLine(c) \/ Fail(c)

NoteNext == EditNote \/ \E c \in Commands : CommandStep(c)

NoteSpec == NoteInit /\ [][NoteNext]_noteVars

-----------------------------------------------------------------------------
(* Properties.                                                             *)

\* The commands take turns at the file without a lock, and that is enough
\* unless one writes over what it had not seen, or dies in its fs::write:
\* what was captured, marked done or written by hand stays in the file, and
\* the header stays on top.
NotesAreKept ==
    stale = {} /\ ~torn /\ (\A c \in Commands : step[c] # "write") =>
        /\ \A line \in promised : \E i \in DOMAIN Text(body) : body[i] = line
        /\ \A i \in DOMAIN Text(body) : body[i] = Header => i = 1

=============================================================================
