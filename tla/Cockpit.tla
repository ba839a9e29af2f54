------------------------------ MODULE Cockpit ------------------------------
(***************************************************************************)
(* `gila cockpit`: the pure model of tabs and panes (cockpit.rs), the live *)
(* backends it is kept in step with (cockpit_app.rs, pane_backend.rs) and  *)
(* the frame loop of main.rs that drives both.  The loop is one thread;    *)
(* what runs beside it are the programs in the shell panes, which exit and *)
(* print at any moment and may leave a job that holds the slave of their   *)
(* pty open.  A pane that is closed takes its PtyShell with it, whose Drop *)
(* kills the shell and joins the reader in the loop's own thread: the loop *)
(* stands still until no job holds that slave (PtyShell has the detail).   *)
(*                                                                         *)
(* A PaneId is local to its tab and starts at 0 in every tab; a PaneToken  *)
(* names a pane for the life of the cockpit, and the backends are keyed by *)
(* it.  The cockpit splits along one axis only, so the layout of a tab is  *)
(* the sequence of its panes from top to bottom.  Whether there is room    *)
(* for one more, and which panes a small terminal clips away, are choices  *)
(* here and arithmetic in LayoutTree.                                      *)
(*                                                                         *)
(* Bound: MaxTokens pane tokens are handed out (the code's u64 has no      *)
(* practical end).                                                         *)
(***************************************************************************)
EXTENDS Naturals, FiniteSets, Sequences, SequencesExt

CONSTANTS
    MaxTokens,   \* bound: tokens ever allocated
    Areas,       \* rectangles a frame may give a pane
    Chatters,    \* tokens whose shell may print
    NoZoom       \* the zoom of a tab that shows all its panes

ASSUME BoundsAssumption == MaxTokens \in Nat \ {0} /\ Areas # {}
ASSUME NoZoomAssumption == NoZoom \notin Nat

VARIABLES
    tabs,        \* Cockpit::tabs, in order
    active,      \* Cockpit::active, counted from 1
    nextToken,   \* Cockpit::next_token
    backends,    \* CockpitApp::backends: token -> backend
    quit,        \* CockpitApp::quit
    pc,          \* the step of the frame loop about to run
    frame,       \* frame_areas: token -> area drawn, until it is used
    lastAreas,   \* last_areas: token -> area last handed to the backend
    dead,        \* reap_closed: the dead panes still to close
    operator,    \* reap_closed: operator_token (0 outside a reaping)
    unread,      \* token -> frames its buffered output has waited
    closing,     \* ptys apply() has still to drop; the first is being joined
    held         \* a job has the slave of that first one open

vars == <<tabs, active, nextToken, backends, quit, pc, frame, lastAreas,
          dead, operator, unread, closing, held>>
model == <<tabs, active, nextToken, backends>>
drops == <<closing, held>>

Unsized == "spawned"      \* the size a pty is spawned at

Steps == {"tick", "draw", "resize", "input", "drain", "reap", "reaping"}
Tokens == 0 .. MaxTokens

-----------------------------------------------------------------------------
(* The model: tabs, panes, focus, zoom.                                    *)

\* A tab that holds one companion chat, pane 0.
NewTab(token) ==
    [panes |-> <<0>>, role |-> [p \in {0} |-> "chat"],
     token |-> [p \in {0} |-> token], focused |-> 0, zoom |-> NoZoom,
     nextPane |-> 1]

Tab == tabs[active]
TokensOf(tab) == {tab.token[p] : p \in DOMAIN tab.token}
FocusedToken == Tab.token[Tab.focused]
Position(tab, pane) == CHOOSE i \in 1 .. Len(tab.panes) : tab.panes[i] = pane
Without(f, x) == [y \in DOMAIN f \ {x} |-> f[y]]
With(f, x, v) == [y \in DOMAIN f \cup {x} |-> IF y = x THEN v ELSE f[y]]

\* The new pane follows the focused one and takes the focus; a zoom that
\* was in force is put back on the pane it was on.
SplitTab(tab, token) ==
    LET new == tab.nextPane IN
    [panes |-> InsertAt(tab.panes, Position(tab, tab.focused) + 1, new),
     role |-> With(tab.role, new, "shell"), token |-> With(tab.token, new, token),
     focused |-> new, zoom |-> tab.zoom, nextPane |-> new + 1]

\* Slip: the zoom is not looked at.
CloseInZoomStays(tab, victim) ==
    LET left == RemoveAt(tab.panes, Position(tab, victim)) IN
    [tab EXCEPT !.panes = left, !.role = Without(@, victim),
                !.token = Without(@, victim), !.focused = left[1]]

\* The zoom survives unless its pane is the victim; the first pane left has
\* the focus.
CloseIn(tab, victim) ==
    LET left == RemoveAt(tab.panes, Position(tab, victim)) IN
    [panes |-> left, role |-> Without(tab.role, victim),
     token |-> Without(tab.token, victim), focused |-> left[1],
     zoom |-> IF tab.zoom = victim THEN NoZoom ELSE tab.zoom,
     nextPane |-> tab.nextPane]

SetTab(tab) == tabs' = [tabs EXCEPT ![active] = tab]

-----------------------------------------------------------------------------
(* The backends behind the tokens.                                         *)

Chat == [kind |-> "chat", alive |-> TRUE, exited |-> FALSE, size |-> Unsized]
Pty == [kind |-> "pty", alive |-> TRUE, exited |-> FALSE, size |-> Unsized]
Failed == [kind |-> "failed", alive |-> TRUE, exited |-> FALSE, size |-> Unsized]

\* `is_closed` asks the child once more and remembers that it has gone.
Ticked(b) == [b EXCEPT !.exited = @ \/ (b.kind = "pty" /\ ~b.alive)]
IsClosed(b) == Ticked(b).exited

\* `resize` reaches a pty and is ignored by the other backends.
Resized(b, area) == [b EXCEPT !.size = IF b.kind = "pty" THEN area ELSE @]

TickTokens(ts) ==
    [t \in DOMAIN backends |->
        IF t \in ts THEN Ticked(backends[t]) ELSE backends[t]]

Drop(bs, ts) == [t \in DOMAIN bs \ ts |-> bs[t]]

\* Dropping a pty is a wait.  Whether a job of its shell has the slave open
\* is looked at only there, so it is chosen there.
Dropping(ts) ==
    /\ closing' = Cardinality({t \in ts : backends[t].kind = "pty"})
    /\ held' \in (IF closing' = 0 THEN {FALSE} ELSE BOOLEAN)

-----------------------------------------------------------------------------
Init ==
    /\ tabs = <<NewTab(0)>>
    /\ active = 1
    /\ nextToken = 1
    /\ backends = [t \in {0} |-> Chat]
    /\ quit = FALSE
    /\ pc = "tick"
    /\ frame = [t \in {} |-> Unsized]
    /\ lastAreas = [t \in {} |-> Unsized]
    /\ dead = <<>>
    /\ operator = 0
    /\ unread = [t \in Tokens |-> 0]
    /\ closing = 0
    /\ held = FALSE

(* The shells beside the loop.                                             *)
Printed(t) == unread' = [unread EXCEPT ![t] = IF @ = 0 THEN 1 ELSE @]

\* The reader thread appends output to the pane's shared screen.
ShellPrints ==
    /\ \E t \in DOMAIN backends \cap Chatters :
          /\ backends[t].kind = "pty" /\ backends[t].alive
          /\ unread[t] = 0
          /\ Printed(t)
    /\ UNCHANGED <<model, quit, pc, frame, lastAreas, dead, operator, drops>>

\* The human types `exit`, or the program ends by itself.
ShellExits ==
    /\ \E t \in DOMAIN backends :
          /\ backends[t].kind = "pty" /\ backends[t].alive
          /\ backends' = [backends EXCEPT ![t].alive = FALSE]
    /\ UNCHANGED <<tabs, active, nextToken, quit, pc, frame, lastAreas, dead,
                   operator, unread, drops>>

\* The job ends, or the death of the shell takes it down.
JobEnds ==
    /\ held /\ held' = FALSE
    /\ UNCHANGED <<model, quit, pc, frame, lastAreas, dead, operator, unread,
                   closing>>

-----------------------------------------------------------------------------
(* Steps 1 to 3 of a frame: tick, draw, resize.                            *)

Aged(n) == IF n \in {1, 2} THEN n + 1 ELSE n

\* Only the backends of the active tab are ticked.
Tick ==
    /\ pc = "tick" /\ ~quit
    /\ backends' = TickTokens(TokensOf(Tab))
    /\ unread' = [t \in Tokens |-> Aged(unread[t])]
    /\ pc' = "draw"
    /\ UNCHANGED <<tabs, active, nextToken, quit, frame, lastAreas, dead,
                   operator, drops>>

\* A zoomed pane is drawn alone; otherwise the panes from the top, as many
\* as the terminal holds.
Drawn(tab, n) ==
    IF tab.zoom # NoZoom THEN {tab.token[tab.zoom]}
    ELSE {tab.token[tab.panes[i]] : i \in 1 .. n}

Draw ==
    /\ pc = "draw"
    /\ \E n \in 0 .. Len(Tab.panes) : frame' \in [Drawn(Tab, n) -> Areas]
    /\ pc' = "resize"
    /\ UNCHANGED <<model, quit, lastAreas, dead, operator, unread, drops>>

\* Only a pane whose rectangle changed is resized; a pane that is no longer
\* drawn is forgotten, so it is resized again when it comes back.
\* Slip: a pane is resized only when it appears.
StaleWhenNew(t) == t \notin DOMAIN lastAreas

Stale(t) == t \notin DOMAIN lastAreas \/ lastAreas[t] # frame[t]

Resize ==
    /\ pc = "resize"
    /\ backends' = [t \in DOMAIN backends |->
                       IF t \in DOMAIN frame /\ Stale(t)
                       THEN Resized(backends[t], frame[t]) ELSE backends[t]]
    /\ lastAreas' = [t \in DOMAIN frame |-> frame[t]]
    /\ frame' = [t \in {} |-> Unsized]
    /\ pc' = "input"
    /\ UNCHANGED <<tabs, active, nextToken, quit, dead, operator, unread, drops>>

-----------------------------------------------------------------------------
(* Step 4: at most one key.  Each action below is a key the dispatcher     *)
(* resolved to that Action; apply() then attaches or drops backends.       *)

InputStep(step) == pc = "input" /\ step /\ pc' = "drain"
Loop == <<frame, lastAreas, dead, operator>>

\* No key, an absorbed one, one forwarded to the focused backend, an action
\* the model ignores (LastTab, CopyMode, ...), or an action that was refused.
NoChange ==
    /\ InputStep(TRUE)
    /\ UNCHANGED <<model, quit, unread, Loop, drops>>

QuitKey ==
    /\ InputStep(quit' = TRUE)
    /\ UNCHANGED <<model, unread, Loop, drops>>

NewChatTab ==
    /\ nextToken < MaxTokens
    /\ InputStep(TRUE)
    /\ tabs' = Append(tabs, NewTab(nextToken))
    /\ active' = Len(tabs) + 1
    /\ nextToken' = nextToken + 1
    /\ backends' = With(backends, nextToken, Chat)
    /\ UNCHANGED <<quit, unread, Loop, drops>>

\* The token is taken before the split is tried: a pane too small to split
\* retires it unused.  A program that cannot be spawned gives a failed pane.
SplitShell ==
    /\ nextToken < MaxTokens
    /\ InputStep(TRUE)
    /\ nextToken' = nextToken + 1
    /\ \/ UNCHANGED <<tabs, backends>>
       \/ /\ SetTab(SplitTab(Tab, nextToken))
          /\ \E b \in {Pty, Failed} : backends' = With(backends, nextToken, b)
    /\ UNCHANGED <<active, quit, unread, Loop, drops>>

SelectTab ==
    /\ InputStep(TRUE)
    /\ \/ active' = (active % Len(tabs)) + 1                       \* NextTab
       \/ active' = IF active = 1 THEN Len(tabs) ELSE active - 1   \* PrevTab
       \/ \E n \in 0 .. 9 : LET i == IF n = 0 THEN 10 ELSE n IN
             i <= Len(tabs) /\ active' = i
    /\ UNCHANGED <<tabs, nextToken, backends, quit, unread, Loop, drops>>

\* FocusDir up or down, which a clipped pane cannot leave, and FocusNext,
\* which wraps.  Neither moves while a pane is zoomed.
FocusMoves ==
    /\ InputStep(Tab.zoom = NoZoom)
    /\ LET at == Position(Tab, Tab.focused)
           n  == Len(Tab.panes)
       IN \E to \in {(at % n) + 1} \cup ({at - 1, at + 1} \cap 1 .. n) :
             SetTab([Tab EXCEPT !.focused = Tab.panes[to]])
    /\ UNCHANGED <<active, nextToken, backends, quit, unread, Loop, drops>>

ToggleZoom ==
    /\ InputStep(TRUE)
    /\ SetTab([Tab EXCEPT !.zoom = IF @ = Tab.focused THEN NoZoom
                                   ELSE Tab.focused])
    /\ UNCHANGED <<active, nextToken, backends, quit, unread, Loop, drops>>

\* Slip: only the focused backend is dropped.
CloseActiveTabFocusedOnly ==
    /\ Len(tabs) > 1
    /\ tabs' = RemoveAt(tabs, active)
    /\ active' = IF active > Len(tabs) - 1 THEN Len(tabs) - 1 ELSE active
    /\ backends' = Drop(backends, {FocusedToken})
    /\ Dropping({FocusedToken})

\* The tab's backends go with it, and the tab that slid into its place, or
\* the new last one, is active.  The last tab is never closed.
CloseActiveTab ==
    /\ Len(tabs) > 1
    /\ tabs' = RemoveAt(tabs, active)
    /\ active' = IF active > Len(tabs) - 1 THEN Len(tabs) - 1 ELSE active
    /\ backends' = Drop(backends, TokensOf(Tab))
    /\ Dropping(TokensOf(Tab))

\* Closing the focused pane of `tab`, the active one: the last pane of a
\* tab takes the tab with it.
CloseFocused(tab) ==
    \/ /\ Len(tab.panes) > 1
       /\ SetTab(CloseIn(tab, tab.focused))
       /\ backends' = Drop(backends, {tab.token[tab.focused]})
       /\ Dropping({tab.token[tab.focused]})
       /\ UNCHANGED active
    \/ Len(tab.panes) = 1 /\ CloseActiveTab

ClosePane ==
    /\ InputStep(CloseFocused(Tab))
    /\ UNCHANGED <<nextToken, quit, unread, Loop>>

CloseTab ==
    /\ InputStep(CloseActiveTab)
    /\ UNCHANGED <<nextToken, quit, unread, Loop>>

-----------------------------------------------------------------------------
(* Steps 5 and 6: drain every backend, then close the panes whose program  *)
(* ended on its own.                                                       *)

\* Slip: the tabs behind are not drained.
DrainedTokensInFront == TokensOf(Tab)

DrainedTokens == DOMAIN backends

Drain ==
    /\ pc = "drain"
    /\ unread' = [t \in Tokens |-> IF t \in DrainedTokens THEN 0 ELSE unread[t]]
    /\ pc' = "reap"
    /\ UNCHANGED <<model, quit, Loop, drops>>

\* The panes of a tab that are among `some`, from the top.
PanesIn(tab, some) ==
    LET taken[n \in 0 .. Len(tab.panes)] ==
            IF n = 0 THEN <<>>
            ELSE IF tab.panes[n] \in some THEN Append(taken[n - 1], tab.panes[n])
            ELSE taken[n - 1]
    IN  taken[Len(tab.panes)]

\* Slip: the pane that has the focus is left to the operator.
DeadPanesBehind(tab) ==
    PanesIn(tab, {p \in DOMAIN tab.token \ {tab.focused} :
                     IsClosed(backends[tab.token[p]])})

DeadPanes(tab) ==
    PanesIn(tab, {p \in DOMAIN tab.token : IsClosed(backends[tab.token[p]])})

ReapBegin ==
    /\ pc = "reap"
    /\ backends' = TickTokens(TokensOf(Tab))
    /\ dead' = DeadPanes(Tab)
    /\ \/ dead' = <<>> /\ pc' = "tick" /\ UNCHANGED operator
       \/ dead' # <<>> /\ pc' = "reaping" /\ operator' = FocusedToken
    /\ UNCHANGED <<tabs, active, nextToken, quit, frame, lastAreas, unread,
                   drops>>

\* A dead PaneId is looked up in whatever tab is active by now.
Exists(pane) == pane \in DOMAIN Tab.role

\* Slip: the close is not aimed, it takes the focused pane.
Aimless(pane) == Tab

\* The close is aimed by focus.
Aimed(pane) == [Tab EXCEPT !.focused = pane]

ReapOne ==
    /\ pc = "reaping" /\ dead # <<>>
    /\ LET tab == Aimed(Head(dead)) IN
       IF ~Exists(Head(dead))
         THEN UNCHANGED <<tabs, active, backends, quit, drops>>
       ELSE \/ CloseFocused(tab) /\ UNCHANGED quit
            \/ /\ Len(tab.panes) = 1 /\ Len(tabs) = 1
               /\ SetTab(tab)
               /\ quit' = TRUE
               /\ UNCHANGED <<active, backends, drops>>
    /\ dead' = Tail(dead)
    /\ UNCHANGED <<nextToken, pc, frame, lastAreas, operator, unread>>

\* Slip: the focus stays where the last close left it.
ReapEndAnywhere ==
    /\ pc = "reaping" /\ dead = <<>>
    /\ pc' = "tick"
    /\ operator' = 0
    /\ UNCHANGED <<model, quit, frame, lastAreas, dead, unread, drops>>

\* The operator's pane has the focus again if it outlived the reaping.
ReapEnd ==
    /\ pc = "reaping" /\ dead = <<>>
    /\ \/ \E p \in DOMAIN Tab.token :
             /\ Tab.token[p] = operator
             /\ SetTab([Tab EXCEPT !.focused = p])
       \/ operator \notin TokensOf(Tab) /\ UNCHANGED tabs
    /\ pc' = "tick"
    /\ operator' = 0
    /\ UNCHANGED <<active, nextToken, backends, quit, frame, lastAreas, dead,
                   unread, drops>>

\* The loop is left at its head, with everything dropped.
Leave ==
    /\ pc = "tick" /\ quit
    /\ UNCHANGED vars

Input == \/ NoChange \/ QuitKey \/ NewChatTab \/ SplitShell \/ SelectTab
         \/ FocusMoves \/ ToggleZoom \/ ClosePane \/ CloseTab

\* The slave is closed and the reader has seen the end of the output: the
\* next pty is dropped, or apply() returns.
Joined ==
    /\ closing > 0 /\ ~held
    /\ closing' = closing - 1
    /\ held' \in (IF closing' = 0 THEN {FALSE} ELSE BOOLEAN)
    /\ UNCHANGED <<model, quit, pc, frame, lastAreas, dead, operator, unread>>

FrameStep == \/ Tick \/ Draw \/ Resize \/ Input \/ Drain
             \/ ReapBegin \/ ReapOne \/ ReapEnd

\* The loop's thread: a frame goes on once what it dropped has been joined.
LoopStep == (closing = 0 /\ FrameStep) \/ Joined

Beside == ShellPrints \/ ShellExits \/ JobEnds

Next == LoopStep \/ Beside \/ Leave

Spec == Init /\ [][Next]_vars

\* The loop polls for input with a timeout, so it never waits on the human;
\* what it does wait for is the join, and nothing makes a job end.
FairSpec == Spec /\ WF_vars(LoopStep)

-----------------------------------------------------------------------------
(* Properties.                                                             *)

BackendType ==
    [kind : {"chat", "pty", "failed"}, alive : BOOLEAN, exited : BOOLEAN,
     size : Areas \cup {Unsized}]

\* Every variable keeps its shape.
TypeOK ==
    /\ active \in 1 .. Len(tabs)
    /\ nextToken \in 1 .. MaxTokens
    /\ DOMAIN backends \subseteq Tokens
    /\ \A t \in DOMAIN backends : backends[t] \in BackendType
    /\ quit \in BOOLEAN
    /\ pc \in Steps
    /\ DOMAIN frame \subseteq Tokens /\ DOMAIN lastAreas \subseteq Tokens
    /\ operator \in Tokens
    /\ unread \in [Tokens -> 0 .. 3]
    /\ \A i \in 1 .. Len(dead) : dead[i] \in Nat
    /\ closing \in 0 .. MaxTokens
    /\ held \in BOOLEAN

\* A tab's layout, roles and tokens name the same panes, each once, and its
\* focus and zoom are among them: focused_token() indexes the token map with
\* the focused pane and panics when it is not there.
Coherent(tab) ==
    /\ tab.panes # <<>>
    /\ IsInjective(tab.panes)
    /\ ToSet(tab.panes) = DOMAIN tab.token
    /\ ToSet(tab.panes) = DOMAIN tab.role
    /\ tab.focused \in DOMAIN tab.token
    /\ tab.zoom \in DOMAIN tab.token \cup {NoZoom}
    /\ \A p \in DOMAIN tab.token : p < tab.nextPane
TabsCoherent == \A i \in 1 .. Len(tabs) : Coherent(tabs[i])

\* "Always one [backend] per live pane": the map of live resources holds
\* exactly the tokens of the panes of every tab, and no two panes share one,
\* though their PaneIds collide from tab to tab.  A shell's pty or its failed
\* stand-in is never behind a chat pane, nor a driver behind a shell pane.
BackendsInLockstep ==
    /\ DOMAIN backends = UNION {TokensOf(tabs[i]) : i \in 1 .. Len(tabs)}
    /\ \A i, j \in 1 .. Len(tabs) :
         \A p \in DOMAIN tabs[i].token, q \in DOMAIN tabs[j].token :
            tabs[i].token[p] = tabs[j].token[q] => i = j /\ p = q
    /\ \A i \in 1 .. Len(tabs) : \A p \in DOMAIN tabs[i].token :
         (tabs[i].role[p] = "chat")
            <=> (backends[tabs[i].token[p]].kind = "chat")

\* Output never waits in a pane's buffer for more than one whole frame, in
\* the active tab or behind it.
OutputIsDrained == \A t \in DOMAIN backends : unread[t] <= 2

\* The four structures of a tab, the map of live resources and the buffers
\* of the ptys never part, whatever is split, closed, selected or reaped.
PiecesAgree == TabsCoherent /\ BackendsInLockstep /\ OutputIsDrained

\* Reaping aims by PaneId, through the focus, while it closes panes and even
\* tabs under its own list: each step still drops the backend of a program
\* that exited, and of no other.
ReapDropsOnlyTheDead ==
    [][pc = "reaping" =>
         \A t \in DOMAIN backends \ DOMAIN backends' : backends[t].exited]_vars

\* The operator types on in the same pane: a reaping that did not take the
\* focused pane leaves the focus on it.
ReapKeepsFocus ==
    [][pc = "reaping" /\ pc' = "tick" /\ operator \in DOMAIN backends =>
         Tab'.token[Tab'.focused] = operator]_vars

\* A reaping takes what is dead and nothing else, the operator's place
\* included.
ReapIsClean == ReapDropsOnlyTheDead /\ ReapKeepsFocus

\* A pty that is on the screen has the size it is drawn at when a key may
\* reach it, whatever tabs, zooms and terminal sizes came before.
DrawnAtItsSize ==
    pc = "input" => \A t \in DOMAIN lastAreas \cap DOMAIN backends :
        backends[t].kind = "pty" => backends[t].size = lastAreas[t]

\* A pane whose program ended does not stay in the tab the operator looks
\* at: it is closed, or another tab is shown, or the cockpit is left; and the
\* frames go on.  That holds as long as every job a shell leaves behind lets
\* go of the slave in the end.  Without that it does not: the loop's thread
\* is in the join of PtyShell's Drop for as long as a job holds the slave of
\* a pane that was closed, and no frame is drawn and no key is read.
DeadPanesGo ==
    []<>~held
      => \A t \in Tokens :
            (t \in DOMAIN backends /\ t \in TokensOf(Tab) /\ ~backends[t].alive)
              ~> (closing = 0 /\ (t \notin TokensOf(Tab) \/ quit))

\* focus_cycle's comment, and the test focus_cannot_leave_a_zoomed_pane:
\* while a pane is zoomed it has the focus, so that no forwarded key reaches
\* a pane the operator cannot see.
ZoomedPaneHasFocus ==
    \A i \in 1 .. Len(tabs) :
        tabs[i].zoom # NoZoom => tabs[i].focused = tabs[i].zoom
=============================================================================
