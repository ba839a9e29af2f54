-------------------------------- MODULE Fleet --------------------------------
(***************************************************************************)
(* The crew dashboard of `gila matrix --mock` (fleet.rs, main.rs): the     *)
(* view model, its navigation by keys and the frame drawn from it.         *)
(*                                                                         *)
(* Phases are numbered from 0, and so are the agents of a phase, as the    *)
(* code's indices are; NoAgent is None.  An agent is its state; labels,    *)
(* metrics and colours are left out, and so is the text of a transcript.   *)
(* The terminal may be resized between two keys.  The scroll offset is a   *)
(* 16-bit number, here modulo ScrollRange.                                 *)
(***************************************************************************)
EXTENDS Integers, FiniteSets

CONSTANTS
    Roster,        \* the states of the agents of each phase, 0 .. count - 1
    RailWidth,     \* RAIL_WIDTH
    Limit,         \* u16::MAX, the end of the screen's coordinates
    ScrollRange,   \* 2^16
    Areas          \* the sizes the terminal may have

\* Phases and agents are numbered from 0, and an area ends on the screen.
ASSUME FleetAssumption ==
    /\ RailWidth \in Nat /\ Limit \in Nat /\ ScrollRange \in Nat \ {0}
    /\ IsFiniteSet(DOMAIN Roster)
    /\ DOMAIN Roster = 0 .. Cardinality(DOMAIN Roster) - 1
    /\ \A p \in DOMAIN Roster :
          /\ IsFiniteSet(DOMAIN Roster[p])
          /\ DOMAIN Roster[p] = 0 .. Cardinality(DOMAIN Roster[p]) - 1
    /\ \A a \in Areas :
          /\ a.x \in Nat /\ a.y \in Nat /\ a.width \in Nat /\ a.height \in Nat
          /\ a.x + a.width =< Limit /\ a.y + a.height =< Limit

NoAgent == -1

VARIABLES
    selPhase, selAgent, focus, frozen, detailScroll,   \* FleetModel
    area,       \* the area of the frame
    quit        \* the loop has ended

fleetVars == <<selPhase, selAgent, focus, frozen, detailScroll, area, quit>>

Phases     == DOMAIN Roster
Agents(p)  == IF p \in Phases THEN DOMAIN Roster[p] ELSE {}
Count(p)   == Cardinality(Agents(p))
Lower(a, b)  == IF a < b THEN a ELSE b
Clamp(i, n)  == IF i < 0 THEN 0 ELSE Lower(i, n - 1)
Less(a, b)   == IF a > b THEN a - b ELSE 0      \* saturating_sub
Plus(a, b)   == Lower(a + b, Limit)             \* saturating_add

-----------------------------------------------------------------------------
(* Selecting.                                                              *)

\* clamp_agent_to_phase
ClampAgent(p, a) ==
    IF Count(p) = 0 THEN NoAgent
    ELSE Lower(IF a = NoAgent THEN 0 ELSE a, Count(p) - 1)

\* mock has the last of its seven agents selected, new the first there is.
Mock == 6 \in Agents(0) /\ selAgent = 6 /\ focus = "Panel"
New  == selAgent = ClampAgent(0, NoAgent) /\ focus = "Rail"

FleetInit ==
    /\ selPhase = 0
    /\ Mock \/ New
    /\ frozen = FALSE /\ detailScroll = 0
    /\ area \in Areas
    /\ quit = FALSE

\* Slip: the cursor stays on its row.
MovePhaseKeepsRow(d) ==
    IF Phases = {} THEN UNCHANGED <<selPhase, selAgent, detailScroll>>
    ELSE /\ selPhase' = Clamp(selPhase + d, Cardinality(Phases))
         /\ selAgent' = selAgent
         /\ detailScroll' = 0

MovePhase(d) ==
    IF Phases = {} THEN UNCHANGED <<selPhase, selAgent, detailScroll>>
    ELSE /\ selPhase' = Clamp(selPhase + d, Cardinality(Phases))
         /\ selAgent' = ClampAgent(Clamp(selPhase + d, Cardinality(Phases)), 0)
         /\ detailScroll' = 0

MoveAgent(d) ==
    selAgent' = IF Count(selPhase) = 0 THEN NoAgent
                ELSE Clamp((IF selAgent = NoAgent THEN 0 ELSE selAgent) + d,
                           Count(selPhase))

\* Clamped at the top only, and cut to 16 bits.
ScrollDetail(d) ==
    detailScroll' = (IF detailScroll + d < 0 THEN 0 ELSE detailScroll + d) % ScrollRange

-----------------------------------------------------------------------------
(* apply_key.                                                              *)

KeyQuit ==
    /\ quit' = TRUE
    /\ UNCHANGED <<selPhase, selAgent, focus, frozen, detailScroll, area>>

KeyFreeze ==
    /\ frozen' = ~frozen
    /\ UNCHANGED <<selPhase, selAgent, focus, detailScroll, area, quit>>

RailKey ==
    /\ focus = "Rail"
    /\ \/ (\E d \in {-1, 1} : MovePhase(d)) /\ UNCHANGED focus
       \/ focus' = "Panel" /\ UNCHANGED <<selPhase, selAgent, detailScroll>>
    /\ UNCHANGED <<frozen, area, quit>>

\* Enter opens the agent under the cursor; there may be none.
PanelKey ==
    /\ focus = "Panel"
    /\ \/ (\E d \in {-1, 1} : MoveAgent(d)) /\ UNCHANGED <<focus, detailScroll>>
       \/ /\ IF selAgent # NoAgent
             THEN focus' = "Detail" /\ detailScroll' = 0
             ELSE UNCHANGED <<focus, detailScroll>>
          /\ UNCHANGED selAgent
       \/ focus' = "Rail" /\ UNCHANGED <<selAgent, detailScroll>>
    /\ UNCHANGED <<selPhase, frozen, area, quit>>

DetailKey ==
    /\ focus = "Detail"
    /\ \/ (\E d \in {-1, 1} : ScrollDetail(d)) /\ UNCHANGED focus
       \/ focus' = "Panel" /\ UNCHANGED detailScroll
    /\ UNCHANGED <<selPhase, selAgent, frozen, area, quit>>

Resize ==
    /\ area' \in Areas \ {area}
    /\ UNCHANGED <<selPhase, selAgent, focus, frozen, detailScroll, quit>>

\* run_fleet_dashboard draws, waits a moment for a key and applies it; an error
\* of the terminal ends it like the key to quit does.
FleetNext ==
    ~quit /\ (KeyQuit \/ KeyFreeze \/ RailKey \/ PanelKey \/ DetailKey \/ Resize)

FleetSpec == FleetInit /\ [][FleetNext]_fleetVars

-----------------------------------------------------------------------------
(* render_fleet_frame.                                                     *)

\* Slip: the rail has its width whatever the screen's.
LayoutFixedRail(a) ==
    LET headerH == Lower(a.height, 2)
        footerH == Lower(Less(a.height, headerH), 1)
        bodyH   == Less(Less(a.height, headerH), footerH)
        bodyY   == Plus(a.y, headerH)
    IN [header |-> [x |-> a.x, y |-> a.y, width |-> a.width, height |-> headerH],
        rail   |-> [x |-> a.x, y |-> bodyY, width |-> RailWidth, height |-> bodyH],
        panel  |-> [x |-> Plus(a.x, RailWidth), y |-> bodyY,
                    width |-> Less(a.width, RailWidth), height |-> bodyH],
        footer |-> [x |-> a.x, y |-> Plus(bodyY, bodyH), width |-> a.width,
                    height |-> footerH]]

\* fleet_layout
Layout(a) ==
    LET headerH == Lower(a.height, 2)
        footerH == Lower(Less(a.height, headerH), 1)
        bodyH   == Less(Less(a.height, headerH), footerH)
        railW   == Lower(RailWidth, a.width)
        bodyY   == Plus(a.y, headerH)
    IN [header |-> [x |-> a.x, y |-> a.y, width |-> a.width, height |-> headerH],
        rail   |-> [x |-> a.x, y |-> bodyY, width |-> railW, height |-> bodyH],
        panel  |-> [x |-> Plus(a.x, railW), y |-> bodyY,
                    width |-> Less(a.width, railW), height |-> bodyH],
        footer |-> [x |-> a.x, y |-> Plus(bodyY, bodyH), width |-> a.width,
                    height |-> footerH]]

\* panel_lines, and the row the list marks, unless the phase has none.
Rows   == [a \in Agents(selPhase) |-> Roster[selPhase][a]]
Marked == IF Count(selPhase) = 0 THEN NoAgent ELSE selAgent

\* detail_lines: whose transcript is shown, in what state, from where on;
\* nobody's is a remark.
Transcript ==
    IF selAgent \in Agents(selPhase)
    THEN [agent |-> selAgent, state |-> Rows[selAgent], from |-> detailScroll]
    ELSE [agent |-> NoAgent]

\* The body shows the transcript when it is open, else the rows.
Body == IF focus = "Detail" THEN Transcript ELSE [agent |-> Marked]

-----------------------------------------------------------------------------
(* Properties.                                                             *)

\* Every variable keeps its shape.
FleetTypeOK ==
    /\ selPhase \in Nat
    /\ selAgent \in Nat \cup {NoAgent}
    /\ focus \in {"Rail", "Panel", "Detail"}
    /\ frozen \in BOOLEAN /\ quit \in BOOLEAN
    /\ detailScroll \in 0 .. ScrollRange - 1
    /\ area \in Areas

\* Through every sequence of keys the cursor is on an agent of the phase shown,
\* or on none where there is none; the row that is marked is there, and a
\* transcript that is open is somebody's: "no agent selected" is never drawn.
CursorIsOnAnAgent ==
    /\ Phases # {} => selPhase \in Phases
    /\ selAgent = NoAgent <=> Agents(selPhase) = {}
    /\ selAgent # NoAgent => selAgent \in Agents(selPhase)
    /\ focus = "Detail" \/ Agents(selPhase) # {} => Body.agent \in DOMAIN Rows

Beside(a, b, whole) ==
    /\ b.x = a.x + a.width /\ a.width + b.width = whole.width
    /\ a.y = b.y /\ a.height = b.height

Under(a, b) == b.y = a.y + a.height

\* fleet_layout: the four regions tile the frame, however small it is and
\* wherever it begins; none reaches out of it.
FrameIsTiled ==
    LET l == Layout(area) IN
    /\ l.header.x = area.x /\ l.header.y = area.y /\ l.rail.x = area.x
    /\ Beside(l.rail, l.panel, area)
    /\ Under(l.header, l.rail) /\ Under(l.rail, l.footer)
    /\ l.header.height + l.rail.height + l.footer.height = area.height

=============================================================================
