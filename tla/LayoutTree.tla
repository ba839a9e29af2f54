----------------------------- MODULE LayoutTree -----------------------------
(***************************************************************************)
(* The tmux-style layout of one tab (layout.rs): a tree of cells with      *)
(* absolute integer sizes, siblings separated by a one-cell divider.       *)
(*                                                                         *)
(* A cell is a leaf, a record with a `pane`, or a split, a record with an  *)
(* `axis` and its `kids`.  The arena and its indices are left out: Put     *)
(* replaces a cell where the code writes through its index.  A client      *)
(* closes live panes only, as the cockpit does.                            *)
(*                                                                         *)
(* Sizes stay far below 2^16, so the u16 sums do not wrap here.            *)
(* Bounds: MaxPanes pane ids are minted; Terminals lists the sizes.        *)
(***************************************************************************)
EXTENDS Integers, Sequences, SequencesExt

CONSTANTS
    Terminals,   \* the sizes <<w, h>> the terminal may take
    MaxPanes,    \* bound: pane ids ever minted
    NoPane

ASSUME BoundsAssumption ==
    /\ Terminals \subseteq (Nat \X Nat)
    /\ MaxPanes \in Nat \ {0} /\ NoPane \notin Nat

VARIABLES
    tree,       \* cells and root
    term,       \* the terminal the tree was last fitted to
    nextPane,
    zoom,
    mru         \* focus_tick as a ranking: panes, last touched last

layoutVars == <<tree, term, nextPane, zoom, mru>>

PaneMin == 3
Axes == {"horizontal", "vertical"}

-----------------------------------------------------------------------------
(* Cells.                                                                  *)

Leaf(p, w, h) == [pane |-> p, w |-> w, h |-> h]
SplitCell(axis, kids, w, h) ==
    [axis |-> axis, kids |-> kids, w |-> w, h |-> h]

\* The cells with at most n splits above one another.  Each split divides panes,
\* so there are fewer of these than panes.
Leaves == [pane : Nat, w : Nat, h : Nat]
SplitsOver(cells) == [axis : Axes, kids : Seq(cells), w : Nat, h : Nat]
CellsTo[n \in Nat] ==
    Leaves \cup (IF n = 0 THEN {} ELSE SplitsOver(CellsTo[n - 1]))
Cells == CellsTo[MaxPanes]

IsLeaf(c) == "pane" \in DOMAIN c
Along(axis, c) == IF axis = "horizontal" THEN c.w ELSE c.h
Across(axis, c) == IF axis = "horizontal" THEN c.h ELSE c.w
Sized(c, axis, along) ==
    IF axis = "horizontal" THEN [c EXCEPT !.w = along]
                           ELSE [c EXCEPT !.h = along]

SumTo(s, n) ==
    LET S[i \in 0 .. Len(s)] == IF i = 0 THEN 0 ELSE S[i - 1] + s[i] IN S[n]
Total(s) == SumTo(s, Len(s))

\* The cells reachable from c.
Parts(c) ==
    LET P[d \in Cells] ==
            IF IsLeaf(d) THEN {d}
            ELSE {d} \cup UNION {P[d.kids[i]] : i \in DOMAIN d.kids}
    IN P[c]
LeavesOf(c) == {d \in Parts(c) : IsLeaf(d)}
Splits(c) == {d \in Parts(c) : ~ IsLeaf(d)}
Panes(c) == {d.pane : d \in LeavesOf(c)}

LeafOf(c, p) == CHOOSE d \in LeavesOf(c) : d.pane = p
IsKid(p, d) == IsLeaf(d) /\ d.pane = p
HasKid(s, p) == \E i \in DOMAIN s.kids : IsKid(p, s.kids[i])
ParentOf(c, p) == CHOOSE s \in Splits(c) : HasKid(s, p)
IndexOf(s, p) == CHOOSE i \in DOMAIN s.kids : IsKid(p, s.kids[i])

\* The tree c with one of its cells replaced.
Put(c, old, new) ==
    LET P[d \in Cells] ==
            IF d = old THEN new
            ELSE IF IsLeaf(d) THEN d
            ELSE [d EXCEPT !.kids = [i \in DOMAIN d.kids |-> P[d.kids[i]]]]
    IN P[c]

-----------------------------------------------------------------------------
(* Fitting: distribute() and fit().                                        *)

Larger(a, b) == IF a > b THEN a ELSE b
Magnitude(d) == IF d < 0 THEN -d ELSE d

\* One turn of the loop of distribute(): one cell to or from child i.  That the
\* loop ends when every child is at the floor changes nothing more.
Turn(now, target, i) ==
    IF Total(now) < target THEN [now EXCEPT ![i] = @ + 1]
    ELSE IF Total(now) > target /\ now[i] > PaneMin THEN [now EXCEPT ![i] = @ - 1]
    ELSE now

Turns(delta, n) == Magnitude(delta) + n + 1

\* The children in turn, until the budget of turns is spent.
Nudge(cur, target) ==
    LET turns == Turns(target - Total(cur), Len(cur))
        nudged[t \in 0 .. turns] ==
            IF t = 0 THEN cur ELSE Turn(nudged[t - 1], target, ((t - 1) % Len(cur)) + 1)
    IN nudged[turns]

Evenly(n, target) ==
    [i \in 1 .. n |->
        Larger((target \div n) + (IF i <= target % n THEN 1 ELSE 0), PaneMin)]

Distribute(cur, target) ==
    IF Total(cur) = 0 THEN Evenly(Len(cur), target) ELSE Nudge(cur, target)

Extents(c) == [i \in DOMAIN c.kids |-> Along(c.axis, c.kids[i])]
Room(axis, n, w, h) ==
    Larger((IF axis = "horizontal" THEN w ELSE h) - (n - 1), 0)

Fit(c, w, h) ==
    LET F[d \in Cells] ==
            [box \in Nat \X Nat |->
                IF IsLeaf(d) THEN Leaf(d.pane, box[1], box[2])
                ELSE LET room  == Room(d.axis, Len(d.kids), box[1], box[2])
                         sizes == Distribute(Extents(d), room)
                     IN SplitCell(d.axis,
                            [i \in DOMAIN d.kids |->
                                F[d.kids[i]][IF d.axis = "horizontal"
                                             THEN <<sizes[i], box[2]>>
                                             ELSE <<box[1], sizes[i]>>]],
                            box[1], box[2])]
    IN F[c][w, h]

Refit(c) == Fit(c, c.w, c.h)

-----------------------------------------------------------------------------
(* split(): tmux's arithmetic; the new leaf follows the old one in a       *)
(* parent of the same axis, and both are wrapped otherwise.                *)

CanSplit(c, p, axis) == Along(axis, LeafOf(c, p)) >= 2 * PaneMin + 1

NewExtent(extent) == ((extent + 1) \div 2) - 1

Halves(leaf, axis, new) ==
    LET extent == Along(axis, leaf) IN
    <<Sized(leaf, axis, extent - 1 - NewExtent(extent)),
      Sized([leaf EXCEPT !.pane = new], axis, NewExtent(extent))>>

Divided(s, i, axis, new) ==
    LET halves == Halves(s.kids[i], axis, new)
    IN [s EXCEPT !.kids = InsertAt([@ EXCEPT ![i] = halves[1]], i + 1, halves[2])]
Wrapped(leaf, axis, new) ==
    SplitCell(axis, Halves(leaf, axis, new), leaf.w, leaf.h)

SplitIn(c, p, axis, new) ==
    LET leaf == LeafOf(c, p)
        s    == ParentOf(c, p)
    IN IF ~ IsLeaf(c) /\ s.axis = axis
       THEN Put(c, s, Divided(s, IndexOf(s, p), axis, new))
       ELSE Put(c, leaf, Wrapped(leaf, axis, new))

-----------------------------------------------------------------------------
(* close(): one neighbour, the previous sibling or else the next, gets the *)
(* freed cells and the divider; a split left with one child becomes it.    *)

\* Slip: the first sibling inherits, not the previous one.
HeirIsFirst(i) == IF i > 1 THEN 1 ELSE 2

Heir(i) == IF i > 1 THEN i - 1 ELSE 2

\* Slip: the divider is not given back.
CloseKidLosesDivider(c, i) ==
    LET heir  == c.kids[Heir(i)]
        grown == Refit(Sized(heir, c.axis,
                             Along(c.axis, heir) + Along(c.axis, c.kids[i])))
        left  == RemoveAt([c.kids EXCEPT ![Heir(i)] = grown], i)
    IN IF Len(left) = 1 THEN Fit(left[1], c.w, c.h)
       ELSE [c EXCEPT !.kids = left]

CloseKid(c, i) ==
    LET freed == Along(c.axis, c.kids[i]) + 1
        heir  == c.kids[Heir(i)]
        grown == Refit(Sized(heir, c.axis, Along(c.axis, heir) + freed))
        left  == RemoveAt([c.kids EXCEPT ![Heir(i)] = grown], i)
    IN IF Len(left) = 1 THEN Fit(left[1], c.w, c.h)
       ELSE [c EXCEPT !.kids = left]

CloseIn(c, p) ==
    LET s == ParentOf(c, p) IN Put(c, s, CloseKid(s, IndexOf(s, p)))

-----------------------------------------------------------------------------
(* rects() and neighbour().                                                *)

\* Slip: every child is taken to be as large as the first.
OffsetByFirst(c, i) ==
    LET before == (i - 1) * (Along(c.axis, c.kids[1]) + 1)
    IN IF c.axis = "horizontal" THEN <<before, 0>> ELSE <<0, before>>

\* Where child i of c begins, from c's own corner: each one before it and its
\* divider.
Offset(c, i) ==
    LET before == SumTo(Extents(c), i - 1) + i - 1
    IN IF c.axis = "horizontal" THEN <<before, 0>> ELSE <<0, before>>

Walk(c, x, y) ==
    LET W[d \in Cells] ==
            [at \in Nat \X Nat |->
                IF IsLeaf(d)
                THEN <<[pane |-> d.pane, x |-> at[1], y |-> at[2], w |-> d.w, h |-> d.h]>>
                ELSE FlattenSeq([i \in DOMAIN d.kids |->
                        W[d.kids[i]][at[1] + Offset(d, i)[1], at[2] + Offset(d, i)[2]]])]
    IN W[c][x, y]

Right(r)  == r.x + r.w
Bottom(r) == r.y + r.h
Smaller(a, b) == IF a < b THEN a ELSE b

\* The part of r inside the terminal; the terminal's origin is <<0, 0>>.
Clipped(r, t) == [r EXCEPT !.w = Smaller(Right(r), t[1]) - r.x,
                           !.h = Smaller(Bottom(r), t[2]) - r.y]

\* Those of s that are in S.
Only(s, S) ==
    LET Kept[i \in 0 .. Len(s)] ==
            IF i = 0 THEN <<>>
            ELSE IF s[i] \in S THEN Append(Kept[i - 1], s[i]) ELSE Kept[i - 1]
    IN Kept[Len(s)]

Rects(c, z, t) ==
    IF z # NoPane THEN <<[pane |-> z, x |-> 0, y |-> 0, w |-> t[1], h |-> t[2]]>>
    ELSE LET raw == Walk(c, 0, 0)
             cut == [i \in DOMAIN raw |-> Clipped(raw[i], t)]
         IN Only(cut, {r \in ToSet(cut) : r.w > 0 /\ r.h > 0})

Overlap1D(a, al, b, bl) == a < b + bl /\ b < a + al

\* Does r lie to the `dir` of me, across the divider?
Adjacent(me, r, dir) ==
    CASE dir = "right" -> /\ r.x \in {Right(me), Right(me) + 1}
                          /\ Overlap1D(me.y, me.h, r.y, r.h)
      [] dir = "left"  -> /\ me.x \in {Right(r), Right(r) + 1}
                          /\ Overlap1D(me.y, me.h, r.y, r.h)
      [] dir = "down"  -> /\ r.y \in {Bottom(me), Bottom(me) + 1}
                          /\ Overlap1D(me.x, me.w, r.x, r.w)
      [] dir = "up"    -> /\ me.y \in {Bottom(r), Bottom(r) + 1}
                          /\ Overlap1D(me.x, me.w, r.x, r.w)

Rank(p, order) ==
    IF p \in ToSet(order) THEN CHOOSE i \in DOMAIN order : order[i] = p ELSE 0

\* The places in rects of the panes next to p.
Near(rects, p, dir) ==
    LET me == CHOOSE r \in ToSet(rects) : r.pane = p
    IN {i \in DOMAIN rects : rects[i].pane # p /\ Adjacent(me, rects[i], dir)}
First(places) == CHOOSE i \in places : \A j \in places : i <= j

\* Slip: the first adjacent pane, however long ago it had the focus.
NeighbourFirst(rects, order, p, dir) ==
    LET near == Near(rects, p, dir) IN
    IF p \notin {r.pane : r \in ToSet(rects)} \/ near = {}
    THEN NoPane ELSE rects[First(near)].pane

\* The adjacent pane touched last; the first in layout order among those
\* never touched.
Neighbour(rects, order, p, dir) ==
    LET near == Near(rects, p, dir)
        best == {i \in near : \A j \in near :
                    Rank(rects[j].pane, order) <= Rank(rects[i].pane, order)}
    IN IF p \notin {r.pane : r \in ToSet(rects)} \/ near = {}
       THEN NoPane ELSE rects[First(best)].pane

Touched(order, p) == Append(Only(order, ToSet(order) \ {p}), p)

-----------------------------------------------------------------------------
(* The presets, before their first fit.                                    *)

Column(from, to) ==
    [i \in 1 .. (to - from + 1) |-> Leaf(from + i - 1, 0, 0)]
Even(n, axis) == IF n = 1 THEN Leaf(0, 0, 0)
                 ELSE SplitCell(axis, Column(0, n - 1), 0, 0)
MainVertical(n) ==
    LET side == IF n = 2 THEN Leaf(1, 0, 0)
                ELSE SplitCell("vertical", Column(1, n - 1), 0, 0)
    IN IF n = 1 THEN Leaf(0, 0, 0)
       ELSE SplitCell("horizontal", <<Leaf(0, 0, 0), side>>, 0, 0)

Presets(n) == {Even(n, axis) : axis \in Axes} \cup {MainVertical(n)}

-----------------------------------------------------------------------------
LayoutInit ==
    /\ term \in Terminals
    /\ nextPane \in 1 .. MaxPanes
    /\ \E c \in Presets(nextPane) : tree = Fit(c, term[1], term[2])
    /\ zoom = NoPane
    /\ mru = <<>>

Resize ==
    /\ \E t \in Terminals : tree' = Fit(tree, t[1], t[2]) /\ term' = t
    /\ UNCHANGED <<nextPane, zoom, mru>>

Split ==
    /\ nextPane < MaxPanes
    /\ \E p \in Panes(tree), axis \in Axes :
          /\ CanSplit(tree, p, axis)
          /\ tree' = SplitIn(tree, p, axis, nextPane)
          /\ mru' = Touched(mru, nextPane)   \* the cockpit focuses it
    /\ nextPane' = nextPane + 1
    /\ UNCHANGED <<term, zoom>>

Close ==
    /\ ~ IsLeaf(tree)
    /\ \E p \in Panes(tree) :
          /\ tree' = CloseIn(tree, p)
          /\ zoom' = IF zoom = p THEN NoPane ELSE zoom
    /\ UNCHANGED <<term, nextPane, mru>>

\* The cockpit zooms the focused pane, a live one.
ToggleZoom ==
    /\ \E p \in Panes(tree) : zoom' = IF zoom = p THEN NoPane ELSE p
    /\ UNCHANGED <<tree, term, nextPane, mru>>

\* Directional navigation, as the cockpit does it: from the pane touched
\* last to its neighbour, while nothing is zoomed.
Navigate ==
    /\ zoom = NoPane /\ mru # <<>> /\ Last(mru) \in Panes(tree)
    /\ \E dir \in {"left", "right", "up", "down"} :
          LET q == Neighbour(Rects(tree, zoom, term), mru, Last(mru), dir)
          IN q # NoPane /\ mru' = Touched(mru, q)
    /\ UNCHANGED <<tree, term, nextPane, zoom>>

LayoutNext == Resize \/ Split \/ Close \/ ToggleZoom \/ Navigate

LayoutSpec == LayoutInit /\ [][LayoutNext]_layoutVars

-----------------------------------------------------------------------------
(* Properties.                                                             *)

\* The load-bearing invariant of the module's header, on one split: its
\* children and dividers fill it along its axis and match it across.
FilledBy(c) ==
    /\ Total(Extents(c)) + Len(c.kids) - 1 = Along(c.axis, c)
    /\ \A i \in DOMAIN c.kids : Across(c.axis, c.kids[i]) = Across(c.axis, c)

Exact(c) == \A s \in Splits(c) : FilledBy(s)

Overlaps(r, s) == /\ Overlap1D(r.x, r.w, s.x, s.w)
                  /\ Overlap1D(r.y, r.h, s.y, s.h)

\* Every variable keeps its shape; panes come from the counter and are in one
\* child of a split at most, and no split has fewer than two children.
LayoutTypeOK ==
    /\ tree \in Cells
    /\ \A s \in Splits(tree) :
          /\ Len(s.kids) >= 2
          /\ \A i, j \in DOMAIN s.kids :
                Panes(s.kids[i]) \cap Panes(s.kids[j]) # {} => i = j
    /\ Panes(tree) \cup ToSet(mru) \subseteq 0 .. nextPane - 1
    /\ zoom \in Panes(tree) \cup {NoPane}
    /\ term \in Terminals /\ nextPane \in 1 .. MaxPanes

\* On a tree that fits, splits and closes at any depth, and a terminal that
\* only grows, keep every split filled: nothing needs a re-fit or a clip.
FilledStaysFilled ==
    [][Exact(tree) /\ term'[1] >= term[1] /\ term'[2] >= term[2]
         => Exact(tree')]_layoutVars

\* The panes of a filled tree are drawn whole, each once, and never on top of
\* each other, whatever the nesting.
PanesTile ==
    Exact(tree) /\ term[1] > 0 /\ term[2] > 0 =>
        LET rects == Rects(tree, NoPane, term) IN
        /\ rects = Walk(tree, 0, 0)
        /\ {r.pane : r \in ToSet(rects)} = Panes(tree)
        /\ \A i, j \in DOMAIN rects :
              i # j => rects[i].pane # rects[j].pane /\ ~ Overlaps(rects[i], rects[j])

\* Closing the pane a split has just made gives back the cells it took, to
\* the pane it took them from, through the wrap and its collapse.
CloseUndoesSplit ==
    \A p \in Panes(tree), axis \in Axes :
        CanSplit(tree, p, axis) =>
            CloseIn(SplitIn(tree, p, axis, nextPane), nextPane) = tree

Opposite == [left |-> "right", right |-> "left", up |-> "down", down |-> "up"]

\* From the pane focused last, one step and the step back return to it: the
\* adjacency test is symmetric and the tie is broken by recency.
StepBackReturns ==
    Exact(tree) /\ mru # <<>> /\ Last(mru) \in Panes(tree) =>
        \A dir \in DOMAIN Opposite :
            LET rects == Rects(tree, NoPane, term)
                q     == Neighbour(rects, mru, Last(mru), dir)
            IN q # NoPane => Neighbour(rects, Touched(mru, q), q, Opposite[dir])
                                = Last(mru)

\* Two operations that are each other's way back, through collapsed splits
\* and ties.
WaysBack == CloseUndoesSplit /\ StepBackReturns
=============================================================================
