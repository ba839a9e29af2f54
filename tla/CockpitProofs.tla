---------------------------- MODULE CockpitProofs ----------------------------
(***************************************************************************)
(* The pieces of the cockpit never part: tabs, backends and buffers agree  *)
(* whatever is split, closed, selected or reaped, and what is drawn has    *)
(* the size it is drawn at.                                                *)
(*                                                                         *)
(* Two facts make that inductive: no token at or above nextToken has left  *)
(* a trace anywhere (Fresh), so a new pane shares nothing with an older    *)
(* one; and a buffer is as old as the step of the frame allows (Aging).    *)
(* That a reaping is clean rests on a third: its list names panes of the   *)
(* active tab, each once, as long as it names any (Reaping).               *)
(***************************************************************************)
EXTENDS Cockpit, SequenceTheorems, WellFoundedInduction, TLAPS

Maps(S) == UNION {[D -> S] : D \in SUBSET Nat}
RoleMaps == Maps({"chat", "shell"})
TokenMaps == Maps(Nat)
TabSet ==
    [panes : Seq(Nat), role : RoleMaps, token : TokenMaps, focused : Nat,
     zoom : Nat \cup {NoZoom}, nextPane : Nat]

-----------------------------------------------------------------------------
(* Sequences and maps.                                                     *)

(* A map is a function on pane ids.                                        *)
LEMMA MapFacts ==
    ASSUME NEW S, NEW f
    PROVE  f \in Maps(S) <=> /\ f = [x \in DOMAIN f |-> f[x]]
                             /\ DOMAIN f \subseteq Nat
                             /\ \A x \in DOMAIN f : f[x] \in S
<1>1. f \in Maps(S) <=> \E D \in SUBSET Nat : f \in [D -> S]
  BY DEF Maps
<1>2. \A D : f \in [D -> S] <=> /\ f = [x \in D |-> f[x]] /\ DOMAIN f = D
                               /\ \A x \in D : f[x] \in S
  OBVIOUS
<1> QED
  BY <1>1, <1>2

(* InsertAt moves what follows one place on.                               *)
LEMMA InsertAtIs ==
    ASSUME NEW S, NEW s \in Seq(S), NEW i \in 1 .. Len(s) + 1, NEW e \in S
    PROVE  /\ InsertAt(s, i, e) \in Seq(S)
           /\ Len(InsertAt(s, i, e)) = Len(s) + 1
           /\ \A k \in 1 .. Len(s) + 1 :
                InsertAt(s, i, e)[k] =
                    IF k < i THEN s[k] ELSE IF k = i THEN e ELSE s[k - 1]
<1> DEFINE a == SubSeq(s, 1, i - 1)
           b == a \o <<e>>
           c == SubSeq(s, i, Len(s))
<1>1. Len(s) \in Nat /\ \A k \in 1 .. Len(s) : s[k] \in S
  BY LenProperties, ElementOfSeq
<1>2. /\ a \in Seq(S) /\ Len(a) = i - 1
      /\ \A k \in 1 .. i - 1 : a[k] = s[k]
  <2>1. \A k \in 1 .. i - 1 : s[k] \in S
    BY <1>1
  <2> QED
    BY <1>1, <2>1, SubSeqProperties
<1>3. /\ c \in Seq(S) /\ Len(c) = Len(s) - i + 1
      /\ \A k \in 1 .. Len(s) - i + 1 : c[k] = s[i + k - 1]
  <2>1. \A k \in i .. Len(s) : s[k] \in S
    BY <1>1
  <2> QED
    BY <1>1, <2>1, SubSeqProperties
<1>4. <<e>> \in Seq(S) /\ Len(<<e>>) = 1 /\ <<e>>[1] = e
  OBVIOUS
<1>5. /\ b \in Seq(S) /\ Len(b) = i
      /\ \A k \in 1 .. i : b[k] = IF k < i THEN s[k] ELSE e
  BY <1>1, <1>2, <1>4, ConcatProperties
<1>6. /\ b \o c \in Seq(S) /\ Len(b \o c) = Len(s) + 1
      /\ \A k \in 1 .. Len(s) + 1 :
            (b \o c)[k] = IF k <= i THEN b[k] ELSE c[k - i]
  <2> HIDE DEF b, c
  <2>1. /\ b \o c \in Seq(S) /\ Len(b \o c) = Len(b) + Len(c)
        /\ \A k \in 1 .. Len(b) + Len(c) :
              (b \o c)[k] = IF k <= Len(b) THEN b[k] ELSE c[k - Len(b)]
    BY <1>3, <1>5, ConcatProperties
  <2>2. Len(b) = i /\ Len(b) + Len(c) = Len(s) + 1
    BY <1>1, <1>3, <1>5
  <2> QED
    BY <2>1, <2>2
<1>7. \A k \in 1 .. Len(s) + 1 :
        (b \o c)[k] = IF k < i THEN s[k] ELSE IF k = i THEN e ELSE s[k - 1]
  <2> SUFFICES ASSUME NEW k \in 1 .. Len(s) + 1
               PROVE  (b \o c)[k] =
                        IF k < i THEN s[k] ELSE IF k = i THEN e ELSE s[k - 1]
    OBVIOUS
  <2> HIDE DEF b, c
  <2>1. CASE k <= i
    BY <1>1, <1>5, <1>6, <2>1
  <2>2. CASE k > i
    <3>1. k - i \in 1 .. Len(s) - i + 1 /\ i + (k - i) - 1 = k - 1
      BY <1>1, <2>2
    <3>2. (b \o c)[k] = c[k - i]
      BY <1>6, <2>2
    <3>3. c[k - i] = s[i + (k - i) - 1]
      BY <1>3, <3>1
    <3> QED
      BY <1>1, <2>2, <3>1, <3>2, <3>3
  <2>3. k <= i \/ k > i
    BY <1>1
  <2> QED
    BY <2>1, <2>2, <2>3
<1> QED
  BY <1>6, <1>7 DEF InsertAt

(* RemoveAt moves what follows one place back.                             *)
LEMMA RemoveAtIs ==
    ASSUME NEW S, NEW s \in Seq(S), NEW i \in 1 .. Len(s)
    PROVE  /\ RemoveAt(s, i) \in Seq(S)
           /\ Len(RemoveAt(s, i)) = Len(s) - 1
           /\ \A k \in 1 .. Len(s) - 1 :
                RemoveAt(s, i)[k] = IF k < i THEN s[k] ELSE s[k + 1]
<1> DEFINE a == SubSeq(s, 1, i - 1)
           c == SubSeq(s, i + 1, Len(s))
<1>1. Len(s) \in Nat /\ \A k \in 1 .. Len(s) : s[k] \in S
  BY LenProperties, ElementOfSeq
<1>2. /\ a \in Seq(S) /\ Len(a) = i - 1
      /\ \A k \in 1 .. i - 1 : a[k] = s[k]
  <2>1. \A k \in 1 .. i - 1 : s[k] \in S
    BY <1>1
  <2> QED
    BY <1>1, <2>1, SubSeqProperties
<1>3. /\ c \in Seq(S) /\ Len(c) = Len(s) - i
      /\ \A k \in 1 .. Len(s) - i : c[k] = s[i + k]
  <2>1. \A k \in i + 1 .. Len(s) : s[k] \in S
    BY <1>1
  <2>2. /\ c \in Seq(S)
        /\ Len(c) = IF i + 1 <= Len(s) THEN Len(s) - (i + 1) + 1 ELSE 0
        /\ \A k \in 1 .. Len(s) - (i + 1) + 1 : c[k] = s[i + 1 + k - 1]
    BY <1>1, <2>1, SubSeqProperties
  <2> HIDE DEF c
  <2> QED
    BY <1>1, <2>2
<1>4. /\ a \o c \in Seq(S) /\ Len(a \o c) = Len(s) - 1
      /\ \A k \in 1 .. Len(s) - 1 :
            (a \o c)[k] = IF k <= i - 1 THEN a[k] ELSE c[k - (i - 1)]
  <2> HIDE DEF a, c
  <2>1. /\ a \o c \in Seq(S) /\ Len(a \o c) = Len(a) + Len(c)
        /\ \A k \in 1 .. Len(a) + Len(c) :
              (a \o c)[k] = IF k <= Len(a) THEN a[k] ELSE c[k - Len(a)]
    BY <1>2, <1>3, ConcatProperties
  <2>2. Len(a) = i - 1 /\ Len(a) + Len(c) = Len(s) - 1
    BY <1>1, <1>2, <1>3
  <2> QED
    BY <2>1, <2>2
<1>5. \A k \in 1 .. Len(s) - 1 :
        (a \o c)[k] = IF k < i THEN s[k] ELSE s[k + 1]
  <2> SUFFICES ASSUME NEW k \in 1 .. Len(s) - 1
               PROVE  (a \o c)[k] = IF k < i THEN s[k] ELSE s[k + 1]
    OBVIOUS
  <2> HIDE DEF a, c
  <2>1. CASE k <= i - 1
    BY <1>1, <1>2, <1>4, <2>1
  <2>2. CASE k > i - 1
    <3>1. k - (i - 1) \in 1 .. Len(s) - i /\ i + (k - (i - 1)) = k + 1
      BY <1>1, <2>2
    <3>2. (a \o c)[k] = c[k - (i - 1)]
      BY <1>4, <2>2
    <3>3. c[k - (i - 1)] = s[i + (k - (i - 1))]
      BY <1>3, <3>1
    <3> QED
      BY <1>1, <2>2, <3>1, <3>2, <3>3
  <2>3. k <= i - 1 \/ k > i - 1
    BY <1>1
  <2> QED
    BY <2>1, <2>2, <2>3
<1> QED
  BY <1>4, <1>5 DEF RemoveAt

(* A pane that is new goes in once, and nothing else comes or goes.        *)
LEMMA InsertedOnce ==
    ASSUME NEW S, NEW s \in Seq(S), NEW i \in 1 .. Len(s) + 1, NEW e \in S,
           IsInjective(s), e \notin ToSet(s)
    PROVE  /\ IsInjective(InsertAt(s, i, e))
           /\ \A x : x \in ToSet(InsertAt(s, i, e)) <=> x \in ToSet(s) \/ x = e
           /\ InsertAt(s, i, e) # <<>>
<1> DEFINE r == InsertAt(s, i, e)
           from(k) == IF k < i THEN k ELSE k - 1
<1>1. Len(s) \in Nat /\ DOMAIN s = 1 .. Len(s)
  BY LenProperties
<1>2. /\ r \in Seq(S) /\ Len(r) = Len(s) + 1 /\ DOMAIN r = 1 .. Len(s) + 1
      /\ \A k \in 1 .. Len(s) + 1 :
           r[k] = IF k < i THEN s[k] ELSE IF k = i THEN e ELSE s[k - 1]
  BY <1>1, InsertAtIs, LenProperties
<1> HIDE DEF r
<1>3. \A k \in (1 .. Len(s) + 1) \ {i} :
        from(k) \in 1 .. Len(s) /\ r[k] = s[from(k)]
  <2> SUFFICES ASSUME NEW k \in (1 .. Len(s) + 1) \ {i}
               PROVE  from(k) \in 1 .. Len(s) /\ r[k] = s[from(k)]
    OBVIOUS
  <2>1. k < i \/ k > i
    BY <1>1
  <2> QED
    BY <1>1, <1>2, <2>1
<1>4. r[i] = e /\ i \in 1 .. Len(s) + 1
  BY <1>1, <1>2
<1>5. \A k \in 1 .. Len(s) : s[k] # e
  BY <1>1 DEF ToSet
<1>6. IsInjective(r)
  <2> SUFFICES ASSUME NEW j \in 1 .. Len(s) + 1, NEW k \in 1 .. Len(s) + 1,
                      r[j] = r[k]
               PROVE  j = k
    BY <1>2 DEF IsInjective
  <2>1. CASE j = i \/ k = i
    <3> HIDE DEF from
    <3> QED
      BY <1>3, <1>4, <1>5, <2>1
  <2>2. CASE j # i /\ k # i
    <3>1. from(j) = from(k)
      <4> HIDE DEF from
      <4> QED
        BY <1>1, <1>3, <2>2 DEF IsInjective
    <3> QED
      BY <1>1, <2>2, <3>1
  <2> QED
    BY <2>1, <2>2
<1>7. ToSet(r) \subseteq ToSet(s) \cup {e}
  <2> HIDE DEF from
  <2> QED
    BY <1>1, <1>2, <1>3, <1>4 DEF ToSet
<1>8. ToSet(s) \subseteq ToSet(r)
  <2> SUFFICES ASSUME NEW k \in 1 .. Len(s)
               PROVE  \E j \in 1 .. Len(s) + 1 : r[j] = s[k]
    BY <1>1, <1>2 DEF ToSet
  <2>1. CASE k < i
    BY <1>1, <1>2, <2>1
  <2>2. CASE ~(k < i)
    <3>1. k + 1 \in 1 .. Len(s) + 1 /\ ~(k + 1 < i) /\ k + 1 # i /\ (k + 1) - 1 = k
      BY <1>1, <2>2
    <3>2. r[k + 1] = s[(k + 1) - 1]
      BY <1>2, <3>1
    <3> QED
      BY <3>1, <3>2
  <2> QED
    BY <2>1, <2>2
<1>9. e \in ToSet(r) /\ r # <<>>
  BY <1>1, <1>2, <1>4 DEF ToSet
<1> QED
  BY <1>6, <1>7, <1>8, <1>9 DEF r

(* A pane that is there once is gone when it is removed, and no other.     *)
LEMMA RemovedOnce ==
    ASSUME NEW S, NEW s \in Seq(S), NEW i \in 1 .. Len(s), IsInjective(s)
    PROVE  /\ IsInjective(RemoveAt(s, i))
           /\ ToSet(RemoveAt(s, i)) = ToSet(s) \ {s[i]}
           /\ Len(s) > 1 => /\ RemoveAt(s, i) # <<>>
                            /\ RemoveAt(s, i)[1] \in ToSet(RemoveAt(s, i))
<1> DEFINE r == RemoveAt(s, i)
           from(k) == IF k < i THEN k ELSE k + 1
<1>1. Len(s) \in Nat /\ DOMAIN s = 1 .. Len(s)
  BY LenProperties
<1>2. /\ r \in Seq(S) /\ Len(r) = Len(s) - 1 /\ DOMAIN r = 1 .. Len(s) - 1
      /\ \A k \in 1 .. Len(s) - 1 : r[k] = IF k < i THEN s[k] ELSE s[k + 1]
  BY <1>1, RemoveAtIs, LenProperties
<1> HIDE DEF r
<1>3. \A k \in 1 .. Len(s) - 1 :
        from(k) \in (1 .. Len(s)) \ {i} /\ r[k] = s[from(k)]
  <2> SUFFICES ASSUME NEW k \in 1 .. Len(s) - 1
               PROVE  from(k) \in (1 .. Len(s)) \ {i} /\ r[k] = s[from(k)]
    OBVIOUS
  <2>1. k < i \/ k >= i
    BY <1>1
  <2> QED
    BY <1>1, <1>2, <2>1
<1>4. IsInjective(r)
  <2> SUFFICES ASSUME NEW j \in 1 .. Len(s) - 1, NEW k \in 1 .. Len(s) - 1,
                      r[j] = r[k]
               PROVE  j = k
    BY <1>2 DEF IsInjective
  <2>1. from(j) = from(k)
    <3> HIDE DEF from
    <3> QED
      BY <1>1, <1>3 DEF IsInjective
  <2> QED
    BY <1>1, <2>1
<1>5. ToSet(r) \subseteq ToSet(s) \ {s[i]}
  <2> SUFFICES ASSUME NEW k \in 1 .. Len(s) - 1
               PROVE  r[k] \in ToSet(s) /\ r[k] # s[i]
    BY <1>2 DEF ToSet
  <2> HIDE DEF from
  <2> QED
    BY <1>1, <1>3 DEF IsInjective, ToSet
<1>6. ToSet(s) \ {s[i]} \subseteq ToSet(r)
  <2>1. ASSUME NEW k \in 1 .. Len(s), k < i
        PROVE  s[k] \in ToSet(r)
    <3>1. k \in 1 .. Len(s) - 1 /\ r[k] = s[k]
      BY <1>1, <1>2, <2>1
    <3> QED
      BY <1>2, <3>1 DEF ToSet
  <2>2. ASSUME NEW k \in 1 .. Len(s), k > i
        PROVE  s[k] \in ToSet(r)
    <3>1. k - 1 \in 1 .. Len(s) - 1 /\ ~(k - 1 < i) /\ (k - 1) + 1 = k
      BY <1>1, <2>2
    <3>2. r[k - 1] = s[(k - 1) + 1]
      BY <1>2, <3>1
    <3> QED
      BY <1>2, <3>1, <3>2 DEF ToSet
  <2>3. \A k \in 1 .. Len(s) : k < i \/ k > i \/ k = i
    BY <1>1
  <2> QED
    BY <1>1, <2>1, <2>2, <2>3 DEF ToSet
<1>7. Len(s) > 1 => r # <<>> /\ r[1] \in ToSet(r)
  <2> SUFFICES ASSUME Len(s) > 1
               PROVE  1 \in 1 .. Len(s) - 1 /\ Len(r) # 0
    BY <1>2 DEF ToSet
  <2> QED
    BY <1>1, <1>2
<1> QED
  BY <1>4, <1>5, <1>6, <1>7 DEF r

(* A map with one more entry, and with one less.                           *)
LEMMA WithIs ==
    ASSUME NEW S, NEW f \in Maps(S), NEW x \in Nat, NEW v \in S
    PROVE  /\ With(f, x, v) \in Maps(S)
           /\ \A y : y \in DOMAIN With(f, x, v) <=> y \in DOMAIN f \/ y = x
           /\ With(f, x, v)[x] = v
           /\ \A y \in DOMAIN f \ {x} : With(f, x, v)[y] = f[y]
<1>1. /\ DOMAIN With(f, x, v) = DOMAIN f \cup {x}
      /\ With(f, x, v) = [y \in DOMAIN With(f, x, v) |-> With(f, x, v)[y]]
      /\ With(f, x, v)[x] = v
      /\ \A y \in DOMAIN f \ {x} : With(f, x, v)[y] = f[y]
  BY DEF With
<1>2. DOMAIN f \subseteq Nat /\ \A y \in DOMAIN f : f[y] \in S
  BY MapFacts
<1>3. \A y \in DOMAIN f \cup {x} : With(f, x, v)[y] \in S
  BY <1>1, <1>2
<1> QED
  BY <1>1, <1>2, <1>3, MapFacts

LEMMA WithoutIs ==
    ASSUME NEW S, NEW f \in Maps(S), NEW x
    PROVE  /\ Without(f, x) \in Maps(S)
           /\ DOMAIN Without(f, x) = DOMAIN f \ {x}
           /\ \A y \in DOMAIN f \ {x} : Without(f, x)[y] = f[y]
<1>1. /\ DOMAIN Without(f, x) = DOMAIN f \ {x}
      /\ Without(f, x) = [y \in DOMAIN Without(f, x) |-> Without(f, x)[y]]
      /\ \A y \in DOMAIN f \ {x} : Without(f, x)[y] = f[y]
  BY DEF Without
<1>2. DOMAIN f \subseteq Nat /\ \A y \in DOMAIN f : f[y] \in S
  BY MapFacts
<1> QED
  BY <1>1, <1>2, MapFacts

-----------------------------------------------------------------------------
(* Tabs.                                                                   *)

GoodTab(tab) == tab \in TabSet /\ Coherent(tab)

(* The pane of a tab is at its position.                                   *)
LEMMA PositionIs ==
    ASSUME NEW tab, GoodTab(tab), NEW p \in DOMAIN tab.token
    PROVE  /\ Position(tab, p) \in 1 .. Len(tab.panes)
           /\ tab.panes[Position(tab, p)] = p
<1>1. tab.panes \in Seq(Nat) /\ p \in ToSet(tab.panes)
  BY DEF GoodTab, TabSet, Coherent
<1>2. \E i \in 1 .. Len(tab.panes) : tab.panes[i] = p
  BY <1>1, LenProperties DEF ToSet
<1> QED
  BY <1>2 DEF Position

(* A new tab has the pane 0 and its one token.                             *)
LEMMA NewTabIs ==
    ASSUME NEW t \in Nat
    PROVE  /\ GoodTab(NewTab(t))
           /\ NewTab(t).token = [p \in {0} |-> t]
           /\ NewTab(t).role = [p \in {0} |-> "chat"]
<1>1. [p \in {0} |-> t] \in TokenMaps /\ [p \in {0} |-> "chat"] \in RoleMaps
  BY MapFacts DEF TokenMaps, RoleMaps
<1>2. <<0>> \in Seq(Nat) /\ ToSet(<<0>>) = {0} /\ IsInjective(<<0>>) /\ <<0>> # <<>>
  BY DEF ToSet, IsInjective
<1>3. NewTab(t) \in TabSet
  BY <1>1, <1>2 DEF NewTab, TabSet
<1>4. Coherent(NewTab(t))
  BY <1>2 DEF Coherent, NewTab
<1> QED
  BY <1>3, <1>4 DEF GoodTab, NewTab

(* A split adds one pane, which no other pane of the tab was.              *)
LEMMA SplitTabIs ==
    ASSUME NEW tab, GoodTab(tab), NEW t \in Nat
    PROVE  /\ GoodTab(SplitTab(tab, t))
           /\ tab.nextPane \in Nat \ DOMAIN tab.token
           /\ SplitTab(tab, t).token = With(tab.token, tab.nextPane, t)
           /\ SplitTab(tab, t).role = With(tab.role, tab.nextPane, "shell")
<1> SUFFICES ASSUME NEW new, new = tab.nextPane,
                    NEW i, i = Position(tab, tab.focused) + 1
             PROVE  /\ GoodTab(SplitTab(tab, t))
                    /\ new \in Nat \ DOMAIN tab.token
                    /\ SplitTab(tab, t).token = With(tab.token, new, t)
                    /\ SplitTab(tab, t).role = With(tab.role, new, "shell")
  OBVIOUS
<1> DEFINE panes == InsertAt(tab.panes, i, new)
           role == With(tab.role, new, "shell")
           token == With(tab.token, new, t)
<1>1. /\ tab.panes \in Seq(Nat) /\ tab.role \in RoleMaps /\ tab.token \in TokenMaps
      /\ new \in Nat /\ tab.zoom \in Nat \cup {NoZoom}
  BY DEF GoodTab, TabSet
<1>2. /\ IsInjective(tab.panes) /\ ToSet(tab.panes) = DOMAIN tab.token
      /\ ToSet(tab.panes) = DOMAIN tab.role /\ tab.focused \in DOMAIN tab.token
      /\ tab.zoom \in DOMAIN tab.token \cup {NoZoom}
      /\ \A p \in DOMAIN tab.token : p < new
  BY DEF GoodTab, Coherent
<1>3. DOMAIN tab.token \subseteq Nat
  BY <1>1, MapFacts DEF TokenMaps
<1>4. new \notin DOMAIN tab.token
  BY <1>1, <1>2, <1>3
<1>5. i \in 1 .. Len(tab.panes) + 1
  <2>1. Position(tab, tab.focused) \in 1 .. Len(tab.panes) /\ Len(tab.panes) \in Nat
    BY <1>1, <1>2, PositionIs, LenProperties
  <2> QED
    BY <2>1
<1>6. /\ panes \in Seq(Nat) /\ IsInjective(panes) /\ panes # <<>>
      /\ \A x : x \in ToSet(panes) <=> x \in ToSet(tab.panes) \/ x = new
  <2>1. new \notin ToSet(tab.panes)
    BY <1>2, <1>4
  <2>2. /\ tab.panes \in Seq(Nat) /\ i \in 1 .. Len(tab.panes) + 1
        /\ new \in Nat /\ IsInjective(tab.panes)
    BY <1>1, <1>2, <1>5
  <2>3. panes \in Seq(Nat)
    BY <2>2, InsertAtIs, Zenon
  <2>4. IsInjective(panes)
    BY <2>1, <2>2, InsertedOnce
  <2>5. panes # <<>>
    BY <2>1, <2>2, InsertedOnce
  <2>6. \A x : x \in ToSet(panes) <=> x \in ToSet(tab.panes) \/ x = new
    BY <2>1, <2>2, InsertedOnce
  <2> QED
    BY <2>3, <2>4, <2>5, <2>6
<1>7. /\ token \in TokenMaps
      /\ \A x : x \in DOMAIN token <=> x \in DOMAIN tab.token \/ x = new
  BY <1>1, WithIs DEF TokenMaps
<1>8. /\ role \in RoleMaps
      /\ \A x : x \in DOMAIN role <=> x \in DOMAIN tab.role \/ x = new
  BY <1>1, WithIs DEF RoleMaps
<1>9. SplitTab(tab, t) = [panes |-> panes, role |-> role, token |-> token,
                          focused |-> new, zoom |-> tab.zoom, nextPane |-> new + 1]
  BY DEF SplitTab
<1> HIDE DEF panes, role, token
<1>10. SplitTab(tab, t) \in TabSet
  BY <1>1, <1>6, <1>7, <1>8, <1>9 DEF TabSet
<1>11. \A p \in DOMAIN token : p < new + 1
  <2> SUFFICES ASSUME NEW p \in DOMAIN token
               PROVE  p < new + 1
    OBVIOUS
  <2>1. p \in Nat /\ (p = new \/ p < new)
    BY <1>1, <1>2, <1>3, <1>7
  <2> QED
    BY <1>1, <2>1
<1>12. Coherent(SplitTab(tab, t))
  <2> DEFINE tab2 == SplitTab(tab, t)
  <2>1. /\ tab2.panes = panes /\ tab2.role = role /\ tab2.token = token
        /\ tab2.focused = new /\ tab2.zoom = tab.zoom /\ tab2.nextPane = new + 1
    BY <1>9
  <2>2. /\ ToSet(panes) = DOMAIN token /\ ToSet(panes) = DOMAIN role
        /\ new \in DOMAIN token /\ tab.zoom \in DOMAIN token \cup {NoZoom}
    BY <1>2, <1>6, <1>7, <1>8
  <2> HIDE DEF tab2
  <2>3. Coherent(tab2)
    BY <1>6, <1>11, <2>1, <2>2 DEF Coherent
  <2> QED
    BY <2>3 DEF tab2
<1> QED
  BY <1>1, <1>4, <1>9, <1>10, <1>12 DEF GoodTab, token, role

(* Closing one of several panes takes that one, whatever is zoomed.        *)
LEMMA CloseInIs ==
    ASSUME NEW tab, GoodTab(tab), NEW v \in DOMAIN tab.token, Len(tab.panes) > 1
    PROVE  /\ GoodTab(CloseIn(tab, v))
           /\ CloseIn(tab, v).token = Without(tab.token, v)
           /\ CloseIn(tab, v).role = Without(tab.role, v)
<1> DEFINE i == Position(tab, v)
           panes == RemoveAt(tab.panes, i)
           role == Without(tab.role, v)
           token == Without(tab.token, v)
           zoom == IF tab.zoom = v THEN NoZoom ELSE tab.zoom
<1>1. /\ tab.panes \in Seq(Nat) /\ tab.role \in RoleMaps /\ tab.token \in TokenMaps
      /\ tab.nextPane \in Nat /\ tab.zoom \in Nat \cup {NoZoom}
  BY DEF GoodTab, TabSet
<1>2. /\ IsInjective(tab.panes) /\ ToSet(tab.panes) = DOMAIN tab.token
      /\ ToSet(tab.panes) = DOMAIN tab.role
      /\ tab.zoom \in DOMAIN tab.token \cup {NoZoom}
      /\ \A p \in DOMAIN tab.token : p < tab.nextPane
  BY DEF GoodTab, Coherent
<1>3. i \in 1 .. Len(tab.panes) /\ tab.panes[i] = v
  BY PositionIs
<1>4. /\ panes \in Seq(Nat) /\ IsInjective(panes) /\ panes # <<>>
      /\ ToSet(panes) = ToSet(tab.panes) \ {v} /\ panes[1] \in ToSet(panes)
  BY <1>1, <1>2, <1>3, RemoveAtIs, RemovedOnce
<1>5. token \in TokenMaps /\ DOMAIN token = DOMAIN tab.token \ {v}
  BY <1>1, WithoutIs DEF TokenMaps
<1>6. role \in RoleMaps /\ DOMAIN role = DOMAIN tab.role \ {v}
  BY <1>1, WithoutIs DEF RoleMaps
<1>7. DOMAIN token \subseteq Nat
  BY <1>5, MapFacts DEF TokenMaps
<1>8. zoom \in Nat \cup {NoZoom} /\ zoom \in DOMAIN token \cup {NoZoom}
  BY <1>1, <1>2, <1>5
<1>9. CloseIn(tab, v) = [panes |-> panes, role |-> role, token |-> token,
                         focused |-> panes[1], zoom |-> zoom,
                         nextPane |-> tab.nextPane]
  BY DEF CloseIn
<1> HIDE DEF panes, role, token, zoom, i
<1>10. panes[1] \in DOMAIN token
  BY <1>2, <1>4, <1>5
<1>11. CloseIn(tab, v) \in TabSet
  BY <1>1, <1>4, <1>5, <1>6, <1>7, <1>8, <1>9, <1>10 DEF TabSet
<1>12. Coherent(CloseIn(tab, v))
  <2> DEFINE tab2 == CloseIn(tab, v)
  <2>1. /\ tab2.panes = panes /\ tab2.role = role /\ tab2.token = token
        /\ tab2.focused = panes[1] /\ tab2.zoom = zoom
        /\ tab2.nextPane = tab.nextPane
    BY <1>9
  <2>2. /\ ToSet(panes) = DOMAIN token /\ ToSet(panes) = DOMAIN role
        /\ \A p \in DOMAIN token : p < tab.nextPane
    BY <1>2, <1>4, <1>5, <1>6
  <2> HIDE DEF tab2
  <2>3. Coherent(tab2)
    BY <1>4, <1>8, <1>10, <2>1, <2>2 DEF Coherent
  <2> QED
    BY <2>3 DEF tab2
<1> QED
  BY <1>9, <1>11, <1>12 DEF GoodTab, token, role

(* Moving the focus or the zoom of a tab leaves its panes alone.           *)
LEMMA RefocusedIs ==
    ASSUME NEW tab, GoodTab(tab), NEW p \in DOMAIN tab.token
    PROVE  LET new == [tab EXCEPT !.focused = p] IN
           /\ GoodTab(new) /\ new.token = tab.token /\ new.role = tab.role
           /\ new.panes = tab.panes /\ new.focused = p
<1>1. p \in Nat
  BY MapFacts DEF GoodTab, TabSet, TokenMaps
<1> QED
  BY <1>1 DEF GoodTab, TabSet, Coherent

LEMMA ZoomedIs ==
    ASSUME NEW tab, GoodTab(tab), NEW z \in {NoZoom, tab.focused}
    PROVE  LET new == [tab EXCEPT !.zoom = z] IN
           /\ GoodTab(new) /\ new.token = tab.token /\ new.role = tab.role
BY DEF GoodTab, TabSet, Coherent

-----------------------------------------------------------------------------
(* One backend for each pane: BackendsInLockstep of any tabs and backends, *)
(* pane by pane.                                                           *)

Has(ts, i, p) == i \in 1 .. Len(ts) /\ p \in DOMAIN ts[i].token

Backed(ts, bs) == \A i, p : Has(ts, i, p) => ts[i].token[p] \in DOMAIN bs
Used(ts, bs) ==
    \A t \in DOMAIN bs : \E i, p : Has(ts, i, p) /\ ts[i].token[p] = t
Distinct(ts) ==
    \A i, p, j, q :
        Has(ts, i, p) /\ Has(ts, j, q) /\ ts[i].token[p] = ts[j].token[q]
            => i = j /\ p = q
Kinds(ts, bs) ==
    \A i, p : Has(ts, i, p) =>
        ((ts[i].role[p] = "chat") <=> (bs[ts[i].token[p]].kind = "chat"))

Lock(ts, bs) == Backed(ts, bs) /\ Used(ts, bs) /\ Distinct(ts) /\ Kinds(ts, bs)

LEMMA LockIsLockstep == BackendsInLockstep <=> Lock(tabs, backends)
<1> DEFINE all == UNION {TokensOf(tabs[i]) : i \in 1 .. Len(tabs)}
<1>1. \A t : t \in all <=> \E i, p : Has(tabs, i, p) /\ tabs[i].token[p] = t
  BY DEF TokensOf, Has
<1> HIDE DEF all
<1>2. DOMAIN backends = all <=> Backed(tabs, backends) /\ Used(tabs, backends)
  BY <1>1 DEF Backed, Used
<1>3. (\A i, j \in 1 .. Len(tabs) :
         \A p \in DOMAIN tabs[i].token, q \in DOMAIN tabs[j].token :
            tabs[i].token[p] = tabs[j].token[q] => i = j /\ p = q)
        <=> Distinct(tabs)
  <2>1. ASSUME \A i, j \in 1 .. Len(tabs) :
                 \A p \in DOMAIN tabs[i].token, q \in DOMAIN tabs[j].token :
                   tabs[i].token[p] = tabs[j].token[q] => i = j /\ p = q
        PROVE  Distinct(tabs)
    BY <2>1 DEF Distinct, Has
  <2>2. ASSUME Distinct(tabs),
               NEW i \in 1 .. Len(tabs), NEW j \in 1 .. Len(tabs),
               NEW p \in DOMAIN tabs[i].token, NEW q \in DOMAIN tabs[j].token,
               tabs[i].token[p] = tabs[j].token[q]
        PROVE  i = j /\ p = q
    <3>1. Has(tabs, i, p) /\ Has(tabs, j, q)
      BY DEF Has
    <3> QED
      BY <2>2, <3>1 DEF Distinct
  <2> QED
    BY <2>1, <2>2
<1>4. (\A i \in 1 .. Len(tabs) : \A p \in DOMAIN tabs[i].token :
         (tabs[i].role[p] = "chat")
            <=> (backends[tabs[i].token[p]].kind = "chat"))
        <=> Kinds(tabs, backends)
  BY DEF Kinds, Has
<1> QED
  BY <1>2, <1>3, <1>4 DEF BackendsInLockstep, Lock, all

(* Nothing moves that a lockstep is about.                                 *)
LEMMA SameTabsLock ==
    ASSUME NEW ts, NEW bs, NEW bs2, Lock(ts, bs), DOMAIN bs2 = DOMAIN bs,
           \A t \in DOMAIN bs : bs2[t].kind = bs[t].kind
    PROVE  Lock(ts, bs2)
BY DEF Lock, Backed, Used, Kinds

(* A tab whose panes stay.                                                 *)
LEMMA SamePanesLock ==
    ASSUME NEW ts \in Seq(TabSet), NEW a \in 1 .. Len(ts), NEW new \in TabSet,
           NEW bs, Lock(ts, bs), new.token = ts[a].token, new.role = ts[a].role
    PROVE  Lock([ts EXCEPT ![a] = new], bs)
<1> DEFINE ts2 == [ts EXCEPT ![a] = new]
<1>1. /\ Len(ts2) = Len(ts)
      /\ \A i \in 1 .. Len(ts) :
            ts2[i].token = ts[i].token /\ ts2[i].role = ts[i].role
  BY ExceptSeq
<1> HIDE DEF ts2
<1>2. \A i, p : Has(ts2, i, p) <=> Has(ts, i, p)
  BY <1>1 DEF Has
<1>3. \A i, p : Has(ts, i, p) => /\ ts2[i].token[p] = ts[i].token[p]
                                 /\ ts2[i].role[p] = ts[i].role[p]
  BY <1>1 DEF Has
<1>4. Backed(ts2, bs) /\ Used(ts2, bs)
  BY <1>2, <1>3 DEF Lock, Backed, Used
<1>5. Distinct(ts2)
  BY <1>2, <1>3 DEF Lock, Distinct
<1>6. Kinds(ts2, bs)
  BY <1>2, <1>3 DEF Lock, Kinds
<1> QED
  BY <1>4, <1>5, <1>6 DEF Lock, ts2

(* A pane more, with a backend of its own.                                 *)
LEMMA SplitLock ==
    ASSUME NEW ts \in Seq(TabSet), NEW a \in 1 .. Len(ts), NEW new \in TabSet,
           NEW bs, Lock(ts, bs), NEW t \in Nat, t \notin DOMAIN bs,
           NEW b, b.kind # "chat", NEW pane \in Nat,
           pane \notin DOMAIN ts[a].token, Coherent(ts[a]),
           new.token = With(ts[a].token, pane, t),
           new.role = With(ts[a].role, pane, "shell")
    PROVE  Lock([ts EXCEPT ![a] = new], With(bs, t, b))
<1> DEFINE ts2 == [ts EXCEPT ![a] = new]
           bs2 == With(bs, t, b)
<1>1. /\ Len(ts2) = Len(ts) /\ ts2[a] = new
      /\ \A i \in 1 .. Len(ts) : i # a => ts2[i] = ts[i]
  BY ExceptSeq
<1>2. /\ \A x : x \in DOMAIN bs2 <=> x \in DOMAIN bs \/ x = t
      /\ bs2[t] = b /\ \A x \in DOMAIN bs : bs2[x] = bs[x]
  BY DEF With
<1>3. DOMAIN ts[a].role = DOMAIN ts[a].token
  BY DEF Coherent
<1>4. /\ \A p : p \in DOMAIN new.token <=> p \in DOMAIN ts[a].token \/ p = pane
      /\ new.token[pane] = t /\ new.role[pane] = "shell"
      /\ \A p \in DOMAIN ts[a].token : /\ new.token[p] = ts[a].token[p]
                                       /\ new.role[p] = ts[a].role[p]
  BY <1>3 DEF With
<1> HIDE DEF ts2, bs2
<1>5. \A i, p : Has(ts2, i, p) <=> Has(ts, i, p) \/ (i = a /\ p = pane)
  BY <1>1, <1>4 DEF Has
<1>6. \A i, p : Has(ts, i, p) => /\ ts2[i].token[p] = ts[i].token[p]
                                 /\ ts2[i].role[p] = ts[i].role[p]
                                 /\ ~(i = a /\ p = pane)
  BY <1>1, <1>4 DEF Has
<1>7. ts2[a].token[pane] = t /\ ts2[a].role[pane] = "shell"
  BY <1>1, <1>4
<1>8. Backed(ts2, bs2)
  BY <1>2, <1>5, <1>6, <1>7 DEF Lock, Backed
<1>9. Used(ts2, bs2)
  <2>1. Has(ts2, a, pane)
    BY <1>5
  <2> QED
    BY <1>2, <1>5, <1>6, <1>7, <2>1 DEF Lock, Used
<1>10. Distinct(ts2)
  <2>1. \A i, p : Has(ts, i, p) => ts2[i].token[p] # t
    BY <1>6 DEF Lock, Backed
  <2> QED
    BY <1>5, <1>6, <1>7, <2>1 DEF Lock, Distinct
<1>11. Kinds(ts2, bs2)
  <2> SUFFICES ASSUME NEW i, NEW p, Has(ts2, i, p)
               PROVE  (ts2[i].role[p] = "chat")
                        <=> (bs2[ts2[i].token[p]].kind = "chat")
    BY DEF Kinds
  <2>1. CASE i = a /\ p = pane
    BY <1>2, <1>7, <2>1
  <2>2. CASE Has(ts, i, p)
    <3>1. /\ ts[i].token[p] \in DOMAIN bs
          /\ (ts[i].role[p] = "chat") <=> (bs[ts[i].token[p]].kind = "chat")
      BY <2>2 DEF Lock, Backed, Kinds
    <3> QED
      BY <1>2, <1>6, <2>2, <3>1
  <2> QED
    BY <1>5, <2>1, <2>2
<1> QED
  BY <1>8, <1>9, <1>10, <1>11 DEF Lock, ts2, bs2

(* A pane less, and its backend.                                           *)
LEMMA CloseLock ==
    ASSUME NEW ts \in Seq(TabSet), NEW a \in 1 .. Len(ts), NEW new \in TabSet,
           NEW bs, Lock(ts, bs), NEW v \in DOMAIN ts[a].token, Coherent(ts[a]),
           new.token = Without(ts[a].token, v), new.role = Without(ts[a].role, v)
    PROVE  Lock([ts EXCEPT ![a] = new], Drop(bs, {ts[a].token[v]}))
<1> DEFINE ts2 == [ts EXCEPT ![a] = new]
           bs2 == Drop(bs, {ts[a].token[v]})
<1>1. /\ Len(ts2) = Len(ts) /\ ts2[a] = new
      /\ \A i \in 1 .. Len(ts) : i # a => ts2[i] = ts[i]
  BY ExceptSeq
<1>2. /\ \A x : x \in DOMAIN bs2 <=> x \in DOMAIN bs /\ x # ts[a].token[v]
      /\ \A x \in DOMAIN bs2 : bs2[x] = bs[x]
  BY DEF Drop
<1>3. DOMAIN ts[a].role = DOMAIN ts[a].token
  BY DEF Coherent
<1>4. /\ \A p : p \in DOMAIN new.token <=> p \in DOMAIN ts[a].token /\ p # v
      /\ \A p \in DOMAIN new.token : /\ new.token[p] = ts[a].token[p]
                                     /\ new.role[p] = ts[a].role[p]
  BY <1>3 DEF Without
<1> HIDE DEF ts2, bs2
<1>5. \A i, p : Has(ts2, i, p) <=> Has(ts, i, p) /\ ~(i = a /\ p = v)
  BY <1>1, <1>4 DEF Has
<1>6. \A i, p : Has(ts2, i, p) => /\ ts2[i].token[p] = ts[i].token[p]
                                  /\ ts2[i].role[p] = ts[i].role[p]
  BY <1>1, <1>4 DEF Has
<1>7. Has(ts, a, v)
  BY DEF Has
<1>8. \A i, p : Has(ts2, i, p) => ts2[i].token[p] # ts[a].token[v]
  BY <1>5, <1>6, <1>7 DEF Lock, Distinct
<1>9. Backed(ts2, bs2)
  BY <1>2, <1>5, <1>6, <1>8 DEF Lock, Backed
<1>10. Used(ts2, bs2)
  <2> SUFFICES ASSUME NEW x \in DOMAIN bs2
               PROVE  \E i, p : Has(ts2, i, p) /\ ts2[i].token[p] = x
    BY DEF Used
  <2>1. PICK i, p : Has(ts, i, p) /\ ts[i].token[p] = x
    BY <1>2 DEF Lock, Used
  <2>2. ~(i = a /\ p = v)
    BY <1>2, <2>1
  <2> QED
    BY <1>5, <1>6, <2>1, <2>2
<1>11. Distinct(ts2)
  BY <1>5, <1>6 DEF Lock, Distinct
<1>12. Kinds(ts2, bs2)
  BY <1>2, <1>5, <1>6, <1>9 DEF Lock, Kinds, Backed
<1> QED
  BY <1>9, <1>10, <1>11, <1>12 DEF Lock, ts2, bs2

(* A tab more.                                                             *)
LEMMA AppendLock ==
    ASSUME NEW ts \in Seq(TabSet), NEW bs, Lock(ts, bs), NEW t \in Nat,
           t \notin DOMAIN bs
    PROVE  Lock(Append(ts, NewTab(t)), With(bs, t, Chat))
<1> DEFINE new == NewTab(t)
           ts2 == Append(ts, new)
           bs2 == With(bs, t, Chat)
           n == Len(ts) + 1
<1>1. new \in TabSet /\ new.token = [p \in {0} |-> t] /\ new.role = [p \in {0} |-> "chat"]
  BY NewTabIs DEF GoodTab
<1>2. Len(ts) \in Nat
  BY LenProperties
<1>3. /\ Len(ts2) = n /\ ts2[n] = new /\ \A i \in 1 .. Len(ts) : ts2[i] = ts[i]
  <2> HIDE DEF new
  <2> QED
    BY <1>1, AppendProperties
<1>4. /\ \A x : x \in DOMAIN bs2 <=> x \in DOMAIN bs \/ x = t
      /\ bs2[t].kind = "chat" /\ \A x \in DOMAIN bs : bs2[x] = bs[x]
  BY DEF With, Chat
<1> HIDE DEF new, ts2, bs2
<1>5. \A i, p : Has(ts2, i, p) <=> Has(ts, i, p) \/ (i = n /\ p = 0)
  <2>1. \A i : i \in 1 .. n <=> i \in 1 .. Len(ts) \/ i = n
    BY <1>2
  <2>2. n \notin 1 .. Len(ts)
    BY <1>2
  <2> HIDE DEF n
  <2> QED
    BY <1>1, <1>3, <2>1, <2>2 DEF Has
<1>6. \A i, p : Has(ts, i, p) => ts2[i] = ts[i] /\ i # n
  BY <1>2, <1>3 DEF Has
<1>7. ts2[n].token[0] = t /\ ts2[n].role[0] = "chat"
  BY <1>1, <1>3
<1> HIDE DEF n
<1>8. Backed(ts2, bs2)
  BY <1>4, <1>5, <1>6, <1>7 DEF Lock, Backed
<1>9. Used(ts2, bs2)
  <2>1. Has(ts2, n, 0)
    BY <1>5
  <2> QED
    BY <1>4, <1>5, <1>6, <1>7, <2>1 DEF Lock, Used
<1>10. Distinct(ts2)
  <2>1. \A i, p : Has(ts, i, p) => ts2[i].token[p] # t
    BY <1>6 DEF Lock, Backed
  <2> QED
    BY <1>5, <1>6, <1>7, <2>1 DEF Lock, Distinct
<1>11. Kinds(ts2, bs2)
  <2> SUFFICES ASSUME NEW i, NEW p, Has(ts2, i, p)
               PROVE  (ts2[i].role[p] = "chat")
                        <=> (bs2[ts2[i].token[p]].kind = "chat")
    BY DEF Kinds
  <2>1. CASE i = n /\ p = 0
    BY <1>4, <1>7, <2>1
  <2>2. CASE Has(ts, i, p)
    <3>1. /\ ts[i].token[p] \in DOMAIN bs
          /\ (ts[i].role[p] = "chat") <=> (bs[ts[i].token[p]].kind = "chat")
      BY <2>2 DEF Lock, Backed, Kinds
    <3> QED
      BY <1>4, <1>6, <2>2, <3>1
  <2> QED
    BY <1>5, <2>1, <2>2
<1> QED
  BY <1>8, <1>9, <1>10, <1>11 DEF Lock, ts2, bs2, new

(* A tab less, with all its backends.                                      *)
LEMMA RemoveLock ==
    ASSUME NEW ts \in Seq(TabSet), NEW a \in 1 .. Len(ts), NEW bs, Lock(ts, bs)
    PROVE  Lock(RemoveAt(ts, a), Drop(bs, TokensOf(ts[a])))
<1> DEFINE ts2 == RemoveAt(ts, a)
           bs2 == Drop(bs, TokensOf(ts[a]))
           from(k) == IF k < a THEN k ELSE k + 1
<1>1. Len(ts) \in Nat
  BY LenProperties
<1>2. /\ Len(ts2) = Len(ts) - 1
      /\ \A k \in 1 .. Len(ts) - 1 : ts2[k] = IF k < a THEN ts[k] ELSE ts[k + 1]
  BY RemoveAtIs
<1>3. /\ \A x : x \in DOMAIN bs2 <=> x \in DOMAIN bs /\ x \notin TokensOf(ts[a])
      /\ \A x \in DOMAIN bs2 : bs2[x] = bs[x]
  BY DEF Drop
<1>4. \A x : x \in TokensOf(ts[a])
               <=> \E p : Has(ts, a, p) /\ ts[a].token[p] = x
  BY DEF TokensOf, Has
<1> HIDE DEF ts2, bs2
<1>5. \A k \in 1 .. Len(ts) - 1 :
        from(k) \in 1 .. Len(ts) /\ from(k) # a /\ ts2[k] = ts[from(k)]
  <2> SUFFICES ASSUME NEW k \in 1 .. Len(ts) - 1
               PROVE  from(k) \in 1 .. Len(ts) /\ from(k) # a /\ ts2[k] = ts[from(k)]
    OBVIOUS
  <2>1. k < a \/ k >= a
    BY <1>1
  <2> QED
    BY <1>1, <1>2, <2>1
<1>6. \A i \in 1 .. Len(ts) : i # a => \E k \in 1 .. Len(ts) - 1 : from(k) = i
  <2> SUFFICES ASSUME NEW i \in 1 .. Len(ts), i # a
               PROVE  \E k \in 1 .. Len(ts) - 1 : from(k) = i
    OBVIOUS
  <2>1. CASE i < a
    BY <1>1, <2>1
  <2>2. CASE i > a
    <3>1. i - 1 \in 1 .. Len(ts) - 1 /\ ~(i - 1 < a) /\ (i - 1) + 1 = i
      BY <1>1, <2>2
    <3> QED
      BY <3>1
  <2> QED
    BY <1>1, <2>1, <2>2
<1>7. \A j, k \in 1 .. Len(ts) - 1 : from(j) = from(k) => j = k
  BY <1>1
<1> HIDE DEF from
<1>8. \A k, p : Has(ts2, k, p)
                  <=> k \in 1 .. Len(ts) - 1 /\ Has(ts, from(k), p)
  BY <1>2, <1>5 DEF Has
<1>9. \A k, p : Has(ts2, k, p) => from(k) # a /\ ts2[k] = ts[from(k)]
  BY <1>5, <1>8
<1>10. \A i, p : Has(ts, i, p) /\ i # a =>
         \E k : Has(ts2, k, p) /\ from(k) = i
  BY <1>6, <1>8 DEF Has
<1>11. Backed(ts2, bs2)
  BY <1>3, <1>4, <1>8, <1>9 DEF Lock, Backed, Distinct
<1>12. Used(ts2, bs2)
  <2> SUFFICES ASSUME NEW x \in DOMAIN bs2
               PROVE  \E k, p : Has(ts2, k, p) /\ ts2[k].token[p] = x
    BY DEF Used
  <2>1. PICK i, p : Has(ts, i, p) /\ ts[i].token[p] = x
    BY <1>3 DEF Lock, Used
  <2>2. i # a
    BY <1>3, <1>4, <2>1
  <2>3. PICK k : Has(ts2, k, p) /\ from(k) = i
    BY <1>10, <2>1, <2>2
  <2> QED
    BY <1>9, <2>1, <2>3
<1>13. Distinct(ts2)
  BY <1>7, <1>8, <1>9 DEF Lock, Distinct
<1>14. Kinds(ts2, bs2)
  BY <1>3, <1>8, <1>9, <1>11 DEF Lock, Kinds, Backed
<1> QED
  BY <1>11, <1>12, <1>13, <1>14 DEF Lock, ts2, bs2

-----------------------------------------------------------------------------
(* The model: good tabs, an active one among them, each pane with its      *)
(* backend.                                                                *)

Backends(bs) == \A t \in DOMAIN bs : bs[t] \in BackendType

Model ==
    /\ tabs \in Seq(TabSet)
    /\ TabsCoherent
    /\ active \in 1 .. Len(tabs)
    /\ Backends(backends)
    /\ Lock(tabs, backends)

LEMMA ModelFacts ==
    ASSUME Model
    PROVE  /\ Len(tabs) \in Nat /\ Len(tabs) >= 1
           /\ active \in Nat /\ GoodTab(Tab)
           /\ \A p \in DOMAIN Tab.token : Has(tabs, active, p)
           /\ TokensOf(Tab) \subseteq DOMAIN backends
<1>1. Len(tabs) \in Nat
  BY LenProperties DEF Model
<1>2. Len(tabs) >= 1 /\ active \in Nat
  BY <1>1 DEF Model
<1>3. Tab \in TabSet
  BY ElementOfSeq DEF Model, Tab
<1>4. Coherent(Tab)
  BY DEF Model, TabsCoherent, Tab
<1>5. \A p \in DOMAIN Tab.token : Has(tabs, active, p)
  BY DEF Model, Has, Tab
<1>6. TokensOf(Tab) \subseteq DOMAIN backends
  BY <1>5 DEF Model, Lock, Backed, TokensOf, Tab
<1> QED
  BY <1>1, <1>2, <1>3, <1>4, <1>5, <1>6 DEF GoodTab

(* The active tab changes to one with the same panes.                      *)
LEMMA SetTabModel ==
    ASSUME Model, NEW new, GoodTab(new), SetTab(new), new.token = Tab.token,
           new.role = Tab.role, UNCHANGED <<active, backends>>
    PROVE  Model'
<1>1. /\ tabs' \in Seq(TabSet) /\ Len(tabs') = Len(tabs) /\ tabs'[active] = new
      /\ \A i \in 1 .. Len(tabs) : i # active => tabs'[i] = tabs[i]
  BY ExceptSeq DEF Model, SetTab, GoodTab
<1>2. \A i \in 1 .. Len(tabs') : Coherent(tabs'[i])
  BY <1>1 DEF Model, TabsCoherent, GoodTab
<1>3. Lock(tabs', backends')
  BY SamePanesLock DEF Model, SetTab, Tab, GoodTab
<1> QED
  BY <1>1, <1>2, <1>3 DEF Model, TabsCoherent, Backends

(* The backends change and keep their kinds.                               *)
LEMMA SameTabsModel ==
    ASSUME Model, UNCHANGED tabs, active' \in 1 .. Len(tabs),
           DOMAIN backends' = DOMAIN backends,
           \A t \in DOMAIN backends :
              backends'[t] \in BackendType /\ backends'[t].kind = backends[t].kind
    PROVE  Model'
<1>1. Lock(tabs, backends')
  BY SameTabsLock DEF Model
<1> QED
  BY <1>1 DEF Model, TabsCoherent, Backends

LEMMA CloseActiveTabModel ==
    ASSUME Model, CloseActiveTab
    PROVE  Model'
<1>1. Len(tabs) \in Nat /\ active \in Nat /\ Len(tabs) > 1
  BY ModelFacts DEF CloseActiveTab
<1>2. /\ tabs' \in Seq(TabSet) /\ Len(tabs') = Len(tabs) - 1
      /\ \A k \in 1 .. Len(tabs) - 1 :
            tabs'[k] = IF k < active THEN tabs[k] ELSE tabs[k + 1]
  BY RemoveAtIs DEF Model, CloseActiveTab
<1>3. \A i \in 1 .. Len(tabs') : Coherent(tabs'[i])
  <2> SUFFICES ASSUME NEW i \in 1 .. Len(tabs')
               PROVE  Coherent(tabs'[i])
    OBVIOUS
  <2>1. i \in 1 .. Len(tabs) /\ i + 1 \in 1 .. Len(tabs)
    BY <1>1, <1>2
  <2>2. tabs'[i] = tabs[i] \/ tabs'[i] = tabs[i + 1]
    BY <1>2
  <2> QED
    BY <2>1, <2>2 DEF Model, TabsCoherent
<1>4. active' \in 1 .. Len(tabs')
  BY <1>1, <1>2 DEF Model, CloseActiveTab
<1>5. Lock(tabs', backends')
  BY RemoveLock DEF Model, CloseActiveTab, Tab
<1>6. Backends(backends')
  BY DEF Model, CloseActiveTab, Drop, Backends
<1> QED
  BY <1>2, <1>3, <1>4, <1>5, <1>6 DEF Model, TabsCoherent

(* Closing the focused pane of the active tab, whichever pane a reaping    *)
(* gave the focus first.                                                   *)
LEMMA CloseFocusedModel ==
    ASSUME Model, NEW tab, GoodTab(tab), tab.token = Tab.token,
           tab.role = Tab.role, CloseFocused(tab)
    PROVE  Model'
<1>1. CASE Len(tab.panes) = 1 /\ CloseActiveTab
  BY <1>1, CloseActiveTabModel
<1>2. CASE /\ Len(tab.panes) > 1
           /\ SetTab(CloseIn(tab, tab.focused))
           /\ backends' = Drop(backends, {tab.token[tab.focused]})
           /\ UNCHANGED active
  <2> SUFFICES ASSUME NEW v, v = tab.focused, NEW new, new = CloseIn(tab, v)
               PROVE  Model'
    OBVIOUS
  <2>1. v \in DOMAIN tab.token
    BY DEF GoodTab, Coherent
  <2>2. /\ GoodTab(new) /\ new.token = Without(tab.token, v)
        /\ new.role = Without(tab.role, v)
    BY <1>2, <2>1, CloseInIs
  <2>3. tabs' = [tabs EXCEPT ![active] = new]
    BY <1>2 DEF SetTab
  <2>4. /\ tabs' \in Seq(TabSet) /\ Len(tabs') = Len(tabs) /\ tabs'[active] = new
        /\ \A i \in 1 .. Len(tabs) : i # active => tabs'[i] = tabs[i]
    BY <2>2, <2>3, ExceptSeq DEF Model, GoodTab
  <2>5. \A i \in 1 .. Len(tabs') : Coherent(tabs'[i])
    BY <2>2, <2>4 DEF Model, TabsCoherent, GoodTab
  <2>6. backends' = Drop(backends, {tabs[active].token[v]})
    BY <1>2 DEF Tab
  <2>7. Coherent(tabs[active])
    BY DEF Model, TabsCoherent
  <2>8. Lock(tabs', backends')
    BY <2>1, <2>2, <2>3, <2>6, <2>7, CloseLock DEF Model, Tab, GoodTab
  <2>9. Backends(backends')
    BY <2>6 DEF Model, Drop, Backends
  <2> QED
    BY <1>2, <2>4, <2>5, <2>8, <2>9 DEF Model, TabsCoherent
<1> QED
  BY <1>1, <1>2 DEF CloseFocused

LEMMA NewChatTabModel ==
    ASSUME Model, NewChatTab, nextToken \in Nat, nextToken \notin DOMAIN backends
    PROVE  Model'
<1> DEFINE new == NewTab(nextToken)
<1>1. GoodTab(new)
  BY NewTabIs
<1>2. Len(tabs) \in Nat
  BY ModelFacts
<1>3. tabs' = Append(tabs, new) /\ active' = Len(tabs) + 1
  BY DEF NewChatTab
<1>4. Lock(tabs', backends')
  BY AppendLock DEF Model, NewChatTab
<1> HIDE DEF new
<1>5. /\ tabs' \in Seq(TabSet) /\ Len(tabs') = Len(tabs) + 1
      /\ \A i \in 1 .. Len(tabs) : tabs'[i] = tabs[i]
      /\ tabs'[Len(tabs) + 1] = new
  BY <1>1, <1>3, AppendProperties DEF Model, GoodTab
<1>6. \A i \in 1 .. Len(tabs') : Coherent(tabs'[i])
  <2>1. \A i \in 1 .. Len(tabs) : Coherent(tabs'[i])
    BY <1>5 DEF Model, TabsCoherent
  <2>2. Coherent(tabs'[Len(tabs) + 1])
    BY <1>1, <1>5 DEF GoodTab
  <2>3. \A i \in 1 .. Len(tabs') : i \in 1 .. Len(tabs) \/ i = Len(tabs) + 1
    BY <1>2, <1>5
  <2> QED
    BY <2>1, <2>2, <2>3
<1>7. active' \in 1 .. Len(tabs')
  BY <1>2, <1>3, <1>5
<1>8. Backends(backends')
  BY DEF Model, NewChatTab, With, Chat, Backends, BackendType
<1> QED
  BY <1>4, <1>5, <1>6, <1>7, <1>8 DEF Model, TabsCoherent

LEMMA SplitShellModel ==
    ASSUME Model, SplitShell, nextToken \in Nat, nextToken \notin DOMAIN backends
    PROVE  Model'
<1>1. CASE UNCHANGED <<tabs, backends>>
  BY <1>1 DEF Model, SplitShell, TabsCoherent
<1>2. ASSUME SetTab(SplitTab(Tab, nextToken)), NEW b \in {Pty, Failed},
             backends' = With(backends, nextToken, b)
      PROVE  Model'
  <2> SUFFICES ASSUME NEW new, new = SplitTab(Tab, nextToken)
               PROVE  Model'
    OBVIOUS
  <2>1. /\ GoodTab(new) /\ Tab.nextPane \in Nat \ DOMAIN Tab.token
        /\ new.token = With(Tab.token, Tab.nextPane, nextToken)
        /\ new.role = With(Tab.role, Tab.nextPane, "shell")
    BY ModelFacts, SplitTabIs
  <2>2. tabs' = [tabs EXCEPT ![active] = new]
    BY <1>2 DEF SetTab
  <2>3. /\ tabs' \in Seq(TabSet) /\ Len(tabs') = Len(tabs) /\ tabs'[active] = new
        /\ \A i \in 1 .. Len(tabs) : i # active => tabs'[i] = tabs[i]
    BY <2>1, <2>2, ExceptSeq DEF Model, GoodTab
  <2>4. \A i \in 1 .. Len(tabs') : Coherent(tabs'[i])
    BY <2>1, <2>3 DEF Model, TabsCoherent, GoodTab
  <2>5. Coherent(tabs[active]) /\ b.kind # "chat" /\ b \in BackendType
    <3>1. Coherent(tabs[active])
      BY DEF Model, TabsCoherent
    <3>2. /\ Pty.kind # "chat" /\ Pty \in BackendType
          /\ Failed.kind # "chat" /\ Failed \in BackendType
      BY DEF Pty, Failed, BackendType
    <3> QED
      BY <1>2, <3>1, <3>2
  <2>6. Lock(tabs', backends')
    BY <1>2, <2>1, <2>2, <2>5, SplitLock DEF Model, Tab, GoodTab
  <2>7. Backends(backends')
    BY <1>2, <2>5 DEF Model, With, Backends
  <2> QED
    BY <2>3, <2>4, <2>6, <2>7 DEF Model, TabsCoherent, SplitShell
<1> QED
  BY <1>1, <1>2 DEF SplitShell

-----------------------------------------------------------------------------
(* The rest: no trace of a token not handed out, buffers as old as the     *)
(* step of the frame allows, sizes as they were drawn.                     *)

Fresh ==
    /\ nextToken \in 1 .. MaxTokens
    /\ \A t \in DOMAIN backends \cup DOMAIN frame \cup DOMAIN lastAreas :
          t \in Nat /\ t < nextToken
    /\ unread \in [Tokens -> 0 .. 3]
    /\ \A t \in Tokens : t >= nextToken => unread[t] = 0

OldAt(step) == IF step \in {"tick", "reap", "reaping"} THEN 1 ELSE 2

Aging == pc \in Steps /\ \A t \in DOMAIN backends : unread[t] <= OldAt(pc)

Sized ==
    /\ \A t \in DOMAIN frame : frame[t] \in Areas
    /\ \A t \in DOMAIN lastAreas \cap DOMAIN backends :
          backends[t].kind = "pty" => backends[t].size = lastAreas[t]

Rest == Fresh /\ Aging /\ Sized

IInv == Model /\ Rest

(* What a step may do to the backends and leave the rest true.             *)
LEMMA RestKept ==
    ASSUME Rest, UNCHANGED <<frame, lastAreas, unread>>,
           nextToken' \in Nat, nextToken <= nextToken', nextToken' <= MaxTokens,
           pc' \in Steps, OldAt(pc) <= OldAt(pc'),
           \A t \in DOMAIN backends' :
              \/ /\ t \in DOMAIN backends
                 /\ backends'[t].kind = backends[t].kind
                 /\ backends'[t].size = backends[t].size
              \/ t = nextToken /\ nextToken < nextToken'
    PROVE  Rest'
<1>1. MaxTokens \in Nat /\ nextToken \in Nat /\ nextToken >= 1
  BY BoundsAssumption DEF Rest, Fresh
<1>2. nextToken' \in 1 .. MaxTokens
  BY <1>1
<1>3. \A t \in DOMAIN backends' \cup DOMAIN frame' \cup DOMAIN lastAreas' :
         t \in Nat /\ t < nextToken'
  <2>1. \A t \in Nat : t < nextToken => t < nextToken'
    BY <1>1
  <2> QED
    BY <1>1, <2>1 DEF Rest, Fresh
<1>4. \A t \in Tokens : t >= nextToken' => unread'[t] = 0
  <2>1. \A t \in Tokens : t >= nextToken' => t >= nextToken
    BY <1>1 DEF Tokens
  <2> QED
    BY <2>1 DEF Rest, Fresh
<1>5. Fresh'
  BY <1>2, <1>3, <1>4 DEF Rest, Fresh
<1>6. \A t \in DOMAIN backends' : unread'[t] <= OldAt(pc')
  <2> SUFFICES ASSUME NEW t \in DOMAIN backends'
               PROVE  unread[t] <= OldAt(pc')
    OBVIOUS
  <2>1. t \in Tokens /\ unread[t] \in Nat
    BY <1>1, <1>2, <1>3 DEF Rest, Fresh, Tokens
  <2>2. OldAt(pc) \in Nat /\ OldAt(pc') \in Nat
    BY DEF OldAt
  <2>3. unread[t] <= OldAt(pc) \/ unread[t] = 0
    BY <1>1, <2>1 DEF Rest, Fresh, Aging
  <2> QED
    BY <2>1, <2>2, <2>3
<1>7. Sized'
  <2> SUFFICES ASSUME NEW t \in DOMAIN lastAreas, t \in DOMAIN backends',
                      backends'[t].kind = "pty"
               PROVE  backends'[t].size = lastAreas[t]
    BY DEF Rest, Sized
  <2>1. t \in Nat /\ t < nextToken
    BY DEF Rest, Fresh
  <2>2. t # nextToken
    BY <1>1, <2>1
  <2> QED
    BY <2>2 DEF Rest, Sized
<1> QED
  BY <1>5, <1>6, <1>7 DEF Rest, Aging

LEMMA InitHolds == Init => IInv
<1> SUFFICES ASSUME Init PROVE IInv
  OBVIOUS
<1>1. GoodTab(NewTab(0)) /\ NewTab(0).token = [p \in {0} |-> 0]
      /\ NewTab(0).role = [p \in {0} |-> "chat"]
  BY NewTabIs
<1>2. /\ tabs = <<NewTab(0)>> /\ Len(tabs) = 1 /\ tabs[1] = NewTab(0)
      /\ active = 1 /\ backends = [t \in {0} |-> Chat]
  BY DEF Init
<1>3. tabs \in Seq(TabSet) /\ TabsCoherent
  BY <1>1, <1>2 DEF TabsCoherent, GoodTab
<1>4. Backends(backends)
  BY <1>2 DEF Backends, BackendType, Chat
<1>5. \A i, p : Has(tabs, i, p) <=> i = 1 /\ p = 0
  <2>1. DOMAIN tabs[1].token = {0}
    BY <1>1, <1>2
  <2>2. 1 .. Len(tabs) = {1}
    BY <1>2
  <2> QED
    BY <2>1, <2>2 DEF Has
<1>6. /\ tabs[1].token[0] = 0 /\ tabs[1].role[0] = "chat"
      /\ backends[0].kind = "chat" /\ DOMAIN backends = {0}
  BY <1>1, <1>2 DEF Chat
<1>7. Lock(tabs, backends)
  BY <1>5, <1>6 DEF Lock, Backed, Used, Distinct, Kinds
<1>8. Model
  BY <1>2, <1>3, <1>4, <1>7 DEF Model
<1>9. Fresh
  BY <1>6, BoundsAssumption DEF Init, Fresh, Tokens
<1>10. Aging
  BY <1>6, BoundsAssumption DEF Init, Aging, Steps, OldAt, Tokens
<1>11. Sized
  BY DEF Init, Sized
<1> QED
  BY <1>8, <1>9, <1>10, <1>11 DEF IInv, Rest

(* A stuttering step, Leave, which is one, and the wait for what was       *)
(* dropped, which touches nothing else.                                    *)
Seen == <<tabs, active, nextToken, backends, pc, frame, lastAreas, dead,
          operator, unread>>

LEMMA WaitingIs == Joined \/ JobEnds \/ Leave \/ UNCHANGED vars => UNCHANGED Seen
BY DEF Joined, JobEnds, Leave, vars, model, Seen

LEMMA Stutters ==
    ASSUME IInv, UNCHANGED Seen
    PROVE  IInv'
BY DEF IInv, Seen, Model, TabsCoherent, Backends, Rest, Fresh, Aging, Sized

(* The shells beside the loop.                                             *)
LEMMA ShellsKeep ==
    ASSUME IInv, ShellPrints \/ ShellExits
    PROVE  IInv'
<1>1. CASE ShellPrints
  <2>1. PICK t \in DOMAIN backends : unread[t] = 0 /\ Printed(t)
    BY <1>1 DEF ShellPrints
  <2>2. Model'
    BY <1>1 DEF IInv, Model, TabsCoherent, Backends, ShellPrints, model
  <2>3. t \in Nat /\ t < nextToken /\ nextToken \in Nat /\ unread \in [Tokens -> 0 .. 3]
    BY DEF IInv, Rest, Fresh
  <2>4. unread' = [unread EXCEPT ![t] = 1]
    BY <2>1 DEF Printed
  <2>5. Fresh'
    <3>1. unread' \in [Tokens -> 0 .. 3]
      <4>1. unread' = [x \in Tokens |-> IF x = t THEN 1 ELSE unread[x]]
        BY <2>3, <2>4
      <4>2. \A x \in Tokens : (IF x = t THEN 1 ELSE unread[x]) \in 0 .. 3
        BY <2>3
      <4> QED
        BY <4>1, <4>2
    <3>2. \A x \in Tokens : x >= nextToken => x # t /\ unread[x] = 0
      <4>1. \A x \in Tokens : x \in Nat
        BY BoundsAssumption DEF Tokens
      <4>2. \A x \in Nat : x >= nextToken => x # t
        BY <2>3
      <4> QED
        BY <4>1, <4>2 DEF IInv, Rest, Fresh
    <3>3. \A x \in Tokens : x >= nextToken => unread'[x] = 0
      BY <2>3, <2>4, <3>2
    <3> QED
      BY <1>1, <3>1, <3>3 DEF IInv, Rest, Fresh, ShellPrints, model
  <2>6. Aging'
    <3>1. OldAt(pc) \in {1, 2}
      BY DEF OldAt
    <3>2. \A x \in DOMAIN backends : x \in Tokens
      BY BoundsAssumption DEF IInv, Rest, Fresh, Tokens
    <3>3. \A x \in Tokens : unread'[x] = IF x = t THEN 1 ELSE unread[x]
      BY <2>3, <2>4
    <3> QED
      BY <1>1, <3>1, <3>2, <3>3 DEF IInv, Rest, Aging, ShellPrints, model
  <2>7. Sized'
    BY <1>1 DEF IInv, Rest, Sized, ShellPrints, model
  <2> QED
    BY <2>2, <2>5, <2>6, <2>7 DEF IInv, Rest
<1>2. CASE ShellExits
  <2>1. PICK t \in DOMAIN backends : backends' = [backends EXCEPT ![t].alive = FALSE]
    BY <1>2 DEF ShellExits
  <2>2. /\ DOMAIN backends' = DOMAIN backends
        /\ \A x \in DOMAIN backends :
              /\ backends'[x] \in BackendType
              /\ backends'[x].kind = backends[x].kind
              /\ backends'[x].size = backends[x].size
    BY <2>1 DEF IInv, Model, Backends, BackendType
  <2>3. Model'
    BY <1>2, <2>2, SameTabsModel DEF IInv, Model, ShellExits
  <2>4. Rest'
    BY <1>2, <2>2, RestKept DEF IInv, Rest, Fresh, Aging, OldAt, ShellExits
  <2> QED
    BY <2>3, <2>4 DEF IInv
<1> QED
  BY <1>1, <1>2

(* Ticking a backend leaves its kind and its size.                         *)
LEMMA TickKeeps ==
    ASSUME Model, NEW ts, backends' = TickTokens(ts)
    PROVE  /\ DOMAIN backends' = DOMAIN backends
           /\ \A x \in DOMAIN backends :
                 /\ backends'[x] \in BackendType
                 /\ backends'[x].kind = backends[x].kind
                 /\ backends'[x].size = backends[x].size
<1>1. \A b \in BackendType : /\ Ticked(b) \in BackendType
                             /\ Ticked(b).kind = b.kind
                             /\ Ticked(b).size = b.size
  BY DEF Ticked, BackendType
<1> QED
  BY <1>1 DEF Model, Backends, TickTokens

LEMMA TickStep ==
    ASSUME IInv, Tick
    PROVE  IInv'
<1>1. /\ DOMAIN backends' = DOMAIN backends
      /\ \A x \in DOMAIN backends :
            /\ backends'[x] \in BackendType
            /\ backends'[x].kind = backends[x].kind
            /\ backends'[x].size = backends[x].size
  BY TickKeeps DEF IInv, Tick
<1>2. Model'
  BY <1>1, SameTabsModel DEF IInv, Model, Tick
<1>3. \A n \in 0 .. 3 : /\ Aged(n) \in 0 .. 3 /\ (n = 0 => Aged(n) = 0)
                        /\ (n <= 1 => Aged(n) <= 2)
  BY DEF Aged
<1>4. /\ unread \in [Tokens -> 0 .. 3]
      /\ \A t \in Tokens : unread'[t] = Aged(unread[t])
  BY DEF IInv, Rest, Fresh, Tick
<1>5. unread' = [t \in Tokens |-> Aged(unread[t])]
  BY DEF Tick
<1>6. unread' \in [Tokens -> 0 .. 3]
  BY <1>3, <1>4, <1>5
<1>7. \A t \in Tokens : t >= nextToken => unread'[t] = 0
  BY <1>3, <1>4 DEF IInv, Rest, Fresh
<1>8. Fresh'
  BY <1>1, <1>6, <1>7 DEF IInv, Rest, Fresh, Tick
<1>9. Aging'
  <2>1. \A t \in DOMAIN backends : t \in Tokens /\ unread[t] <= 1
    BY BoundsAssumption DEF IInv, Rest, Fresh, Aging, OldAt, Tick, Tokens
  <2>2. \A t \in DOMAIN backends' : unread'[t] <= 2
    BY <1>1, <1>3, <1>4, <2>1
  <2> QED
    BY <2>2 DEF Tick, Aging, OldAt, Steps
<1>10. Sized'
  BY <1>1 DEF IInv, Rest, Sized, Tick
<1> QED
  BY <1>2, <1>8, <1>9, <1>10 DEF IInv, Rest

LEMMA DrawStep ==
    ASSUME IInv, Draw
    PROVE  IInv'
<1>1. PICK n \in 0 .. Len(Tab.panes) : frame' \in [Drawn(Tab, n) -> Areas]
  BY DEF Draw
<1>2. Model'
  BY DEF IInv, Model, TabsCoherent, Backends, Draw, model
<1>3. Drawn(Tab, n) \subseteq TokensOf(Tab)
  <2>1. GoodTab(Tab)
    BY ModelFacts DEF IInv
  <2>2. Tab.panes \in Seq(Nat) /\ ToSet(Tab.panes) = DOMAIN Tab.token
        /\ Tab.zoom \in DOMAIN Tab.token \cup {NoZoom}
    BY <2>1 DEF GoodTab, TabSet, Coherent
  <2>3. \A i \in 1 .. n : i \in 1 .. Len(Tab.panes)
    BY <2>2, LenProperties
  <2>4. \A i \in 1 .. n : Tab.panes[i] \in DOMAIN Tab.token
    BY <2>2, <2>3, LenProperties DEF ToSet
  <2> QED
    BY <2>2, <2>4 DEF Drawn, TokensOf
<1>4. DOMAIN frame' \subseteq DOMAIN backends
  BY <1>1, <1>3, ModelFacts DEF IInv
<1>5. Fresh'
  BY <1>4 DEF IInv, Rest, Fresh, Draw, model
<1>6. Aging'
  <2>1. \A t \in DOMAIN backends : unread[t] <= 2
    BY DEF IInv, Rest, Aging, OldAt, Draw
  <2> QED
    BY <2>1 DEF Aging, OldAt, Draw, model, Steps
<1>7. Sized'
  BY <1>1 DEF IInv, Rest, Sized, Draw, model
<1> QED
  BY <1>2, <1>5, <1>6, <1>7 DEF IInv, Rest

LEMMA ResizeStep ==
    ASSUME IInv, Resize
    PROVE  IInv'
<1>1. /\ DOMAIN backends' = DOMAIN backends
      /\ \A t \in DOMAIN backends :
            backends'[t] = IF t \in DOMAIN frame /\ Stale(t)
                           THEN Resized(backends[t], frame[t]) ELSE backends[t]
  BY DEF Resize
<1>2. \A b \in BackendType : \A a \in Areas :
        /\ Resized(b, a) \in BackendType /\ Resized(b, a).kind = b.kind
        /\ b.kind = "pty" => Resized(b, a).size = a
  BY DEF Resized, BackendType
<1>3. \A t \in DOMAIN backends : backends[t] \in BackendType
  BY DEF IInv, Model, Backends
<1>4. \A t \in DOMAIN frame : frame[t] \in Areas
  BY DEF IInv, Rest, Sized
<1>5. \A t \in DOMAIN backends :
        backends'[t] \in BackendType /\ backends'[t].kind = backends[t].kind
  BY <1>1, <1>2, <1>3, <1>4
<1>6. Model'
  BY <1>1, <1>5, SameTabsModel DEF IInv, Model, Resize
<1>7. DOMAIN frame' = {} /\ DOMAIN lastAreas' = DOMAIN frame
      /\ \A t \in DOMAIN frame : lastAreas'[t] = frame[t]
  BY DEF Resize
<1>8. Fresh'
  BY <1>1, <1>7 DEF IInv, Rest, Fresh, Resize
<1>9. Aging'
  BY <1>1 DEF IInv, Rest, Aging, OldAt, Resize, Steps
<1>10. Sized'
  <2> SUFFICES ASSUME NEW t \in DOMAIN frame, t \in DOMAIN backends,
                      backends'[t].kind = "pty"
               PROVE  backends'[t].size = frame[t]
    BY <1>1, <1>7 DEF Sized
  <2>1. CASE Stale(t)
    BY <1>1, <1>2, <1>3, <1>4, <1>5, <2>1
  <2>2. CASE ~Stale(t)
    BY <1>1, <1>5, <2>2 DEF Stale, IInv, Rest, Sized
  <2> QED
    BY <2>1, <2>2
<1> QED
  BY <1>6, <1>8, <1>9, <1>10 DEF IInv, Rest

LEMMA DrainStep ==
    ASSUME IInv, Drain
    PROVE  IInv'
<1>1. Model'
  BY DEF IInv, Model, TabsCoherent, Backends, Drain, model
<1>2. /\ unread \in [Tokens -> 0 .. 3]
      /\ \A t \in Tokens :
            unread'[t] = IF t \in DOMAIN backends THEN 0 ELSE unread[t]
  BY DEF IInv, Rest, Fresh, Drain, DrainedTokens
<1>3. unread' = [t \in Tokens |-> IF t \in DrainedTokens THEN 0 ELSE unread[t]]
  BY DEF Drain
<1>4. unread' \in [Tokens -> 0 .. 3]
  BY <1>2, <1>3
<1>5. Fresh'
  BY <1>2, <1>4 DEF IInv, Rest, Fresh, Drain, model, Loop
<1>6. Aging'
  <2>1. \A t \in DOMAIN backends : t \in Tokens
    BY BoundsAssumption DEF IInv, Rest, Fresh, Tokens
  <2>2. \A t \in DOMAIN backends : unread'[t] = 0
    BY <1>2, <2>1
  <2> QED
    BY <2>2 DEF Aging, OldAt, Drain, model, Steps
<1>7. Sized'
  BY DEF IInv, Rest, Sized, Drain, model, Loop
<1> QED
  BY <1>1, <1>5, <1>6, <1>7 DEF IInv, Rest

(* A key.                                                                  *)
LEMMA InputStepIs ==
    ASSUME IInv, Input
    PROVE  /\ pc = "input" /\ pc' = "drain"
           /\ UNCHANGED <<unread, frame, lastAreas>>
BY DEF Input, NoChange, QuitKey, NewChatTab, SplitShell, SelectTab, FocusMoves,
       ToggleZoom, ClosePane, CloseTab, InputStep, Loop

(* The panes a key or a reaping closes take their backends with them and   *)
(* no other backend changes.                                               *)
LEMMA ClosingDrops ==
    ASSUME NEW tab, CloseFocused(tab) \/ CloseActiveTab
    PROVE  \A t \in DOMAIN backends' :
              t \in DOMAIN backends /\ backends'[t] = backends[t]
BY DEF CloseFocused, CloseActiveTab, Drop

LEMMA FocusMovesModel ==
    ASSUME Model, FocusMoves
    PROVE  Model'
<1> SUFFICES ASSUME NEW at, at = Position(Tab, Tab.focused),
                    NEW n, n = Len(Tab.panes)
             PROVE  Model'
  OBVIOUS
<1>1. GoodTab(Tab)
  BY ModelFacts
<1>2. PICK to \in {(at % n) + 1} \cup ({at - 1, at + 1} \cap 1 .. n) :
         SetTab([Tab EXCEPT !.focused = Tab.panes[to]])
  BY DEF FocusMoves
<1>3. Tab.panes \in Seq(Nat) /\ ToSet(Tab.panes) = DOMAIN Tab.token
  BY <1>1 DEF GoodTab, TabSet, Coherent
<1>4. at \in 1 .. n /\ n \in Nat
  BY <1>1, <1>3, PositionIs, LenProperties DEF GoodTab, Coherent
<1>5. to \in 1 .. n
  <2>1. (at % n) + 1 \in 1 .. n
    BY <1>4
  <2> QED
    BY <1>2, <2>1
<1>6. Tab.panes[to] \in DOMAIN Tab.token
  BY <1>3, <1>5, LenProperties DEF ToSet
<1> SUFFICES ASSUME NEW p \in DOMAIN Tab.token, p = Tab.panes[to],
                    NEW new, new = [Tab EXCEPT !.focused = p]
             PROVE  Model'
  BY <1>6
<1>7. GoodTab(new) /\ new.token = Tab.token /\ new.role = Tab.role
  BY <1>1, RefocusedIs
<1> QED
  BY <1>2, <1>7, SetTabModel DEF FocusMoves

LEMMA ToggleZoomModel ==
    ASSUME Model, ToggleZoom
    PROVE  Model'
<1>1. PICK z \in {NoZoom, Tab.focused} : SetTab([Tab EXCEPT !.zoom = z])
  BY DEF ToggleZoom
<1> SUFFICES ASSUME NEW new, new = [Tab EXCEPT !.zoom = z]
             PROVE  Model'
  OBVIOUS
<1>2. GoodTab(new) /\ new.token = Tab.token /\ new.role = Tab.role
  BY ModelFacts, ZoomedIs
<1> QED
  BY <1>1, <1>2, SetTabModel DEF ToggleZoom

LEMMA SelectTabModel ==
    ASSUME Model, SelectTab
    PROVE  Model'
<1>1. Len(tabs) \in Nat /\ Len(tabs) >= 1 /\ active \in 1 .. Len(tabs)
  BY ModelFacts DEF Model
<1>2. active' \in 1 .. Len(tabs)
  <2>1. (active % Len(tabs)) + 1 \in 1 .. Len(tabs)
    BY <1>1
  <2>2. (IF active = 1 THEN Len(tabs) ELSE active - 1) \in 1 .. Len(tabs)
    BY <1>1
  <2>3. \A n \in 0 .. 9 : (IF n = 0 THEN 10 ELSE n) <= Len(tabs)
                            => (IF n = 0 THEN 10 ELSE n) \in 1 .. Len(tabs)
    BY <1>1
  <2> QED
    BY <2>1, <2>2, <2>3 DEF SelectTab
<1> QED
  BY <1>2 DEF SelectTab, Model, TabsCoherent, Backends

LEMMA InputKeeps ==
    ASSUME IInv, Input
    PROVE  IInv'
<1>1. nextToken \in Nat /\ nextToken \notin DOMAIN backends
      /\ MaxTokens \in Nat /\ nextToken <= MaxTokens
  BY BoundsAssumption DEF IInv, Rest, Fresh
<1>2. Model'
  <2>1. CASE NoChange \/ QuitKey
    BY <2>1 DEF NoChange, QuitKey, IInv, Model, TabsCoherent, Backends, model
  <2>2. CASE NewChatTab
    BY <1>1, <2>2, NewChatTabModel DEF IInv
  <2>3. CASE SplitShell
    BY <1>1, <2>3, SplitShellModel DEF IInv
  <2>4. CASE SelectTab
    BY <2>4, SelectTabModel DEF IInv
  <2>5. CASE FocusMoves
    BY <2>5, FocusMovesModel DEF IInv
  <2>6. CASE ToggleZoom
    BY <2>6, ToggleZoomModel DEF IInv
  <2>7. CASE ClosePane
    BY <2>7, ModelFacts, CloseFocusedModel DEF IInv, ClosePane, InputStep
  <2>8. CASE CloseTab
    BY <2>8, CloseActiveTabModel DEF IInv, CloseTab, InputStep
  <2> QED
    BY <2>1, <2>2, <2>3, <2>4, <2>5, <2>6, <2>7, <2>8 DEF Input
<1>3. /\ nextToken' \in Nat /\ nextToken <= nextToken' /\ nextToken' <= MaxTokens
      /\ \A t \in DOMAIN backends' :
            \/ t \in DOMAIN backends /\ backends'[t] = backends[t]
            \/ t = nextToken /\ nextToken < nextToken'
  <2>1. CASE NoChange \/ QuitKey \/ SelectTab \/ FocusMoves \/ ToggleZoom
    <3>1. UNCHANGED <<nextToken, backends>>
      BY <2>1 DEF NoChange, QuitKey, SelectTab, FocusMoves, ToggleZoom, model
    <3> QED
      BY <1>1, <3>1
  <2>2. CASE NewChatTab
    BY <1>1, <2>2 DEF NewChatTab, With
  <2>3. CASE SplitShell
    BY <1>1, <2>3 DEF SplitShell, With
  <2>4. CASE ClosePane \/ CloseTab
    <3>1. \A t \in DOMAIN backends' :
             t \in DOMAIN backends /\ backends'[t] = backends[t]
      BY <2>4, ClosingDrops DEF ClosePane, CloseTab, InputStep
    <3> QED
      BY <1>1, <2>4, <3>1 DEF ClosePane, CloseTab
  <2> QED
    BY <2>1, <2>2, <2>3, <2>4 DEF Input
<1>4. Rest'
  <2>1. pc' \in Steps /\ OldAt(pc) <= OldAt(pc')
    BY InputStepIs DEF OldAt, Steps
  <2> QED
    BY <1>3, <2>1, InputStepIs, RestKept DEF IInv
<1> QED
  BY <1>2, <1>4 DEF IInv

(* The reaping.                                                            *)
LEMMA ReapBeginStep ==
    ASSUME IInv, ReapBegin
    PROVE  IInv'
<1>1. /\ DOMAIN backends' = DOMAIN backends
      /\ \A x \in DOMAIN backends :
            /\ backends'[x] \in BackendType
            /\ backends'[x].kind = backends[x].kind
            /\ backends'[x].size = backends[x].size
  BY TickKeeps DEF IInv, ReapBegin
<1>2. Model'
  BY <1>1, SameTabsModel DEF IInv, Model, ReapBegin
<1>3. nextToken' = nextToken /\ nextToken \in Nat /\ nextToken <= MaxTokens
  BY BoundsAssumption DEF IInv, Rest, Fresh, ReapBegin
<1>4. pc' \in Steps /\ OldAt(pc) <= OldAt(pc')
  BY DEF ReapBegin, OldAt, Steps
<1>5. Rest'
  BY <1>1, <1>3, <1>4, RestKept DEF IInv, ReapBegin
<1> QED
  BY <1>2, <1>5 DEF IInv

LEMMA ReapOneStep ==
    ASSUME IInv, ReapOne
    PROVE  IInv'
<1>1. /\ pc' = pc /\ nextToken' = nextToken
      /\ UNCHANGED <<frame, lastAreas, unread>>
      /\ nextToken \in Nat /\ nextToken <= MaxTokens /\ pc \in Steps
  BY BoundsAssumption DEF IInv, Rest, Fresh, Aging, ReapOne
<1>2. OldAt(pc) <= OldAt(pc')
  BY <1>1 DEF OldAt
<1>3. CASE ~Exists(Head(dead))
  BY <1>1, <1>3 DEF ReapOne, IInv, Model, TabsCoherent, Backends, Rest, Fresh,
                    Aging, Sized
<1>4. CASE Exists(Head(dead))
  <2> SUFFICES ASSUME NEW p, p = Head(dead), NEW tab, tab = Aimed(p)
               PROVE  IInv'
    OBVIOUS
  <2>1. GoodTab(Tab)
    BY ModelFacts DEF IInv
  <2>2. p \in DOMAIN Tab.token
    BY <1>4, <2>1 DEF Exists, GoodTab, Coherent
  <2>3. GoodTab(tab) /\ tab.token = Tab.token /\ tab.role = Tab.role
    BY <2>1, <2>2, RefocusedIs DEF Aimed
  <2>4. \/ CloseFocused(tab)
        \/ SetTab(tab) /\ UNCHANGED <<active, backends>>
    BY <1>4 DEF ReapOne
  <2>5. Model'
    BY <2>3, <2>4, SetTabModel, CloseFocusedModel DEF IInv
  <2>6. \A t \in DOMAIN backends' :
           t \in DOMAIN backends /\ backends'[t] = backends[t]
    BY <2>4, ClosingDrops
  <2>7. Rest'
    BY <1>1, <1>2, <2>6, RestKept DEF IInv
  <2> QED
    BY <2>5, <2>7 DEF IInv
<1> QED
  BY <1>3, <1>4

LEMMA ReapEndStep ==
    ASSUME IInv, ReapEnd
    PROVE  IInv'
<1>1. Model'
  <2>1. CASE UNCHANGED tabs
    BY <2>1 DEF ReapEnd, IInv, Model, TabsCoherent, Backends
  <2>2. ASSUME NEW p \in DOMAIN Tab.token, SetTab([Tab EXCEPT !.focused = p])
        PROVE  Model'
    <3> SUFFICES ASSUME NEW new, new = [Tab EXCEPT !.focused = p]
                 PROVE  Model'
      OBVIOUS
    <3>1. GoodTab(new) /\ new.token = Tab.token /\ new.role = Tab.role
      BY ModelFacts, RefocusedIs DEF IInv
    <3> QED
      BY <2>2, <3>1, SetTabModel DEF ReapEnd, IInv
  <2> QED
    BY <2>1, <2>2 DEF ReapEnd
<1>2. /\ nextToken' = nextToken /\ nextToken \in Nat /\ nextToken <= MaxTokens
      /\ pc' \in Steps /\ OldAt(pc) <= OldAt(pc')
  BY BoundsAssumption DEF IInv, Rest, Fresh, ReapEnd, OldAt, Steps
<1>3. Rest'
  BY <1>2, RestKept DEF IInv, ReapEnd
<1> QED
  BY <1>1, <1>3 DEF IInv

-----------------------------------------------------------------------------
(* The cockpit's model and the rest of its state keep together in every    *)
(* step of the loop, of a shell and of a key.                              *)
THEOREM IInvHolds == Spec => []IInv
<1>1. ASSUME IInv, [Next]_vars
      PROVE  IInv'
  <2>1. CASE FrameStep
    BY <1>1, <2>1, TickStep, DrawStep, ResizeStep, InputKeeps, DrainStep,
       ReapBeginStep, ReapOneStep, ReapEndStep DEF FrameStep
  <2>2. CASE ShellPrints \/ ShellExits
    BY <1>1, <2>2, ShellsKeep
  <2>3. CASE Joined \/ JobEnds \/ Leave \/ UNCHANGED vars
    BY <1>1, <2>3, Stutters, WaitingIs
  <2> QED
    BY <1>1, <2>1, <2>2, <2>3 DEF Next, LoopStep, Beside
<1> QED
  BY <1>1, InitHolds, PTL DEF Spec

(* Tabs, backends and buffers never part (TabsCoherent, BackendsInLockstep *)
(* and OutputIsDrained), for any number of tokens and any sequence of      *)
(* splits, closes, selections, exits and reapings: a tab is never left     *)
(* with a focus or a zoom it has no pane for, and apply() never drops or   *)
(* attaches a backend that is not its pane's.                              *)
THEOREM PiecesNeverPart == Spec => []PiecesAgree
<1>1. ASSUME IInv
      PROVE  PiecesAgree
  <2>1. BackendsInLockstep
    BY <1>1, LockIsLockstep DEF IInv, Model
  <2>2. OutputIsDrained
    <3>1. \A t \in DOMAIN backends : t \in Tokens /\ unread[t] <= OldAt(pc)
      BY <1>1, BoundsAssumption DEF IInv, Rest, Fresh, Aging, Tokens
    <3>2. OldAt(pc) \in {1, 2} /\ unread \in [Tokens -> 0 .. 3]
      BY <1>1 DEF OldAt, IInv, Rest, Fresh
    <3> QED
      BY <3>1, <3>2 DEF OutputIsDrained
  <2> QED
    BY <1>1, <2>1, <2>2 DEF PiecesAgree, IInv, Model
<1> QED
  BY <1>1, IInvHolds, PTL

(* A pty on the screen has the size it is drawn at when a key may reach    *)
(* it (last_areas), whatever tabs and zooms came before.                   *)
THEOREM DrawnSizesHold == Spec => []DrawnAtItsSize
<1>1. IInv => DrawnAtItsSize
  BY DEF IInv, Rest, Sized, DrawnAtItsSize
<1> QED
  BY <1>1, IInvHolds, PTL

-----------------------------------------------------------------------------
(* The reaping.  Its list is of panes of the active tab whose programs     *)
(* exited, each once, as long as there are any on it: so the tab goes with *)
(* the last pane on the list only, and nothing is left to be looked up in  *)
(* the tab that comes after.  The operator's pane is in that tab or gone.  *)
Reaping ==
    /\ dead \in Seq(Nat)
    /\ pc = "reaping" =>
          /\ \A i, j \in 1 .. Len(dead) : dead[i] = dead[j] => i = j
          /\ \A i \in 1 .. Len(dead) :
                /\ dead[i] \in DOMAIN Tab.token
                /\ backends[Tab.token[dead[i]]].exited
          /\ operator \in DOMAIN backends => operator \in TokensOf(Tab)

(* Induction, on a set instead of a predicate: a first number outside      *)
(* would have one before it.                                               *)
LEMMA Climb ==
    ASSUME NEW T, 0 \in T, \A n \in Nat : n \in T => n + 1 \in T
    PROVE  Nat \subseteq T
<1> SUFFICES ASSUME Nat \ T # {} PROVE FALSE
  OBVIOUS
<1> DEFINE U == Nat \ T
<1>1. U \subseteq Nat /\ U # {}
  OBVIOUS
<1>2. \E m \in U : \A k \in U : ~ (<<k, m>> \in OpToRel(<, Nat))
  <2> HIDE DEF U
  <2> QED
    BY <1>1, NatLessThanWellFounded, WFMin
<1>3. PICK m \in U : \A k \in Nat : k \notin T => ~ (k < m)
  BY <1>2 DEF OpToRel
<1>4. m # 0 /\ m - 1 \in Nat /\ m - 1 < m
  OBVIOUS
<1>5. (m - 1) + 1 \in T
  BY <1>3, <1>4
<1> QED
  BY <1>5

(* What PanesIn has taken after n panes: some of the panes up to there,    *)
(* each once.                                                              *)
Taken(panes, some, list, n) ==
    /\ list \in Seq(Nat)
    /\ \A i \in 1 .. Len(list) :
          list[i] \in some /\ \E k \in 1 .. n : panes[k] = list[i]
    /\ \A i, j \in 1 .. Len(list) : list[i] = list[j] => i = j

LEMMA TakeNext ==
    ASSUME NEW panes \in Seq(Nat), IsInjective(panes), NEW some, NEW list,
           NEW n \in 1 .. Len(panes), Taken(panes, some, list, n - 1)
    PROVE  /\ panes[n] \in some => Taken(panes, some, Append(list, panes[n]), n)
           /\ Taken(panes, some, list, n)
<1>1. /\ panes[n] \in Nat /\ n \in Nat /\ n >= 1
      /\ list \in Seq(Nat) /\ Len(list) \in Nat
  BY LenProperties, ElementOfSeq DEF Taken
<1>2. Taken(panes, some, list, n)
  BY <1>1 DEF Taken
<1>3. \A i \in 1 .. Len(list) : list[i] # panes[n]
  <2> SUFFICES ASSUME NEW i \in 1 .. Len(list), list[i] = panes[n]
               PROVE  FALSE
    OBVIOUS
  <2>1. PICK k \in 1 .. n - 1 : panes[k] = list[i]
    BY DEF Taken
  <2>2. k \in DOMAIN panes /\ n \in DOMAIN panes /\ k # n
    BY <1>1
  <2> QED
    BY <2>1, <2>2 DEF IsInjective
<1>4. ASSUME panes[n] \in some
      PROVE  Taken(panes, some, Append(list, panes[n]), n)
  <2> DEFINE more == Append(list, panes[n])
  <2>1. /\ more \in Seq(Nat) /\ Len(more) = Len(list) + 1
        /\ \A i \in 1 .. Len(list) : more[i] = list[i]
        /\ more[Len(list) + 1] = panes[n]
    BY <1>1, AppendProperties
  <2> HIDE DEF more
  <2>2. \A i \in 1 .. Len(more) :
           \/ i \in 1 .. Len(list) /\ more[i] = list[i]
           \/ i = Len(list) + 1 /\ more[i] = panes[n]
    <3> SUFFICES ASSUME NEW i \in 1 .. Len(more), i \notin 1 .. Len(list)
                 PROVE  i = Len(list) + 1
      BY <2>1
    <3> QED
      BY <1>1, <2>1
  <2>3. \A i \in 1 .. Len(more) :
           more[i] \in some /\ \E k \in 1 .. n : panes[k] = more[i]
    BY <1>1, <1>2, <1>4, <2>2 DEF Taken
  <2>4. \A i, j \in 1 .. Len(more) : more[i] = more[j] => i = j
    BY <1>2, <1>3, <2>2 DEF Taken
  <2>5. Taken(panes, some, more, n)
    BY <2>1, <2>3, <2>4 DEF Taken
  <2> QED
    BY <2>5 DEF more
<1> QED
  BY <1>2, <1>4

(* The recursive function of PanesIn is there, and took what it should.    *)
LEMMA PanesInAre ==
    ASSUME NEW tab, tab.panes \in Seq(Nat), IsInjective(tab.panes), NEW some
    PROVE  Taken(tab.panes, some, PanesIn(tab, some), Len(tab.panes))
<1> DEFINE ps == tab.panes
           N == Len(ps)
           Step(f, n) == IF n = 0 THEN <<>>
                         ELSE IF ps[n] \in some THEN Append(f[n - 1], ps[n])
                         ELSE f[n - 1]
           Good(n) == \E f \in [0 .. n -> Seq(Nat)] :
                         \A i \in 0 .. n : f[i] = Step(f, i)
<1>1. N \in Nat /\ \A i \in 1 .. N : ps[i] \in Nat
  BY LenProperties, ElementOfSeq
<1>2. Good(0)
  <2> DEFINE f == [i \in 0 .. 0 |-> <<>>]
  <2>1. f \in [0 .. 0 -> Seq(Nat)] /\ \A i \in 0 .. 0 : f[i] = Step(f, i)
    OBVIOUS
  <2> QED
    BY <2>1
<1>3. ASSUME NEW n \in 1 .. N, Good(n - 1)
      PROVE  Good(n)
  <2>1. PICK f \in [0 .. n - 1 -> Seq(Nat)] : \A i \in 0 .. n - 1 : f[i] = Step(f, i)
    BY <1>3
  <2>2. f[n - 1] \in Seq(Nat) /\ ps[n] \in Nat
    BY <1>1
  <2>3. Step(f, n) \in Seq(Nat)
    BY <2>2, AppendProperties
  <2> DEFINE g == [i \in 0 .. n |-> IF i < n THEN f[i] ELSE Step(f, n)]
  <2>4. g \in [0 .. n -> Seq(Nat)]
    <3> HIDE DEF Step
    <3> QED
      BY <1>1, <2>3
  <2>5. \A i \in 0 .. n : g[i] = Step(g, i)
    <3> SUFFICES ASSUME NEW i \in 0 .. n PROVE g[i] = Step(g, i)
      OBVIOUS
    <3>1. i # 0 => g[i - 1] = f[i - 1]
      BY <1>1
    <3>2. g[i] = Step(f, i)
      <4>1. CASE i < n
        <5>1. i \in 0 .. n - 1 /\ g[i] = f[i]
          BY <1>1, <4>1
        <5> HIDE DEF Step
        <5> QED
          BY <2>1, <5>1
      <4>2. CASE ~ (i < n)
        <5>1. i = n /\ g[i] = Step(f, n)
          BY <1>1, <4>2
        <5> HIDE DEF Step
        <5> QED
          BY <5>1
      <4> QED
        BY <4>1, <4>2
    <3> HIDE DEF g
    <3> QED
      BY <3>1, <3>2
  <2> HIDE DEF Step
  <2> QED
    BY <2>4, <2>5
<1>4. Good(N)
  <2> DEFINE T == {n \in Nat : n <= N => Good(n)}
  <2> HIDE DEF Good
  <2>1. 0 \in T
    BY <1>2
  <2>2. ASSUME NEW n \in Nat, n \in T PROVE n + 1 \in T
    <3> SUFFICES ASSUME n + 1 <= N PROVE Good(n + 1)
      OBVIOUS
    <3>1. Good(n) /\ n + 1 \in 1 .. N /\ (n + 1) - 1 = n
      BY <1>1, <2>2
    <3> QED
      BY <1>3, <3>1
  <2>3. Nat \subseteq T
    <3> HIDE DEF T
    <3> QED
      BY <2>1, <2>2, Climb
  <2> QED
    BY <1>1, <2>3
<1> DEFINE taken == CHOOSE f : f = [n \in 0 .. N |-> Step(f, n)]
<1>5. taken = [n \in 0 .. N |-> Step(taken, n)]
  <2>1. PICK f \in [0 .. N -> Seq(Nat)] : \A i \in 0 .. N : f[i] = Step(f, i)
    BY <1>4
  <2>2. f = [n \in 0 .. N |-> Step(f, n)]
    <3> HIDE DEF Step
    <3> QED
      BY <2>1
  <2> QED
    BY <2>2
<1>6. PanesIn(tab, some) = taken[N]
  BY DEF PanesIn
<1> HIDE DEF taken
<1>7. \A n \in 0 .. N : taken[n] = Step(taken, n)
  <2> HIDE DEF Step
  <2> QED
    BY <1>5
<1> DEFINE T == {n \in Nat : n <= N => Taken(ps, some, taken[n], n)}
<1>8. 0 \in T
  <2>1. taken[0] = <<>>
    BY <1>1, <1>7
  <2>2. Taken(ps, some, <<>>, 0)
    <3>1. <<>> \in Seq(Nat) /\ \A i \in 1 .. Len(<<>>) : FALSE
      OBVIOUS
    <3> QED
      BY <3>1 DEF Taken
  <2> QED
    BY <2>1, <2>2
<1>9. ASSUME NEW n \in Nat, n \in T PROVE n + 1 \in T
  <2> SUFFICES ASSUME n + 1 <= N PROVE Taken(ps, some, taken[n + 1], n + 1)
    OBVIOUS
  <2>1. /\ Taken(ps, some, taken[n], n) /\ n + 1 \in 1 .. N /\ n + 1 \in 0 .. N
        /\ (n + 1) - 1 = n /\ n + 1 # 0
    BY <1>1, <1>9
  <2>2. taken[n + 1] = IF ps[n + 1] \in some THEN Append(taken[n], ps[n + 1])
                       ELSE taken[n]
    BY <1>7, <2>1
  <2> HIDE DEF ps
  <2>3. /\ ps[n + 1] \in some => Taken(ps, some, Append(taken[n], ps[n + 1]), n + 1)
        /\ Taken(ps, some, taken[n], n + 1)
    BY <2>1, TakeNext DEF ps
  <2> QED
    BY <2>2, <2>3
<1>10. Nat \subseteq T
  <2> HIDE DEF T
  <2> QED
    BY <1>8, <1>9, Climb
<1> QED
  BY <1>1, <1>6, <1>10

(* A pane that is alone in its tab.                                        *)
LEMMA AloneIs ==
    ASSUME NEW tab, GoodTab(tab), Len(tab.panes) = 1, NEW p \in DOMAIN tab.token
    PROVE  DOMAIN tab.token = {p} /\ TokensOf(tab) = {tab.token[p]}
<1>1. DOMAIN tab.token = {tab.panes[1]}
  <2>1. DOMAIN tab.token = {tab.panes[i] : i \in 1 .. 1}
    BY DEF GoodTab, TabSet, Coherent, ToSet
  <2>2. \A i : i \in 1 .. 1 <=> i = 1
    OBVIOUS
  <2> QED
    BY <2>1, <2>2
<1>2. DOMAIN tab.token = {p}
  BY <1>1
<1> QED
  BY <1>2 DEF TokensOf

LEMMA ReapingBegins ==
    ASSUME IInv, Reaping, ReapBegin
    PROVE  Reaping'
<1> DEFINE some == {p \in DOMAIN Tab.token : IsClosed(backends[Tab.token[p]])}
<1>1. Tab.panes \in Seq(Nat) /\ IsInjective(Tab.panes)
  BY ModelFacts DEF IInv, GoodTab, TabSet, Coherent
<1>2. dead' = PanesIn(Tab, some)
  BY DEF ReapBegin, DeadPanes
<1>3. Taken(Tab.panes, some, dead', Len(Tab.panes))
  <2> HIDE DEF some
  <2> QED
    BY <1>1, <1>2, PanesInAre
<1>4. Tab' = Tab /\ backends' = TickTokens(TokensOf(Tab))
  BY DEF ReapBegin, Tab
<1>5. ASSUME NEW p \in some
      PROVE  p \in DOMAIN Tab'.token /\ backends'[Tab'.token[p]].exited
  <2>1. p \in DOMAIN Tab.token /\ Ticked(backends[Tab.token[p]]).exited
    BY DEF IsClosed
  <2>2. Tab.token[p] \in TokensOf(Tab) /\ Tab.token[p] \in DOMAIN backends
    BY <2>1, ModelFacts DEF TokensOf, IInv
  <2>3. backends'[Tab.token[p]] = Ticked(backends[Tab.token[p]])
    BY <1>4, <2>2 DEF TickTokens
  <2> QED
    BY <1>4, <2>1, <2>3
<1>6. pc' = "reaping" => operator' \in TokensOf(Tab)'
  <2>1. Tab.focused \in DOMAIN Tab.token
    BY ModelFacts DEF IInv, GoodTab, Coherent
  <2>2. FocusedToken \in TokensOf(Tab)
    BY <2>1 DEF FocusedToken, TokensOf
  <2>3. TokensOf(Tab)' = TokensOf(Tab)
    BY <1>4 DEF TokensOf
  <2>4. pc' = "reaping" => operator' = FocusedToken
    BY DEF ReapBegin
  <2> QED
    BY <2>2, <2>3, <2>4
<1> HIDE DEF some
<1> QED
  BY <1>3, <1>5, <1>6 DEF Reaping, Taken

(* One pane of the list is closed: its backend goes and no other.          *)
LEMMA ReapingGoesOn ==
    ASSUME IInv, Reaping, ReapOne
    PROVE  /\ Reaping'
           /\ \A t \in DOMAIN backends \ DOMAIN backends' : backends[t].exited
<1> SUFFICES ASSUME NEW p, p = Head(dead), NEW tab, tab = Aimed(p),
                    NEW t, t = Tab.token[p]
             PROVE  /\ Reaping'
                    /\ \A x \in DOMAIN backends \ DOMAIN backends' :
                          backends[x].exited
  OBVIOUS
<1>1. /\ pc = "reaping" /\ pc' = pc /\ operator' = operator
      /\ dead # <<>> /\ dead \in Seq(Nat) /\ dead' = Tail(dead)
  BY DEF ReapOne, Reaping
<1>2. /\ p = dead[1] /\ Len(dead) \in Nat /\ Len(dead) >= 1
      /\ dead' \in Seq(Nat) /\ Len(dead') = Len(dead) - 1
      /\ \A i \in 1 .. Len(dead') : dead'[i] = dead[i + 1]
  BY <1>1, HeadTailProperties, EmptySeq, LenProperties
<1>3. /\ p \in DOMAIN Tab.token /\ backends[t].exited
      /\ operator \in DOMAIN backends => operator \in TokensOf(Tab)
  BY <1>1, <1>2 DEF Reaping
<1>4. \A i, j \in 1 .. Len(dead') : dead'[i] = dead'[j] => i = j
  <2> SUFFICES ASSUME NEW i \in 1 .. Len(dead'), NEW j \in 1 .. Len(dead'),
                      dead'[i] = dead'[j]
               PROVE  i = j
    OBVIOUS
  <2>1. i + 1 \in 1 .. Len(dead) /\ j + 1 \in 1 .. Len(dead)
    BY <1>2
  <2>2. i + 1 = j + 1
    BY <1>1, <1>2, <2>1 DEF Reaping
  <2> QED
    BY <2>2
<1>5. ASSUME NEW i \in 1 .. Len(dead')
      PROVE  /\ dead'[i] # p /\ dead'[i] \in DOMAIN Tab.token
             /\ backends[Tab.token[dead'[i]]].exited
  <2>1. i + 1 \in 1 .. Len(dead) /\ 1 \in 1 .. Len(dead) /\ i + 1 # 1
    BY <1>2
  <2>2. dead[i + 1] # dead[1]
    BY <1>1, <2>1 DEF Reaping
  <2> QED
    BY <1>1, <1>2, <2>1, <2>2 DEF Reaping
<1>6. GoodTab(Tab) /\ Exists(p)
  BY <1>3, ModelFacts DEF IInv, GoodTab, Coherent, Exists
<1>7. /\ GoodTab(tab) /\ tab.token = Tab.token /\ tab.panes = Tab.panes
      /\ tab.focused = p
  BY <1>3, <1>6, RefocusedIs DEF Aimed
<1>8. active \in 1 .. Len(tabs) /\ Tab = tabs[active] /\ tabs \in Seq(TabSet)
  BY DEF IInv, Model, Tab
<1>9. CASE /\ Len(tab.panes) > 1
           /\ SetTab(CloseIn(tab, tab.focused))
           /\ backends' = Drop(backends, {tab.token[tab.focused]})
           /\ UNCHANGED active
  <2> SUFFICES ASSUME NEW new, new = CloseIn(tab, p)
               PROVE  /\ Reaping'
                      /\ \A x \in DOMAIN backends \ DOMAIN backends' :
                            backends[x].exited
    OBVIOUS
  <2>1. GoodTab(new) /\ new.token = Without(Tab.token, p)
    BY <1>3, <1>7, <1>9, CloseInIs
  <2>2. Tab' = new
    BY <1>7, <1>8, <1>9, <2>1, ExceptSeq DEF SetTab, Tab, GoodTab
  <2>3. backends' = Drop(backends, {t})
    BY <1>7, <1>9
  <2>4. /\ DOMAIN backends' = DOMAIN backends \ {t}
        /\ \A x \in DOMAIN backends' : backends'[x] = backends[x]
    BY <2>3 DEF Drop
  <2>5. ASSUME NEW q \in DOMAIN Tab.token, q # p
        PROVE  /\ q \in DOMAIN Tab'.token /\ Tab'.token[q] = Tab.token[q]
               /\ backends'[Tab.token[q]] = backends[Tab.token[q]]
    <3>1. Tab.token[q] # t
      BY <1>3, <1>8, <2>5, ModelFacts DEF IInv, Model, Lock, Distinct, Has
    <3>2. Tab.token[q] \in DOMAIN backends
      BY ModelFacts DEF IInv, TokensOf
    <3> QED
      BY <2>1, <2>2, <2>4, <2>5, <3>1, <3>2 DEF Without
  <2>6. operator \in DOMAIN backends' => operator \in TokensOf(Tab)'
    <3> SUFFICES ASSUME operator \in DOMAIN backends'
                 PROVE  operator \in TokensOf(Tab)'
      OBVIOUS
    <3>1. PICK q \in DOMAIN Tab.token : Tab.token[q] = operator
      BY <1>3, <2>4 DEF TokensOf
    <3>2. q # p
      BY <2>4, <3>1
    <3> QED
      BY <2>5, <3>1, <3>2 DEF TokensOf
  <2>7. \A i \in 1 .. Len(dead') :
           dead'[i] \in DOMAIN Tab'.token /\ backends'[Tab'.token[dead'[i]]].exited
    BY <1>5, <2>5
  <2> QED
    BY <1>1, <1>2, <1>3, <1>4, <2>4, <2>6, <2>7 DEF Reaping
<1>10. ASSUME Len(tab.panes) = 1
       PROVE  /\ DOMAIN Tab.token = {p} /\ TokensOf(Tab) = {t}
              /\ \A i \in 1 .. Len(dead') : FALSE
  BY <1>3, <1>5, <1>6, <1>7, <1>10, AloneIs
<1>11. CASE Len(tab.panes) = 1 /\ CloseActiveTab
  <2>1. backends' = Drop(backends, TokensOf(Tab))
    BY <1>11 DEF CloseActiveTab
  <2>2. DOMAIN backends' = DOMAIN backends \ {t}
    BY <1>10, <1>11, <2>1 DEF Drop
  <2>3. operator' \notin DOMAIN backends'
    BY <1>1, <1>3, <1>10, <1>11, <2>2
  <2> QED
    BY <1>1, <1>2, <1>3, <1>4, <1>10, <1>11, <2>2, <2>3 DEF Reaping
<1>12. CASE /\ Len(tab.panes) = 1 /\ Len(tabs) = 1
            /\ SetTab(tab)
            /\ UNCHANGED <<active, backends>>
  <2>1. Tab' = tab
    BY <1>7, <1>8, <1>12, ExceptSeq DEF SetTab, Tab, GoodTab
  <2>2. TokensOf(Tab)' = TokensOf(Tab)
    BY <1>7, <2>1 DEF TokensOf
  <2> QED
    BY <1>1, <1>2, <1>3, <1>4, <1>10, <1>12, <2>2 DEF Reaping
<1> QED
  BY <1>6, <1>9, <1>11, <1>12 DEF ReapOne, CloseFocused

(* Every other step leaves the list alone, and the reaping too unless it   *)
(* is over.                                                                *)
LEMMA ReapingStays ==
    ASSUME Reaping,
           [Next]_vars, ~ReapBegin, ~ReapOne
    PROVE  Reaping'
<1>1. CASE Tick \/ Draw \/ Resize \/ Drain \/ ReapEnd
  <2>1. pc' # "reaping" /\ dead' = dead
    BY <1>1 DEF Tick, Draw, Resize, Drain, ReapEnd, Loop
  <2> QED
    BY <2>1 DEF Reaping
<1>2. CASE Input
  <2>1. pc' = "drain" /\ dead' = dead
    BY <1>2 DEF Input, NoChange, QuitKey, NewChatTab, SplitShell, SelectTab, FocusMoves,
                ToggleZoom, ClosePane, CloseTab, InputStep, Loop
  <2> QED
    BY <2>1 DEF Reaping
<1>3. CASE ShellPrints \/ Joined \/ JobEnds \/ Leave \/ UNCHANGED vars
  <2>1. UNCHANGED <<tabs, active, backends, pc, dead, operator>>
    BY <1>3, WaitingIs DEF ShellPrints, Seen, model
  <2> QED
    BY <2>1 DEF Reaping, Tab, TokensOf
<1>4. CASE ShellExits
  <2>1. /\ UNCHANGED <<tabs, active, pc, dead, operator>>
        /\ DOMAIN backends' = DOMAIN backends
        /\ \A x : backends'[x].exited = backends[x].exited
    BY <1>4 DEF ShellExits
  <2> QED
    BY <2>1 DEF Reaping, Tab, TokensOf
<1> QED
  BY <1>1, <1>2, <1>3, <1>4 DEF Next, LoopStep, FrameStep, Beside

LEMMA ReapingHolds == Spec => [](IInv /\ Reaping)
<1>1. Init => Reaping
  BY DEF Init, Reaping
<1>2. ASSUME IInv, Reaping, [Next]_vars
      PROVE  Reaping'
  BY <1>2, ReapingBegins, ReapingGoesOn, ReapingStays DEF Next
<1> QED
  BY <1>1, <1>2, IInvHolds, PTL DEF Spec

(* A reaping takes the backends of programs that ended and of no other,    *)
(* and when it has not taken the operator's pane, that pane has the focus  *)
(* again: whatever dies, whichever panes and tabs go, and while every      *)
(* close moves the focus (reap_closed).                                    *)
THEOREM ReapingIsClean == Spec => ReapIsClean
<1>1. ASSUME IInv, Reaping, [Next]_vars, pc = "reaping"
      PROVE  \A t \in DOMAIN backends \ DOMAIN backends' : backends[t].exited
  <2>1. CASE ReapOne
    BY <1>1, <2>1, ReapingGoesOn
  <2>2. CASE ~ReapOne
    <3>1. DOMAIN backends' = DOMAIN backends
      BY <1>1, <2>2, WaitingIs DEF Seen, model, Next, LoopStep, Beside, FrameStep, Tick, Draw, Resize, Drain, ReapBegin, ReapEnd,
         Input, NoChange, QuitKey, NewChatTab, SplitShell, SelectTab, FocusMoves,
         ToggleZoom, ClosePane, CloseTab, InputStep, ShellPrints, ShellExits
    <3> QED
      BY <3>1
  <2> QED
    BY <2>1, <2>2
<1>2. ASSUME IInv, Reaping, [Next]_vars, pc = "reaping", pc' = "tick",
             operator \in DOMAIN backends
      PROVE  Tab'.token[Tab'.focused] = operator
  <2>1. ReapEnd
    BY <1>2, WaitingIs DEF Seen, model, Next, LoopStep, Beside, FrameStep, Tick, Draw, Resize, Drain, ReapBegin, ReapOne,
       Input, NoChange, QuitKey, NewChatTab, SplitShell, SelectTab, FocusMoves,
       ToggleZoom, ClosePane, CloseTab, InputStep, ShellPrints, ShellExits
  <2>2. operator \in TokensOf(Tab)
    BY <1>2 DEF Reaping
  <2>3. PICK p \in DOMAIN Tab.token :
            Tab.token[p] = operator /\ SetTab([Tab EXCEPT !.focused = p])
    BY <2>1, <2>2 DEF ReapEnd
  <2> SUFFICES ASSUME NEW new, new = [Tab EXCEPT !.focused = p]
               PROVE  Tab'.token[Tab'.focused] = operator
    OBVIOUS
  <2>4. GoodTab(new) /\ new.token = Tab.token /\ new.focused = p
    BY <1>2, ModelFacts, RefocusedIs DEF IInv
  <2>5. Tab' = new
    BY <1>2, <2>1, <2>3, <2>4, ExceptSeq
       DEF ReapEnd, SetTab, Tab, IInv, Model, GoodTab
  <2> QED
    BY <2>3, <2>4, <2>5
<1>3. Spec => ReapDropsOnlyTheDead
  BY <1>1, ReapingHolds, PTL DEF Spec, ReapDropsOnlyTheDead
<1>4. Spec => ReapKeepsFocus
  BY <1>2, ReapingHolds, PTL DEF Spec, ReapKeepsFocus
<1> QED
  BY <1>3, <1>4 DEF ReapIsClean

=============================================================================
