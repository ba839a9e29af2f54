---------------------------- MODULE CommandProofs ----------------------------
(***************************************************************************)
(* Proofs about the commands that do one thing and end, and about the loop *)
(* of `gila follow`: for any files, repositories, terminals and amounts of *)
(* output.  Each part finds what its command has settled by each of its    *)
(* steps; that is inductive, and the property follows from it.             *)
(***************************************************************************)
EXTENDS Delegate, Fleet, Follow, HeadlessSolve, GitTend, NoteFiles,
        Capabilities,
        FiniteSetTheorems, SequenceTheorems, WellFoundedInduction, TLAPS

-----------------------------------------------------------------------------
(* Induction, on a set instead of a predicate.                             *)
LEMMA Climb ==
    ASSUME NEW T, 0 \in T, \A n \in Nat : n \in T => n + 1 \in T
    PROVE  Nat \subseteq T
<1> SUFFICES ASSUME Nat \ T # {} PROVE FALSE
  OBVIOUS
<1>1. PICK m \in Nat \ T : \A k \in Nat \ T : ~ (<<k, m>> \in OpToRel(<, Nat))
  <2> DEFINE U == Nat \ T
  <2>1. U \subseteq Nat /\ U # {}
    OBVIOUS
  <2> HIDE DEF U
  <2>2. \E m \in U : \A k \in U : ~ (<<k, m>> \in OpToRel(<, Nat))
    BY <2>1, NatLessThanWellFounded, WFMin
  <2> QED
    BY <2>2 DEF U
<1>2. \A k \in Nat \ T : ~ (k < m)
  BY <1>1 DEF OpToRel
<1>3. m # 0 /\ m - 1 \in Nat
  OBVIOUS
<1>4. m - 1 \in T
  BY <1>2, <1>3
<1>5. (m - 1) + 1 \in T
  BY <1>3, <1>4
<1> QED
  BY <1>5

(* The recursive function of FlattenSeq is there, and gives sequences: a   *)
(* first place where it would not would need one before it.                *)
LEMMA FlattenedIsSequence ==
    ASSUME NEW S, NEW ss \in Seq(Seq(S))
    PROVE  FlattenSeq(ss) \in Seq(S)
<1> DEFINE N == Len(ss)
           Joined(f, i) == IF i = 1 THEN ss[i] ELSE f[i - 1] \o ss[i]
           Good(n) == \E f \in [1 .. n -> Seq(S)] : \A i \in 1 .. n : f[i] = Joined(f, i)
<1>1. N \in Nat /\ \A i \in 1 .. N : ss[i] \in Seq(S)
  OBVIOUS
<1>2. ASSUME NEW n \in 0 .. N, n # 0, Good(n - 1)
      PROVE  Good(n)
  <2>1. PICK f \in [1 .. n - 1 -> Seq(S)] :
             \A i \in 1 .. n - 1 : f[i] = Joined(f, i)
    BY <1>2
  <2> DEFINE g == [i \in 1 .. n |-> IF i < n THEN f[i] ELSE Joined(f, n)]
  <2>2. n \in Nat /\ n >= 1 /\ n <= N
    BY <1>1, <1>2
  <2>3. Joined(f, n) \in Seq(S)
    <3>1. CASE n = 1
      BY <1>1, <2>2, <3>1
    <3>2. CASE n # 1
      <4>1. f[n - 1] \in Seq(S) /\ ss[n] \in Seq(S)
        BY <1>1, <2>2, <3>2
      <4> QED
        BY <3>2, <4>1, ConcatProperties
    <3> QED
      BY <3>1, <3>2
  <2>4. g \in [1 .. n -> Seq(S)]
    <3> HIDE DEF Joined
    <3> QED
      BY <2>2, <2>3
  <2>5. \A i \in 1 .. n : g[i] = Joined(g, i)
    <3> SUFFICES ASSUME NEW i \in 1 .. n PROVE g[i] = Joined(g, i)
      OBVIOUS
    <3>1. i # 1 => g[i - 1] = f[i - 1]
      BY <2>2
    <3>2. g[i] = Joined(f, i)
      <4>1. CASE i < n
        <5>1. i \in 1 .. n - 1 /\ g[i] = f[i]
          BY <2>2, <4>1
        <5> QED
          BY <2>1, <5>1
      <4>2. CASE ~ (i < n)
        <5>1. i = n
          BY <2>2, <4>2
        <5> HIDE DEF Joined
        <5> QED
          BY <5>1
      <4> QED
        BY <4>1, <4>2
    <3> HIDE DEF g
    <3> QED
      BY <3>1, <3>2
  <2> HIDE DEF Joined
  <2> QED
    BY <2>4, <2>5
<1>3. Good(0)
  <2>1. [i \in 1 .. 0 |-> <<>>] \in [1 .. 0 -> Seq(S)]
    OBVIOUS
  <2>2. \A i \in 1 .. 0 : FALSE
    OBVIOUS
  <2> QED
    BY <2>1, <2>2
<1>4. Good(N)
  <2> DEFINE T == {n \in Nat : n <= N => Good(n)}
  <2> HIDE DEF Good
  <2>1. 0 \in T
    BY <1>3
  <2>2. ASSUME NEW n \in Nat, n \in T PROVE n + 1 \in T
    <3>1. SUFFICES ASSUME n + 1 <= N PROVE Good(n + 1)
      OBVIOUS
    <3>2. Good(n) /\ n + 1 \in 0 .. N /\ n + 1 # 0 /\ (n + 1) - 1 = n
      BY <1>1, <2>2, <3>1
    <3> QED
      BY <1>2, <3>2
  <2>3. Nat \subseteq T
    <3> HIDE DEF T
    <3> QED
      BY <2>1, <2>2, Climb
  <2> QED
    BY <1>1, <2>3
<1> DEFINE flatten == CHOOSE f : f = [i \in 1 .. N |-> Joined(f, i)]
<1>5. flatten = [i \in 1 .. N |-> Joined(flatten, i)]
  <2>1. PICK f \in [1 .. N -> Seq(S)] : \A i \in 1 .. N : f[i] = Joined(f, i)
    BY <1>4
  <2>2. f = [i \in 1 .. N |-> Joined(f, i)]
    <3> HIDE DEF Joined
    <3> QED
      BY <2>1
  <2> QED
    BY <2>2
<1> HIDE DEF flatten
<1>6. \A i \in 1 .. N : flatten[i] = Joined(flatten, i)
  <2> HIDE DEF Joined
  <2> QED
    BY <1>5
<1>7. \A i \in 1 .. N : flatten[i] \in Seq(S)
  <2> DEFINE T == {n \in Nat : n \in 1 .. N => flatten[n] \in Seq(S)}
  <2>1. 0 \in T
    OBVIOUS
  <2>2. ASSUME NEW n \in Nat, n \in T PROVE n + 1 \in T
    <3>1. SUFFICES ASSUME n + 1 \in 1 .. N PROVE flatten[n + 1] \in Seq(S)
      OBVIOUS
    <3>2. flatten[n + 1] = Joined(flatten, n + 1) /\ ss[n + 1] \in Seq(S)
      BY <1>1, <1>6, <3>1
    <3>3. n + 1 # 1 => n \in 1 .. N /\ (n + 1) - 1 = n
      BY <1>1, <3>1
    <3>4. n + 1 # 1 => flatten[(n + 1) - 1] \in Seq(S)
      BY <2>2, <3>3
    <3> QED
      BY <3>2, <3>4, ConcatProperties
  <2>3. Nat \subseteq T
    <3> HIDE DEF T
    <3> QED
      BY <2>1, <2>2, Climb
  <2> QED
    BY <2>3
<1>8. CASE N = 0
  BY <1>8 DEF FlattenSeq
<1>9. CASE N # 0
  <2>1. flatten[N] \in Seq(S)
    BY <1>1, <1>7, <1>9
  <2>2. FlattenSeq(ss) = flatten[N]
    BY <1>9 DEF FlattenSeq, flatten
  <2> QED
    BY <2>1, <2>2
<1> QED
  BY <1>8, <1>9

-----------------------------------------------------------------------------
(* The shell delegate.  The list that is passed on holds every file that   *)
(* was run (Listed), and Python's only while Python is being run (Unspent).*)

Listed ==
    \A i \in DOMAIN tried :
        \E item \in excluded : IsFile(item) /\ Real[item] = tried[i]
Unspent ==
    \A item \in excluded :
        IsFile(item) /\ Real[item] = Python
            => at = "python" \/ (at = "running" /\ Real[target] = Python)
DInv ==
    /\ search \in Seq(Paths) /\ own \in Rust
    /\ tried \in Seq({Real[path] : path \in DOMAIN Real})
    /\ Listed /\ Unspent /\ HopsSearchPast

(* The first of PATH that will do is found, if there is one.               *)
LEMMA FirstIsFound ==
    ASSUME search \in Seq(Paths), \E i \in DOMAIN search : Admissible(search[i])
    PROVE  \E i \in DOMAIN search :
              /\ Admissible(search[i])
              /\ \A j \in 1 .. i - 1 : ~Admissible(search[j])
<1> DEFINE T == {i \in DOMAIN search : Admissible(search[i])}
<1>1. DOMAIN search = 1 .. Len(search) /\ Len(search) \in Nat
  OBVIOUS
<1>2. T \subseteq Nat /\ T # {}
  BY <1>1
<1>3. PICK i \in T : \A j \in T : ~ (<<j, i>> \in OpToRel(<, Nat))
  <2> HIDE DEF T
  <2> QED
    BY <1>2, NatLessThanWellFounded, WFMin
<1>4. \A j \in T : ~ (j < i)
  BY <1>2, <1>3 DEF OpToRel
<1>5. \A j \in 1 .. i - 1 : j \in DOMAIN search /\ j < i
  BY <1>1
<1> QED
  BY <1>4, <1>5

(* resolve_gilabot returns what may be run, or there is nothing.           *)
LEMMA ResolvedIsAdmissible ==
    ASSUME search \in Seq(Paths)
    PROVE  /\ Resolved # None => Admissible(Resolved)
           /\ explicit = None /\ Resolved = None =>
                \A i \in DOMAIN search : ~Admissible(search[i])
<1>1. CASE explicit # None
  BY <1>1 DEF Resolved
<1>2. CASE explicit = None /\ \E i \in DOMAIN search : Admissible(search[i])
  <2> DEFINE k == CHOOSE i \in DOMAIN search :
                    /\ Admissible(search[i])
                    /\ \A j \in 1 .. i - 1 : ~Admissible(search[j])
  <2>1. Admissible(search[k])
    BY <1>2, FirstIsFound
  <2>2. Resolved = search[k]
    BY <1>2 DEF Resolved
  <2>3. Resolved # None
    BY <2>1, <2>2, FilesAssumption DEF Admissible, IsFile
  <2> QED
    BY <2>1, <2>2, <2>3
<1>3. CASE explicit = None /\ ~ \E i \in DOMAIN search : Admissible(search[i])
  BY <1>3 DEF Resolved
<1> QED
  BY <1>1, <1>2, <1>3

LEMMA FirstHop == DelegateInit => DInv
BY FilesAssumption DEF DelegateInit, DInv, Listed, Unspent, HopsSearchPast

(* What the list names has been gone through.                              *)
LEMMA ListedIsTraversed ==
    ASSUME Listed, NEW path, ~Traversed(path)
    PROVE  \A i \in DOMAIN tried : tried[i] # Real[path]
BY DEF Listed, Traversed

(* A hop that gives up has been past every candidate, and none was Python. *)
LEMMA NothingWasPython ==
    ASSUME DInv, at = "resolve",
           \A i \in DOMAIN search : ~Admissible(search[i])
    PROVE  \A i \in DOMAIN search : IsFile(search[i]) => Real[search[i]] # Python
<1> SUFFICES ASSUME NEW i \in DOMAIN search, IsFile(search[i]),
                    Real[search[i]] = Python
             PROVE  FALSE
  OBVIOUS
<1>1. Traversed(search[i])
  BY DEF Admissible
<1>2. own # Python
  BY FilesAssumption DEF DInv
<1> QED
  BY <1>1, <1>2 DEF Traversed, DInv, Unspent

LEMMA HopsStaySound ==
    ASSUME DInv, [DelegateNext]_delegateVars
    PROVE  DInv'
<1> DEFINE Runs == {Real[path] : path \in DOMAIN Real}
<1>1. CASE UNCHANGED delegateVars
  BY <1>1 DEF delegateVars, DInv, Listed, Unspent, HopsSearchPast, IsFile
<1>2. CASE Resolve /\ Resolved = None
  <2>1. /\ at = "resolve" /\ at' \in {"missing", "refused"}
        /\ at' = "missing" => explicit = None
        /\ UNCHANGED <<search, explicit, own, knowsOwn, excluded, target, tried>>
    BY <1>2 DEF Resolve
  <2>2. at' = "missing" => \A i \in DOMAIN search :
                             IsFile(search[i]) => Real[search[i]] # Python
    BY <1>2, <2>1, ResolvedIsAdmissible, NothingWasPython DEF DInv
  <2> QED
    BY <2>1, <2>2 DEF DInv, Listed, Unspent, HopsSearchPast, IsFile
<1>3. CASE Resolve /\ Resolved # None /\ Passed(Resolved) \cap Unjoinable # {}
  <2>1. /\ at = "resolve" /\ at' = "refused"
        /\ UNCHANGED <<search, explicit, own, knowsOwn, excluded, target, tried>>
    BY <1>3 DEF Resolve
  <2> QED
    BY <2>1 DEF DInv, Listed, Unspent, HopsSearchPast, IsFile
<1>4. CASE Resolve /\ Resolved # None /\ Passed(Resolved) \cap Unjoinable = {}
  <2> DEFINE p == Resolved
  <2>1. /\ at = "resolve" /\ at' = "running" /\ target' = p
        /\ tried' = Append(tried, Real[p]) /\ excluded' = Passed(p)
        /\ UNCHANGED <<search, explicit, own, knowsOwn>>
    BY <1>4 DEF Resolve
  <2>2. IsFile(p) /\ ~Traversed(p)
    BY <1>4, ResolvedIsAdmissible DEF DInv, Admissible
  <2> HIDE DEF p
  <2>3. /\ tried' \in Seq(Runs)
        /\ DOMAIN tried' = DOMAIN tried \cup {Len(tried) + 1}
        /\ \A i \in DOMAIN tried : tried'[i] = tried[i]
        /\ tried'[Len(tried) + 1] = Real[p]
    <3>1. Real[p] \in Runs /\ tried \in Seq(Runs)
      BY <2>2 DEF IsFile, DInv
    <3> HIDE DEF Runs
    <3> QED
      BY <2>1, <3>1, AppendProperties
  <2>4. excluded \subseteq excluded' /\ p \in excluded'
    BY <2>1 DEF Passed
  <2>5. Listed'
    <3> SUFFICES ASSUME NEW i \in DOMAIN tried'
                 PROVE  \E item \in excluded' : IsFile(item) /\ Real[item] = tried'[i]
      BY DEF Listed, IsFile
    <3>1. CASE i \in DOMAIN tried
      BY <2>3, <2>4, <3>1 DEF DInv, Listed
    <3>2. CASE i = Len(tried) + 1
      BY <2>2, <2>3, <2>4, <3>2
    <3> QED
      BY <2>3, <3>1, <3>2
  <2>6. Unspent'
    <3> SUFFICES ASSUME NEW item \in excluded', IsFile(item), Real[item] = Python
                 PROVE  Real[p] = Python
      BY <2>1 DEF Unspent, IsFile
    <3>1. item # own
      BY FilesAssumption DEF DInv, IsFile
    <3>2. item \notin excluded
      BY <2>1 DEF DInv, Unspent
    <3> QED
      BY <2>1, <3>1, <3>2 DEF Passed
  <2>7. HopsSearchPast'
    <3>1. \A i \in DOMAIN tried : tried[i] # Real[p]
      BY <2>2, ListedIsTraversed DEF DInv
    <3> QED
      BY <2>1, <2>3, <3>1 DEF DInv, HopsSearchPast
  <2> QED
    BY <2>1, <2>3, <2>5, <2>6, <2>7 DEF DInv
<1>5. CASE Run
  <2>1. /\ at = "running" /\ at' \in {"python", "resolve"}
        /\ Real[target] = Python => at' = "python"
        /\ own' \in Rust
        /\ UNCHANGED <<search, explicit, excluded, target, tried>>
    BY <1>5 DEF Run, DInv
  <2> QED
    BY <2>1 DEF DInv, Listed, Unspent, HopsSearchPast, IsFile
<1> QED
  BY <1>1, <1>2, <1>3, <1>4, <1>5 DEF DelegateNext

(* For every PATH and every set of installations: GILA_DELEGATE_SKIP makes *)
(* the hops search past each other, and Python is found where there is one.*)
THEOREM HopsAlwaysSearchPast == DelegateSpec => []HopsSearchPast
<1>1. DInv => HopsSearchPast
  BY DEF DInv
<1> QED
  BY <1>1, FirstHop, HopsStaySound, PTL DEF DelegateSpec

-----------------------------------------------------------------------------
(* The fleet dashboard.  A transcript is only opened on an agent and the   *)
(* phase cannot be changed while it is open (Opened); with that, where the *)
(* cursor is is inductive.                                                 *)

Placed ==
    /\ Phases # {} => selPhase \in Phases
    /\ selAgent = NoAgent <=> Agents(selPhase) = {}
    /\ selAgent # NoAgent => selAgent \in Agents(selPhase)
Opened == focus = "Detail" => selAgent # NoAgent
FInv == FleetTypeOK /\ Placed /\ Opened

(* The agents of a phase are numbered from 0 on.                           *)
LEMMA AgentsAreNumbered ==
    ASSUME NEW p
    PROVE  /\ Count(p) \in Nat
           /\ Agents(p) = 0 .. Count(p) - 1
           /\ Count(p) = 0 <=> Agents(p) = {}
<1>1. CASE p \in Phases
  <2>1. /\ IsFiniteSet(Agents(p))
        /\ Agents(p) = 0 .. Count(p) - 1
    BY <1>1, FleetAssumption DEF Agents, Count, Phases
  <2>2. Count(p) \in Nat
    BY <2>1, FS_CardinalityType DEF Count
  <2> QED
    BY <2>1, <2>2
<1>2. CASE p \notin Phases
  BY <1>2, FS_EmptySet DEF Agents, Count
<1> QED
  BY <1>1, <1>2

LEMMA PhasesAreNumbered ==
    /\ Cardinality(Phases) \in Nat
    /\ Phases = 0 .. Cardinality(Phases) - 1
BY FleetAssumption, FS_CardinalityType DEF Phases

(* What moves the cursor lands on an agent, or on none where there is none. *)
LEMMA ClampedIsThere ==
    ASSUME NEW p, NEW a \in Nat \cup {NoAgent}
    PROVE  /\ ClampAgent(p, a) = NoAgent <=> Agents(p) = {}
           /\ ClampAgent(p, a) # NoAgent => ClampAgent(p, a) \in Agents(p)
           /\ ClampAgent(p, a) \in Nat \cup {NoAgent}
BY AgentsAreNumbered DEF ClampAgent, Lower, NoAgent

LEMMA ClampIsBetween ==
    ASSUME NEW i \in Int, NEW n \in Nat, n # 0
    PROVE  Clamp(i, n) \in 0 .. n - 1
BY DEF Clamp, Lower

LEMMA FirstIsPlaced == FleetInit => FInv
<1> SUFFICES ASSUME FleetInit PROVE FInv
  OBVIOUS
<1>1. Placed /\ selAgent \in Nat \cup {NoAgent} /\ focus \in {"Rail", "Panel"}
  <2>1. Phases # {} => 0 \in Phases
    BY PhasesAreNumbered
  <2>2. CASE Mock
    BY <2>1, <2>2 DEF FleetInit, Mock, Placed, NoAgent
  <2>3. CASE New
    BY <2>1, <2>3, ClampedIsThere DEF FleetInit, New, Placed
  <2> QED
    BY <2>2, <2>3 DEF FleetInit
<1>2. detailScroll \in 0 .. ScrollRange - 1
  BY FleetAssumption DEF FleetInit
<1>3. FleetTypeOK
  BY <1>1, <1>2 DEF FleetInit, FleetTypeOK
<1> QED
  BY <1>1, <1>3 DEF FInv, Opened

LEMMA StepsKeepPlaced ==
    ASSUME FInv, [FleetNext]_fleetVars
    PROVE  FInv'
<1> USE DEF FInv, FleetTypeOK
<1>1. ASSUME UNCHANGED <<selPhase, selAgent>> PROVE Placed'
  BY <1>1 DEF Placed
<1>2. CASE UNCHANGED fleetVars
  BY <1>1, <1>2 DEF fleetVars, Opened
<1>3. CASE KeyQuit \/ KeyFreeze \/ Resize
  BY <1>1, <1>3 DEF KeyQuit, KeyFreeze, Resize, Opened
<1>4. CASE RailKey
  <2>1. ASSUME NEW d \in {-1, 1}, MovePhase(d), UNCHANGED focus PROVE FInv'
    <3>1. CASE Phases = {}
      BY <1>1, <1>4, <2>1, <3>1 DEF MovePhase, RailKey, Opened
    <3>2. CASE Phases # {}
      <4>1. selPhase' \in Phases
        <5>1. Cardinality(Phases) \in Nat \ {0} /\ selPhase + d \in Int
          BY <2>1, <3>2, PhasesAreNumbered
        <5>2. selPhase' = Clamp(selPhase + d, Cardinality(Phases))
          BY <2>1, <3>2 DEF MovePhase
        <5>3. selPhase' \in 0 .. Cardinality(Phases) - 1
          BY <5>1, <5>2, ClampIsBetween
        <5> QED
          BY <5>3, PhasesAreNumbered
      <4>2. selAgent' = ClampAgent(selPhase', 0) /\ detailScroll' = 0
        BY <2>1, <3>2 DEF MovePhase
      <4>3. Placed' /\ selAgent' \in Nat \cup {NoAgent}
        BY <4>1, <4>2, ClampedIsThere DEF Placed
      <4>4. selPhase' \in Nat
        BY <4>1, PhasesAreNumbered
      <4> QED
        BY <1>4, <2>1, <4>2, <4>3, <4>4, FleetAssumption DEF RailKey, Opened
    <3> QED
      BY <3>1, <3>2
  <2>2. CASE focus' = "Panel" /\ UNCHANGED <<selPhase, selAgent, detailScroll>>
    BY <1>1, <1>4, <2>2 DEF RailKey, Opened
  <2> QED
    BY <1>4, <2>1, <2>2 DEF RailKey
<1>5. CASE PanelKey
  <2>1. ASSUME NEW d \in {-1, 1}, MoveAgent(d), UNCHANGED <<focus, detailScroll>>
        PROVE  FInv'
    <3>1. CASE Count(selPhase) = 0
      BY <1>5, <2>1, <3>1, AgentsAreNumbered DEF MoveAgent, PanelKey, Placed, Opened
    <3>2. CASE Count(selPhase) # 0
      <4>1. selAgent' \in Agents(selPhase)
        <5> DEFINE i == (IF selAgent = NoAgent THEN 0 ELSE selAgent) + d
        <5>1. Count(selPhase) \in Nat \ {0}
          BY <3>2, AgentsAreNumbered
        <5>2. i \in Int
          BY <2>1 DEF NoAgent
        <5>3. selAgent' = Clamp(i, Count(selPhase))
          BY <2>1, <3>2 DEF MoveAgent
        <5> HIDE DEF i
        <5>4. selAgent' \in 0 .. Count(selPhase) - 1
          BY <5>1, <5>2, <5>3, ClampIsBetween
        <5> QED
          BY <5>4, AgentsAreNumbered
      <4>2. selAgent' \in Nat
        BY <4>1, AgentsAreNumbered
      <4> QED
        BY <1>5, <2>1, <4>1, <4>2 DEF PanelKey, Placed, Opened, NoAgent
    <3> QED
      BY <3>1, <3>2
  <2>2. CASE UNCHANGED selAgent
    BY <1>1, <1>5, <2>2, FleetAssumption DEF PanelKey, MoveAgent, Opened
  <2> QED
    BY <1>5, <2>1, <2>2 DEF PanelKey
<1>6. CASE DetailKey
  <2>1. ASSUME NEW d \in {-1, 1}, ScrollDetail(d)
        PROVE  detailScroll' \in 0 .. ScrollRange - 1
    BY <2>1, FleetAssumption DEF ScrollDetail
  <2> QED
    BY <1>1, <1>6, <2>1 DEF DetailKey, Opened
<1> QED
  BY <1>2, <1>3, <1>4, <1>5, <1>6 DEF FleetNext

LEMMA PlacedIsEnough == FInv => CursorIsOnAnAgent
<1> SUFFICES ASSUME FInv PROVE CursorIsOnAnAgent
  OBVIOUS
<1>1. DOMAIN Rows = Agents(selPhase)
  BY DEF Rows
<1>2. focus = "Detail" => Body.agent = selAgent /\ selAgent \in Agents(selPhase)
  BY DEF FInv, Opened, Placed, Body, Transcript
<1>3. focus # "Detail" /\ Agents(selPhase) # {}
        => Body.agent = selAgent /\ selAgent \in Agents(selPhase)
  BY AgentsAreNumbered DEF FInv, Placed, Body, Marked
<1> QED
  BY <1>1, <1>2, <1>3 DEF FInv, Placed, CursorIsOnAnAgent

(* The dashboard's variables keep their shapes.                            *)
THEOREM FleetTypesHold == FleetSpec => []FleetTypeOK
<1>1. FInv => FleetTypeOK
  BY DEF FInv
<1> QED
  BY <1>1, FirstIsPlaced, StepsKeepPlaced, PTL DEF FleetSpec

(* For every crew, empty phases and an empty dashboard included, the keys  *)
(* of apply_key leave the cursor on an agent and an open transcript on     *)
(* somebody's.                                                             *)
THEOREM CursorStays == FleetSpec => []CursorIsOnAnAgent
BY FirstIsPlaced, StepsKeepPlaced, PlacedIsEnough, PTL DEF FleetSpec

(* fleet_layout tiles every frame that ends on the screen: saturating      *)
(* coordinates lose nothing.                                               *)
THEOREM FramesAreTiled == FleetSpec => []FrameIsTiled
<1>1. FleetTypeOK => FrameIsTiled
  <2> SUFFICES ASSUME FleetTypeOK PROVE FrameIsTiled
    OBVIOUS
  <2> DEFINE l == Layout(area)
  <2>1. /\ area.x \in Nat /\ area.y \in Nat
        /\ area.width \in Nat /\ area.height \in Nat
        /\ area.x + area.width =< Limit /\ area.y + area.height =< Limit
        /\ RailWidth \in Nat /\ Limit \in Nat
    BY FleetAssumption DEF FleetTypeOK
  <2>2. l.header.x = area.x /\ l.header.y = area.y /\ l.rail.x = area.x
    BY DEF Layout
  <2>3. Beside(l.rail, l.panel, area)
    <3> DEFINE w == Lower(RailWidth, area.width)
    <3>1. /\ l.rail.x = area.x /\ l.rail.width = w
          /\ l.panel.x = Plus(area.x, w) /\ l.panel.width = Less(area.width, w)
          /\ l.rail.y = l.panel.y /\ l.rail.height = l.panel.height
      BY DEF Layout
    <3>2. w \in 0 .. area.width
      BY <2>1 DEF Lower
    <3> HIDE DEF w
    <3>3. Plus(area.x, w) = area.x + w /\ w + Less(area.width, w) = area.width
      BY <2>1, <3>2 DEF Lower, Less, Plus
    <3> HIDE DEF l
    <3> QED
      BY <3>1, <3>3 DEF Beside
  <2>4. Under(l.header, l.rail) /\ Under(l.rail, l.footer)
    BY <2>1 DEF Layout, Under, Lower, Less, Plus
  <2>5. l.header.height + l.rail.height + l.footer.height = area.height
    BY <2>1 DEF Layout, Lower, Less
  <2> QED
    BY <2>2, <2>3, <2>4, <2>5 DEF FrameIsTiled
<1> QED
  BY <1>1, FleetTypesHold, PTL

-----------------------------------------------------------------------------
(* `gila follow`.  Between the two looks of a read the file may only have  *)
(* grown, so that what is handed over reaches at least as far as the tail  *)
(* will say it has read; and the driver has a turn only while the loop     *)
(* polls it.                                                               *)
TInv ==
    /\ FollowTypeOK
    /\ offset \in Nat /\ len \in Nat
    /\ observed \in Seq(Chunk)
    /\ pc = "read" => offset < len
    /\ pc # "comment" => turn = "none"
    /\ LoopNeverEnds
    /\ NothingMissed

LEMMA TailStarts == FollowInit => TInv
<1> SUFFICES ASSUME FollowInit PROVE TInv
  OBVIOUS
<1>1. Len(observed) = 0 /\ observed \in Seq(Chunk)
  BY DEF FollowInit
<1>2. FollowTypeOK
  <2>1. \A i \in 1 .. Len(observed) : observed[i] \in Chunk
    BY <1>1
  <2>2. size \in 0 .. MaxBytes /\ polls \in 0 .. MaxPolls /\ offset <= len /\ len <= size
    BY BoundsAssumption DEF FollowInit
  <2>3. /\ stripped \in BOOLEAN /\ pending \in BOOLEAN
        /\ pc \in {"tick", "read", "idle", "comment", "ended"}
        /\ turn \in {"none", "running", "over"}
    BY DEF FollowInit
  <2> QED
    BY <2>1, <2>2, <2>3 DEF FollowTypeOK
<1>3. NothingMissed
  BY BoundsAssumption DEF FollowInit, NothingMissed
<1> QED
  BY <1>1, <1>2, <1>3 DEF FollowInit, TInv, LoopNeverEnds

(* What a read leaves out of its text is the banner.                       *)
LEMMA BannerIsTakenOff ==
    ASSUME TInv, pc = "read"
    PROVE  /\ StripHeader(offset + 1, size) \in offset + 1 .. size + 1
           /\ \A p \in offset + 1 .. size :
                 p > Banner => p >= StripHeader(offset + 1, size)
<1>1. /\ offset \in Nat /\ len \in Nat /\ size \in Nat /\ Banner \in Nat
      /\ offset < len /\ len <= size
  BY BoundsAssumption DEF TInv, FollowTypeOK
<1> QED
  BY <1>1 DEF StripHeader

LEMMA ReadMissesNothing == ASSUME TInv, TickRead PROVE TInv'
<1> DEFINE from == StripHeader(offset + 1, size)
<1>1. /\ offset \in Nat /\ len \in Nat /\ size \in Nat /\ Banner \in Nat
      /\ MaxBytes \in Nat /\ size <= MaxBytes
      /\ offset < len /\ len <= size /\ pc = "read"
      /\ observed \in Seq(Chunk)
  BY BoundsAssumption DEF TickRead, TInv, FollowTypeOK
<1>2. /\ from \in offset + 1 .. size + 1
      /\ \A p \in offset + 1 .. size : p > Banner => p >= from
  BY <1>1, BannerIsTakenOff
<1>3. /\ offset' = len /\ stripped' = TRUE /\ size' = size /\ len' = len
      /\ turn' = turn /\ polls' = polls /\ pc' \in {"tick", "idle"}
      /\ pending' \in {TRUE, pending}
      /\ \/ Observable(from, size) /\ observed' = Append(observed, <<from, size>>)
         \/ ~Observable(from, size) /\ observed' = observed
  BY <1>1 DEF TickRead
<1> HIDE DEF from
<1>4. /\ observed' \in Seq(Chunk)
      /\ Len(observed') >= Len(observed)
      /\ \A i \in 1 .. Len(observed) : observed'[i] = observed[i]
      /\ Observable(from, size) => /\ Len(observed') = Len(observed) + 1
                                   /\ observed'[Len(observed')] = <<from, size>>
  <2>1. CASE ~Observable(from, size)
    BY <1>1, <1>3, <2>1
  <2>2. CASE Observable(from, size)
    <3>1. <<from, size>> \in Chunk
      <4>1. from <= size
        BY <1>1, <1>2, <2>2 DEF Observable
      <4> QED
        BY <1>1, <1>2, <4>1 DEF Chunk, Position
    <3>2. observed' = Append(observed, <<from, size>>)
      BY <1>3, <2>2
    <3> HIDE DEF Chunk
    <3> QED
      BY <1>1, <3>1, <3>2, AppendProperties
  <2> QED
    BY <2>1, <2>2
<1>5. NothingMissed'
  <2> SUFFICES ASSUME NEW p \in (Banner + 1) .. len, p \notin Blanks
               PROVE  \E i \in 1 .. Len(observed') :
                         p \in observed'[i][1] .. observed'[i][2]
    BY <1>3 DEF NothingMissed
  <2>1. CASE p <= offset
    <3>1. PICK i \in 1 .. Len(observed) : p \in observed[i][1] .. observed[i][2]
      BY <1>1, <2>1 DEF TInv, NothingMissed
    <3>2. i \in 1 .. Len(observed')
      BY <1>1, <1>4, <3>1
    <3> QED
      BY <1>4, <3>1, <3>2
  <2>2. CASE p > offset
    <3>1. p \in offset + 1 .. size /\ p > Banner
      BY <1>1, <2>2
    <3>2. p \in from .. size
      <4>1. p >= from
        BY <1>2, <3>1
      <4> QED
        BY <1>1, <1>2, <3>1, <4>1
    <3>3. Observable(from, size)
      BY <3>2 DEF Observable
    <3>4. Len(observed') \in 1 .. Len(observed')
      BY <1>1, <1>4, <3>3
    <3> QED
      BY <1>4, <3>2, <3>3, <3>4
  <2> QED
    BY <1>1, <2>1, <2>2
<1>6. FollowTypeOK'
  <2>1. \A i \in 1 .. Len(observed') : observed'[i] \in Chunk
    <3> HIDE DEF Chunk
    <3> QED
      BY <1>4
  <2>2. size \in 0 .. MaxBytes /\ polls \in 0 .. MaxPolls /\ pending' \in BOOLEAN
        /\ turn \in {"none", "running", "over"}
    BY <1>3 DEF TInv, FollowTypeOK
  <2> QED
    BY <1>1, <1>3, <2>1, <2>2 DEF FollowTypeOK, Chunk, Position
<1> QED
  BY <1>1, <1>3, <1>4, <1>5, <1>6 DEF TInv, LoopNeverEnds, Chunk, Position

LEMMA TailStaysSound == TInv /\ [FollowNext]_followVars => TInv'
<1> SUFFICES ASSUME TInv, [FollowNext]_followVars PROVE TInv'
  OBVIOUS
<1>1. ASSUME TickRead PROVE TInv'
  BY <1>1, ReadMissesNothing
<1>2. ASSUME UNCHANGED <<tailVars, observed>>, UNCHANGED size \/ ScriptWrites,
             pc' \in {"tick", "idle", "comment"} \/ UNCHANGED pc,
             pending' \in BOOLEAN, turn' \in {"none", "running", "over"},
             pc' # "comment" => turn' = "none",
             polls' \in 0 .. MaxPolls
      PROVE  TInv'
  <2>1. size \in 0 .. MaxBytes /\ size' \in 0 .. MaxBytes /\ size <= size'
    BY <1>2, BoundsAssumption DEF TInv, FollowTypeOK, ScriptWrites
  <2>2. /\ offset' = offset /\ len' = len /\ stripped' = stripped
        /\ observed' = observed
    BY <1>2 DEF tailVars
  <2>3. FollowTypeOK'
    BY <1>2, <2>1, <2>2 DEF TInv, FollowTypeOK, Chunk, Position
  <2>4. NothingMissed'
    BY <2>2 DEF TInv, NothingMissed
  <2> QED
    BY <1>2, <2>2, <2>3, <2>4 DEF TInv, LoopNeverEnds, Chunk, Position
<1>3. ASSUME TickNothing \/ TickReadFails \/ Sleep PROVE TInv'
  BY <1>2, <1>3 DEF TickNothing, TickReadFails, Sleep, TInv, FollowTypeOK
<1>4. ASSUME StartComment \/ PollEnded \/ PollRunning \/ GiveUp PROVE TInv'
  <2>1. polls' \in 0 .. MaxPolls
    BY <1>4, BoundsAssumption
       DEF StartComment, PollEnded, PollRunning, GiveUp, TInv, FollowTypeOK
  <2> QED
    BY <1>2, <1>4, <2>1
       DEF StartComment, PollEnded, PollRunning, GiveUp, TInv, FollowTypeOK
<1>5. ASSUME ScriptWrites \/ TurnEnds \/ UNCHANGED followVars PROVE TInv'
  BY <1>2, <1>5 DEF ScriptWrites, TurnEnds, followVars, tailVars, TInv, FollowTypeOK
<1>6. ASSUME TickStat PROVE TInv'
  <2>1. /\ len' = size /\ offset < size /\ pc = "tick" /\ pc' = "read"
        /\ UNCHANGED <<size, offset, stripped, observed, pending, turn, polls>>
    BY <1>6 DEF TickStat
  <2>2. FollowTypeOK'
    BY <2>1, BoundsAssumption DEF TInv, FollowTypeOK, Chunk, Position
  <2>3. NothingMissed'
    BY <2>1 DEF TInv, NothingMissed
  <2> QED
    BY <2>1, <2>2, <2>3, BoundsAssumption
       DEF TInv, FollowTypeOK, LoopNeverEnds, Chunk, Position
<1> QED
  BY <1>1, <1>3, <1>4, <1>5, <1>6 DEF FollowNext, LoopStep

(* However the shell appends to the typescript while it is looked at and   *)
(* read: what the tail counts as read, the agent was given.                *)
THEOREM TailMissesNothing == FollowSpec => []NothingMissed
<1>1. TInv => NothingMissed
  BY DEF TInv
<1> QED
  BY <1>1, TailStarts, TailStaysSound, PTL DEF FollowSpec

(* The loop never ends over a driver that still has a turn: a comment that *)
(* is given up takes its turn with it.                                     *)
THEOREM FollowGoesOn == FollowSpec => []LoopNeverEnds
<1>1. TInv => LoopNeverEnds
  BY DEF TInv
<1> QED
  BY <1>1, TailStarts, TailStaysSound, PTL DEF FollowSpec

-----------------------------------------------------------------------------
(* `gila solve`.  What the stages before one have settled: until the       *)
(* posture is frozen nothing is reported, what was refused was not asked   *)
(* for again, and from the turn on the run is a baseline (Ran), whose last *)
(* record is its contract (Told).                                          *)
Early == {"prepare", "hash", "load", "hashManifest", "loadManifest", "posture"}
Late  == {"events", "print", "ok"}

Ran == Baseline /\ Empty(loaded["manifest"]) /\ ~asked.provider /\ ~asked.team
Told ==
    /\ Len(records) \in Nat /\ records[Len(records)] = Contract
    /\ driver \in {"completed", "failed"}

Shaped ==
    /\ disk \in [Files -> Nat] /\ loaded \in [Files -> Nat]
    /\ stage \in Early \cup {"ensure", "poll", "error"} \cup Late
    /\ asked \in [unsafe : BOOLEAN, provider : BOOLEAN, team : BOOLEAN,
                  recorder : BOOLEAN, verify : BOOLEAN, events : BOOLEAN]
    /\ class \in Classes \cup {"clean"} /\ (driver = "failed" => class = "None")
    /\ written \in Nat /\ printed \in Nat

Settled ==
    /\ stage \in Early => posture = "open"
    /\ stage \in {"ensure", "poll"} \cup Late => posture = "frozen"
    /\ OneConfiguration
    /\ stage \in (Early \cup {"ensure"}) \ {"prepare"} =>
          ~asked.provider /\ ~asked.team
    /\ stage \in {"posture", "ensure"} => Empty(loaded["manifest"])
    /\ stage \in {"poll"} \cup Late => Ran

Reported ==
    /\ stage \in Early \cup {"ensure", "poll"} => written = 0 /\ printed = 0
    /\ stage \in Late =>
          Told /\ written <= Len(records) /\ printed <= Len(records)
    /\ stage = "events" => asked.events /\ printed = 0
    /\ stage \in {"print", "ok"} /\ asked.events => written = Len(records)
    /\ stage = "ok" => printed = Len(records) /\ Clean
    /\ stage = "error" /\ printed > 0 =>
          /\ Ran /\ Told /\ printed = Len(records) /\ ~Clean
          /\ asked.events => written = Len(records)

VInv == Shaped /\ Settled /\ Reported

LEMMA SolveStarts == SolveInit => VInv
BY DEF SolveInit, VInv, Shaped, Settled, Reported, Files, Classes, Early, Late,
       OneConfiguration

(* outcome_label of a turn that is over.                                   *)
LEMMA OutcomeTells ==
    ASSUME VInv, Told
    PROVE  Contract.outcome = "completed" <=> Clean
<1>1. Contract.outcome = Outcome
  BY DEF Contract
<1>2. ~Clean => class \in Classes
  BY DEF VInv, Shaped, Told, Clean, Classes
<1> QED
  BY <1>1, <1>2 DEF Outcome, Classes

LEMMA VInvSuffices == VInv => ContractIsTrue
<1> SUFFICES ASSUME VInv PROVE ContractIsTrue
  OBVIOUS
<1>1. printed > 0 => /\ Ran /\ Told /\ stage \in {"print", "ok", "error"}
                     /\ asked.events => written = Len(records)
  BY DEF VInv, Shaped, Settled, Reported, Early, Late
<1>2. ASSUME printed = Len(records), printed > 0
      PROVE  /\ records[printed] = Contract
             /\ Ran
  BY <1>1, <1>2 DEF Told
<1>3. ContractHolds
  <2>1. /\ Contract.crew = FALSE /\ Contract.capabilities = FALSE
        /\ Contract.verify = FALSE /\ Contract.recorder = TRUE
    BY DEF Contract
  <2> HIDE DEF Contract
  <2> QED
    BY <1>2, <2>1 DEF ContractHolds, Ran, Baseline, VInv, Shaped, Crew
<1>4. AccountsAgree
  BY <1>1, OutcomeTells DEF VInv, Shaped, Reported, AccountsAgree, Told, Early, Late
<1> QED
  BY <1>3, <1>4 DEF VInv, Settled, ContractIsTrue

(* The records of a run end with its contract.                             *)
LEMMA RecordsEndWithContract ==
    ASSUME NEW n \in Nat, NEW c
    PROVE  LET all == <<"result">> \o [i \in 1 .. n |-> "signal"] \o <<c>>
           IN  Len(all) = n + 2 /\ all[Len(all)] = c
OBVIOUS

(* Nothing after the freeze reads the configuration again.                 *)
LEMMA SettledStays ==
    ASSUME VInv, UNCHANGED <<loaded, shell, asked, posture>>,
           \/ stage' = stage \/ stage' = "error"
           \/ stage = "prepare" /\ stage' = "hash" /\ ~asked.provider /\ ~asked.team
           \/ <<stage, stage'>> \in {<<"hash", "load">>, <<"hashManifest", "loadManifest">>}
           \/ stage = "ensure" /\ stage' = "poll" /\ Baseline
           \/ stage \in {"poll"} \cup Late /\ stage' \in Late
    PROVE  Settled'
<1>1. Ran' = Ran /\ OneConfiguration' = OneConfiguration
  BY DEF Ran, Baseline, OneConfiguration
<1> QED
  BY <1>1 DEF VInv, Settled, Early, Late, Ran

(* The records and the outcome do not change once they are there.          *)
LEMMA ReportedStays ==
    ASSUME VInv, UNCHANGED <<loaded, asked, posture, records, written, printed>>,
           UNCHANGED <<driver, class>> \/ driver \notin {"completed", "failed"},
           \/ stage' = stage
           \/ stage \in Early \cup {"ensure"} /\ stage' \in Early \cup {"ensure", "poll"}
           \/ stage \in Early \cup {"ensure", "events"} /\ stage' = "error"
           \/ stage = "events" /\ stage' = "print" /\ written = Len(records)
           \/ stage = "print" /\ printed = Len(records)
                 /\ stage' = IF Clean THEN "ok" ELSE "error"
    PROVE  Reported'
<1>1. Ran' = Ran
  BY DEF Ran, Baseline
<1>2. UNCHANGED <<driver, class>> => Told' = Told /\ Clean' = Clean
  BY DEF Told, Clean, Contract, Outcome
<1>3. Told => UNCHANGED <<driver, class>>
  BY DEF Told
<1>4. stage = "ok" \/ (stage = "error" /\ printed > 0) \/ stage = "print" => Told
  BY DEF VInv, Reported, Late
<1> QED
  BY <1>1, <1>2, <1>3, <1>4 DEF VInv, Shaped, Settled, Reported, Early, Late

LEMMA SolveStaysTrue == VInv /\ [SolveNext]_solveVars => VInv'
<1> SUFFICES ASSUME VInv, [SolveNext]_solveVars PROVE VInv'
  OBVIOUS
<1> USE DEF VInv
<1>1. CASE Prepare
  <2>1. Shaped' BY <1>1 DEF Prepare, Shaped, runVars, Early
  <2>2. Settled' BY <1>1, SettledStays DEF Prepare
  <2>3. Reported' BY <1>1, ReportedStays DEF Prepare, runVars, Early
  <2> QED BY <2>1, <2>2, <2>3
<1>2. ASSUME NEW f \in Files, Hash(f) PROVE VInv'
  <2>1. Shaped' BY <1>2 DEF Hash, Shaped, runVars, Early
  <2>2. Settled' BY <1>2, SettledStays DEF Hash
  <2>3. Reported' BY <1>2, ReportedStays DEF Hash, runVars, Early
  <2> QED BY <2>1, <2>2, <2>3
<1>3. ASSUME NEW f \in Files, Load(f) PROVE VInv'
  <2>1. Shaped' BY <1>3 DEF Load, Refuse, Shaped, runVars, Early
  <2>2. Settled'
    BY <1>3 DEF Load, Refuse, Settled, Shaped, OneConfiguration, Files, Early, Late, runVars
  <2>3. Reported'
    BY <1>3 DEF Load, Refuse, Reported, runVars, Early, Late
  <2> QED BY <2>1, <2>2, <2>3
<1>4. CASE Freeze
  <2>1. Shaped' BY <1>4 DEF Freeze, Shaped, runVars, Early
  <2>2. Settled'
    BY <1>4 DEF Freeze, Settled, OneConfiguration, Early, Late
  <2>3. Reported'
    BY <1>4 DEF Freeze, Reported, runVars, Early, Late
  <2> QED BY <2>1, <2>2, <2>3
<1>5. CASE Submit
  <2>1. Shaped' BY <1>5 DEF Submit, Refuse, Shaped
  <2>2. Settled' BY <1>5, SettledStays DEF Submit, Refuse
  <2>3. Reported'
    BY <1>5 DEF Submit, Refuse, Reported, Early, Late
  <2> QED BY <2>1, <2>2, <2>3
<1>6. CASE Finish
  <2>1. PICK n \in 0 .. MaxSignals :
           records' = <<"result">> \o [i \in 1 .. n |-> "signal"] \o <<Contract>>
    BY <1>6 DEF Finish
  <2>2. n \in Nat
    OBVIOUS
  <2>3. Len(records') = n + 2 /\ records'[Len(records')] = Contract
    BY <2>1, <2>2, RecordsEndWithContract
  <2>4. Contract' = Contract
    BY <1>6 DEF Finish, Contract, Outcome, Clean
  <2>5. Shaped' BY <1>6 DEF Finish, Shaped, Late
  <2>6. Settled' BY <1>6, SettledStays DEF Finish, Late
  <2>7. Reported'
    BY <1>6, <2>2, <2>3, <2>4 DEF Finish, Reported, Told, Early, Late
  <2> QED BY <2>5, <2>6, <2>7
<1>7. CASE WriteEvent
  <2>1. Shaped' BY <1>7 DEF WriteEvent, Shaped, runVars, Late
  <2>2. Settled' BY <1>7, SettledStays DEF WriteEvent, Late
  <2>3. ASSUME written < Len(records) PROVE Reported'
    <3>1. /\ stage = "events" /\ stage' = "events" /\ written' = written + 1
          /\ UNCHANGED <<asked, printed, records, driver, class>>
      BY <1>7, <2>3 DEF WriteEvent, runVars
    <3>2. Told /\ Told'
      BY <3>1 DEF Reported, Late, Told, Contract, Outcome, Clean
    <3>3. written' <= Len(records) /\ Len(records) \in Nat
      BY <2>3, <3>1, <3>2 DEF Told, Shaped
    <3> QED
      BY <3>1, <3>2, <3>3 DEF Reported, Early, Late
  <2>4. ASSUME ~ (written < Len(records)) PROVE Reported'
    <3>1. written = Len(records)
      BY <1>7, <2>4 DEF WriteEvent, Reported, Shaped, Told, Late
    <3>2. /\ stage = "events"
          /\ stage' = "print"
          /\ UNCHANGED <<loaded, asked, posture, records, written, printed>>
          /\ UNCHANGED <<driver, class>>
      BY <1>7, <2>4 DEF WriteEvent, runVars
    <3> QED
      BY <3>1, <3>2, ReportedStays
  <2> QED BY <2>1, <2>2, <2>3, <2>4
<1>8. CASE EventsFail
  <2>1. Shaped' BY <1>8 DEF EventsFail, Refuse, Shaped, runVars
  <2>2. Settled' BY <1>8, SettledStays DEF EventsFail, Refuse
  <2>3. Reported' BY <1>8, ReportedStays DEF EventsFail, Refuse, runVars
  <2> QED BY <2>1, <2>2, <2>3
<1>9. CASE PrintRecord
  <2>1. Shaped' BY <1>9 DEF PrintRecord, Shaped, runVars, Late
  <2>2. Settled' BY <1>9, SettledStays DEF PrintRecord, Late
  <2>3. ASSUME printed < Len(records) PROVE Reported'
    <3>1. /\ stage = "print" /\ stage' = "print" /\ printed' = printed + 1
          /\ UNCHANGED <<asked, written, records, driver, class>>
      BY <1>9, <2>3 DEF PrintRecord, runVars
    <3>2. Told /\ Told'
      BY <3>1 DEF Reported, Late, Told, Contract, Outcome, Clean
    <3>3. printed' <= Len(records) /\ Len(records) \in Nat
      BY <2>3, <3>1, <3>2 DEF Told, Shaped
    <3> QED
      BY <3>1, <3>2, <3>3 DEF Reported, Early, Late
  <2>4. ASSUME ~ (printed < Len(records)) PROVE Reported'
    <3>1. printed = Len(records)
      BY <1>9, <2>4 DEF PrintRecord, Reported, Shaped, Told, Late
    <3>2. /\ stage = "print"
          /\ stage' = IF Clean THEN "ok" ELSE "error"
          /\ UNCHANGED <<loaded, asked, posture, records, written, printed>>
          /\ UNCHANGED <<driver, class>>
      BY <1>9, <2>4 DEF PrintRecord, runVars
    <3> QED
      BY <3>1, <3>2, ReportedStays
  <2> QED BY <2>1, <2>2, <2>3, <2>4
<1>10. CASE DriverEnds
  <2>1. Shaped' BY <1>10 DEF DriverEnds, Shaped, Classes
  <2>2. Settled' BY <1>10, SettledStays DEF DriverEnds
  <2>3. Reported' BY <1>10, ReportedStays DEF DriverEnds
  <2> QED BY <2>1, <2>2, <2>3
<1>11. ASSUME NEW f \in Files, EditFile(f) PROVE VInv'
  <2>1. Shaped' BY <1>11 DEF EditFile, Shaped, runVars
  <2>2. Settled' BY <1>11, SettledStays DEF EditFile
  <2>3. Reported' BY <1>11, ReportedStays DEF EditFile, runVars
  <2> QED BY <2>1, <2>2, <2>3
<1>12. CASE UNCHANGED solveVars
  <2>1. Shaped' BY <1>12 DEF solveVars, Shaped, runVars
  <2>2. Settled' BY <1>12, SettledStays DEF solveVars
  <2>3. Reported' BY <1>12, ReportedStays DEF solveVars, runVars
  <2> QED BY <2>1, <2>2, <2>3
<1> QED
  BY <1>1, <1>2, <1>3, <1>4, <1>5, <1>6, <1>7, <1>8, <1>9, <1>10, <1>11, <1>12
     DEF SolveNext, SolveStep

(* For every profile, manifest and command line, edited at any moment: the *)
(* contract that is printed, the events file and the exit code say what    *)
(* happened, with one configuration throughout.                            *)
THEOREM SolvedIsTrue == SolveSpec => []ContractIsTrue
BY SolveStarts, SolveStaysTrue, VInvSuffices, PTL DEF SolveSpec

-----------------------------------------------------------------------------
(* `gila git tend`.  The steps of a repository are the steps of its         *)
(* profiles, one after the other.                                          *)
LEMMA StepsAreSequence ==
    ASSUME NEW r \in Index
    PROVE  StepsOf(r) \in Seq(STRING)
<1>1. ProfilesOf(r) \in Seq(STRING)
  BY ReposAssumption
<1> DEFINE ss == [i \in 1 .. Len(ProfilesOf(r)) |->
                   IF ProfilesOf(r)[i] \in DOMAIN Known THEN Known[ProfilesOf(r)[i]]
                   ELSE <<>>]
<1>2. \A i \in 1 .. Len(ProfilesOf(r)) : ss[i] \in Seq(STRING)
  <2>1. <<>> \in Seq(STRING)
    OBVIOUS
  <2> QED
    BY <2>1, ReposAssumption
<1>3. Len(ProfilesOf(r)) \in Nat
  BY <1>1
<1>4. ss \in Seq(Seq(STRING))
  <2> HIDE DEF ss
  <2>1. ss = [i \in 1 .. Len(ProfilesOf(r)) |-> ss[i]]
    BY DEF ss
  <2> QED
    BY <1>2, <1>3, <2>1
<1>5. StepsOf(r) = FlattenSeq(ss)
  BY DEF StepsOf
<1> HIDE DEF ss
<1> QED
  BY <1>4, <1>5, FlattenedIsSequence

(* The profile commits and pushes, in the order of the documented one.     *)
Full(r) == IsSuffix(<<"commit", "pull", "push">>, StepsOf(r))

LEMMA FullEndsSo ==
    ASSUME NEW r \in Index, Full(r)
    PROVE  LET n == Len(StepsOf(r))
           IN  /\ n \in Nat /\ n >= 3
               /\ StepsOf(r)[n - 2] = "commit" /\ StepsOf(r)[n - 1] = "pull"
               /\ StepsOf(r)[n] = "push"
<1> DEFINE s == StepsOf(r)
           p == <<"commit", "pull", "push">>
           n == Len(s)
           rs == Reverse(s)
           rp == Reverse(p)
<1>1. s \in Seq(STRING) /\ n \in Nat
  BY StepsAreSequence
<1>2. rp = <<"push", "pull", "commit">> /\ Len(rp) = 3
  BY DEF Reverse
<1>3. Len(rs) = n /\ rs \in Seq(STRING) /\ \A i \in 1 .. n : rs[i] = s[n - i + 1]
  <2> HIDE DEF s
  <2> QED
    BY <1>1 DEF Reverse
<1>4. 3 <= Len(rs) /\ SubSeq(rp, 1, 3) = SubSeq(rs, 1, 3)
  <2>1. IsPrefix(rp, rs)
    BY DEF Full, IsSuffix
  <2> HIDE DEF rs, rp
  <2> QED
    BY <1>2, <2>1 DEF IsPrefix
<1>5. rs[1] = "push" /\ rs[2] = "pull" /\ rs[3] = "commit"
  <2> HIDE DEF rs, rp, s
  <2>1. \A i \in 1 .. 3 : SubSeq(rs, 1, 3)[i] = rs[i]
    BY <1>3, <1>4
  <2>2. \A i \in 1 .. 3 : SubSeq(rp, 1, 3)[i] = rp[i]
    BY <1>2
  <2> QED
    BY <1>2, <1>4, <2>1, <2>2
<1>6. n >= 3 /\ s[n] = "push" /\ s[n - 1] = "pull" /\ s[n - 2] = "commit"
  <2> HIDE DEF rs, rp, s
  <2>1. n >= 3
    BY <1>3, <1>4
  <2>2. n - 1 + 1 = n /\ n - 2 + 1 = n - 1 /\ n - 3 + 1 = n - 2
    BY <1>1
  <2> QED
    BY <1>1, <1>3, <1>5, <2>1, <2>2
<1> QED
  BY <1>1, <1>6

(* A repository that has not failed under Halt has every step behind it    *)
(* done (Carried): its work is as far as they take it.                     *)
Busy == {"step", "conflict", "reset"}

Carried(r) ==
    r \notin stopped /\ StrategyOf(r) = "Halt" /\ ~dry /\ edits = 0 /\ Full(r) =>
        /\ work[r] \in {"tree", "committed", "pushed"}
        /\ r < repo /\ r \in reached => work[r] = "pushed"
        /\ r = repo /\ doing = "step" =>
              /\ next > Len(StepsOf(r)) - 2 => work[r] \in {"committed", "pushed"}
              /\ next > Len(StepsOf(r)) => work[r] = "pushed"

InLoop ==
    /\ repo \in 1 .. Len(Repos) + 1 /\ next \in Nat /\ edits \in Nat
    /\ DOMAIN work = Index /\ stopped \subseteq Nat
    /\ doing \in Busy \cup {"begin", "over"}
    /\ doing \in Busy => repo \in Index /\ Selected(repo)
    /\ doing = "over" => repo = Len(Repos) + 1
    /\ reached = {r \in Index : Selected(r) /\ (r < repo \/ (r = repo /\ doing \in Busy))}
    /\ doing = "reset" => StrategyOf(repo) = "Overwrite"
    /\ dry => doing \notin {"conflict", "reset"}

GInv == InLoop /\ WorkIsKept /\ \A r \in Index : Carried(r)

LEMMA GitStarts == GitInit => GInv
<1> SUFFICES ASSUME GitInit PROVE GInv
  OBVIOUS
<1> USE DEF GitInit
<1>1. InLoop
  <2>1. reached = {r \in Index : Selected(r) /\ (r < repo \/ (r = repo /\ doing \in Busy))}
    BY ReposAssumption DEF Index, Busy
  <2> QED
    BY <2>1, ReposAssumption DEF InLoop, Busy, Index
<1>2. WorkIsKept
  BY DEF WorkIsKept
<1>3. ASSUME NEW r \in Index PROVE Carried(r)
  <2>1. Full(r) => ~ (1 > Len(StepsOf(r)) - 2) /\ ~ (1 > Len(StepsOf(r)))
    BY FullEndsSo
  <2>2. ~ (r < 1) /\ work[r] = "tree"
    BY ReposAssumption DEF Index
  <2> QED
    BY <2>1, <2>2 DEF Carried
<1> QED
  BY <1>1, <1>2, <1>3 DEF GInv

LEMMA GInvSuffices == GInv => ReposAreTended
<1> SUFFICES ASSUME GInv PROVE ReposAreTended
  OBVIOUS
<1> USE DEF GInv, InLoop
<1>1. ASSUME doing = "over" PROVE reached = {r \in Index : Selected(r)}
  <2>1. \A r \in Index : r < repo
    BY <1>1, ReposAssumption DEF Index
  <2> QED
    BY <1>1, <2>1 DEF Busy
<1>2. ASSUME doing = "over", NEW r \in reached \ stopped,
             StrategyOf(r) = "Halt" /\ ~dry /\ edits = 0, Full(r)
      PROVE  work[r] = "pushed"
  <2>1. r \in Index /\ r < repo
    BY <1>2, ReposAssumption DEF Index
  <2> QED
    BY <1>2, <2>1 DEF Carried
<1> QED
  BY <1>1, <1>2 DEF ReposAreTended, EveryRepoIsTended, Full

(* What is said of the loop stays so when it goes on with the repository,  *)
(* leaves it, or does not move.                                            *)
LEMMA InLoopStays ==
    ASSUME GInv, UNCHANGED <<setup, reached>>,
           next' \in Nat, edits' \in Nat, DOMAIN work' = Index, stopped' \subseteq Nat,
           \/ doing' = doing /\ repo' = repo
           \/ /\ doing \in Busy /\ doing' \in Busy /\ repo' = repo
              /\ doing' = "reset" => StrategyOf(repo) = "Overwrite"
              /\ dry => doing' = "step"
           \/ doing \in Busy /\ NextRepo
    PROVE  InLoop'
<1> USE DEF GInv, InLoop, setup
<1>1. \A r \in Index : (Selected(r))' = Selected(r) /\ (StrategyOf(r))' = StrategyOf(r)
  BY DEF Selected, StrategyOf
<1>2. repo \in Nat /\ Len(Repos) \in Nat
  BY ReposAssumption
<1>3. CASE doing' = doing /\ repo' = repo
  BY <1>1, <1>2, <1>3 DEF Busy
<1>4. CASE /\ doing \in Busy /\ doing' \in Busy /\ repo' = repo
           /\ doing' = "reset" => StrategyOf(repo) = "Overwrite"
           /\ dry => doing' = "step"
  BY <1>1, <1>2, <1>4 DEF Busy
<1>5. CASE doing \in Busy /\ NextRepo
  <2>1. repo' = repo + 1 /\ doing' = "begin" /\ repo \in Index /\ repo' \in 1 .. Len(Repos) + 1
    BY <1>2, <1>5 DEF NextRepo, Busy, Index
  <2>2. \A r \in Index : (r < repo \/ (r = repo /\ doing \in Busy)) <=> r < repo'
    BY <1>2, <1>5, <2>1 DEF Index
  <2>3. reached' = {r \in Index : Selected(r)' /\ (r < repo' \/ (r = repo' /\ doing' \in Busy))}
    BY <1>1, <2>1, <2>2 DEF Busy
  <2> QED
    BY <1>1, <1>2, <2>1, <2>3 DEF Busy
<1> QED
  BY <1>3, <1>4, <1>5

(* A loop that leaves a repository as failed, or that touches nothing of   *)
(* what it has carried, carries what it has.                               *)
LEMMA CarriedStays ==
    ASSUME GInv, UNCHANGED <<setup, reached, work, edits>>, NEW r \in Index,
           stopped \subseteq stopped',
           \/ UNCHANGED <<doing, repo, next>>
           \/ doing \in Busy /\ repo' = repo /\ (doing' = "step" => StrategyOf(repo) # "Halt")
           \/ doing \in Busy /\ NextRepo /\ repo \in stopped'
           \/ StepsDone
    PROVE  Carried(r)'
<1>1. /\ (StrategyOf(r))' = StrategyOf(r)
      /\ dry' = dry /\ edits' = edits /\ work' = work /\ reached' = reached
  BY DEF StrategyOf, setup
<1>2. repo \in Nat /\ r \in Nat
  BY ReposAssumption DEF GInv, InLoop, Index
<1>3. Carried(r)
  BY DEF GInv
<1>4. CASE UNCHANGED <<doing, repo, next>>
  BY <1>1, <1>3, <1>4 DEF Carried
<1>5. CASE doing \in Busy /\ repo' = repo /\ (doing' = "step" => StrategyOf(repo) # "Halt")
  BY <1>1, <1>2, <1>3, <1>5 DEF Carried
<1>6. CASE doing \in Busy /\ NextRepo /\ repo \in stopped'
  BY <1>1, <1>2, <1>3, <1>6 DEF Carried, NextRepo
<1>7. CASE StepsDone
  <2>1. repo' = repo + 1 /\ doing' = "begin" /\ doing = "step" /\ next > Len(StepsOf(repo))
    BY <1>7 DEF StepsDone, NextRepo
  <2> QED
    BY <1>1, <1>2, <1>3, <2>1 DEF Carried
<1> QED
  BY <1>4, <1>5, <1>6, <1>7

LEMMA GitStaysKept == GInv /\ [GitNext]_tendVars => GInv'
<1> SUFFICES ASSUME GInv, [GitNext]_tendVars PROVE GInv'
  OBVIOUS
<1>0. /\ InLoop /\ WorkIsKept /\ Len(Repos) \in Nat /\ repo \in Nat
      /\ next \in Nat /\ stopped \subseteq Nat /\ Index \subseteq Nat
  BY ReposAssumption DEF GInv, InLoop, Index
<1>1. CASE BeginRepo
  <2>1. /\ UNCHANGED <<setup, stopped, work, edits>> /\ next' = 1
        /\ doing = "begin"
    BY <1>1 DEF BeginRepo
  <2>2. \A r \in Index : (Selected(r))' = Selected(r) /\ (StrategyOf(r))' = StrategyOf(r)
    BY <2>1 DEF Selected, StrategyOf, setup
  <2>3. \/ repo > Len(Repos) /\ doing' = "over" /\ UNCHANGED <<repo, reached>>
        \/ repo \in Index /\ ~Selected(repo) /\ repo' = repo + 1 /\ UNCHANGED <<doing, reached>>
        \/ /\ repo \in Index /\ Selected(repo) /\ doing' = "step"
           /\ reached' = reached \cup {repo} /\ repo' = repo
    BY <1>0, <1>1 DEF BeginRepo, Selected, InLoop, Index
  <2>4. InLoop'
    <3>1. reached' = {r \in Index : (Selected(r))' /\ (r < repo' \/ (r = repo' /\ doing' \in Busy))}
      BY <1>0, <2>1, <2>2, <2>3 DEF InLoop, Busy
    <3> QED
      BY <1>0, <2>1, <2>2, <2>3, <3>1 DEF InLoop, Busy, Index, setup
  <2>5. WorkIsKept'
    BY <1>0, <2>1, <2>2, <2>3 DEF WorkIsKept, setup
  <2>6. ASSUME NEW r \in Index PROVE Carried(r)'
    <3>1. Full(r) => ~ (1 > Len(StepsOf(r)) - 2) /\ ~ (1 > Len(StepsOf(r)))
      BY FullEndsSo
    <3>2. Carried(r) /\ r \in Nat /\ edits' = edits /\ stopped' = stopped /\ work' = work
      BY <1>0, <2>1 DEF GInv
    <3>3. r < repo' /\ r \in reached' => r < repo /\ r \in reached
      BY <1>0, <2>1, <2>3, <3>2 DEF InLoop
    <3>4. dry' = dry
      BY <2>1 DEF setup
    <3> QED
      BY <2>1, <2>2, <3>1, <3>2, <3>3, <3>4 DEF Carried
  <2> QED BY <2>4, <2>5, <2>6 DEF GInv
<1>2. CASE RunStep
  <2> DEFINE cmd == StepsOf(repo)[next]
  <2>1. /\ UNCHANGED <<setup, repo, stopped, reached, edits>>
        /\ doing = "step" /\ next <= Len(StepsOf(repo)) /\ repo \in Index
    BY <1>0, <1>2 DEF RunStep, InLoop, Busy
  <2>2. \/ dry /\ next' = next + 1 /\ UNCHANGED <<doing, work, behind>>
        \/ ~dry /\ Effect(repo, cmd) /\ next' = next + 1 /\ doing' = doing
        \/ ~dry /\ doing' = "conflict" /\ UNCHANGED <<next, work, behind>>
    BY <1>2 DEF RunStep
  <2>3. /\ \A r \in Index : r # repo => work'[r] = work[r]
        /\ DOMAIN work' = Index
    BY <1>0, <2>1, <2>2 DEF Effect, InLoop
  <2>4. next' = next + 1 /\ ~dry =>
           work'[repo] = CASE cmd = "commit" /\ work[repo] = "tree"      -> "committed"
                           [] cmd = "push"   /\ work[repo] = "committed" -> "pushed"
                           [] OTHER -> work[repo]
    BY <1>0, <2>1, <2>2 DEF Effect, InLoop
  <2>5. InLoop'
    BY <1>0, <2>1, <2>2, <2>3, InLoopStays DEF InLoop, GInv, Busy
  <2>6. WorkIsKept'
    <3>1. ASSUME NEW r \in Index, work'[r] = "lost" PROVE work[r] = "lost"
      BY <1>0, <2>1, <2>2, <2>3, <2>4, <3>1 DEF InLoop
    <3>2. dry => work' = work
      BY <2>2
    <3> QED
      BY <1>0, <2>1, <3>1, <3>2 DEF WorkIsKept, StrategyOf, setup
  <2>7. ASSUME NEW r \in Index PROVE Carried(r)'
    <3>1. Carried(r) /\ r \in Nat /\ (StrategyOf(r))' = StrategyOf(r) /\ dry' = dry
      BY <1>0, <2>1 DEF GInv, StrategyOf, setup
    <3>2. CASE r # repo
      BY <2>1, <2>3, <3>1, <3>2 DEF Carried
    <3>3. CASE r = repo /\ doing' = "conflict" /\ work' = work
      BY <1>0, <2>1, <3>1, <3>3 DEF Carried
    <3>4. CASE r = repo /\ next' = next + 1 /\ doing' = doing
      <4> SUFFICES ASSUME r \notin stopped, ~dry, StrategyOf(r) = "Halt", edits = 0, Full(r)
                   PROVE  Carried(r)'
        BY <2>1, <3>1 DEF Carried
      <4> DEFINE n == Len(StepsOf(r))
      <4>1. /\ n \in Nat /\ n >= 3
            /\ StepsOf(r)[n - 2] = "commit" /\ StepsOf(r)[n] = "push"
        BY FullEndsSo
      <4> HIDE DEF n
      <4>2. /\ work[r] \in {"tree", "committed", "pushed"}
            /\ next > n - 2 => work[r] \in {"committed", "pushed"}
            /\ next > n => work[r] = "pushed"
        BY <2>1, <3>1, <3>4 DEF Carried, n
      <4>3. next \in Nat /\ next <= n
        BY <1>0, <2>1, <3>4 DEF InLoop, n
      <4>4. /\ next = n - 2 => cmd = "commit"
            /\ next = n => cmd = "push"
        BY <3>4, <4>1
      <4>5. /\ work'[r] \in {"tree", "committed", "pushed"}
            /\ work[r] \in {"committed", "pushed"} => work'[r] \in {"committed", "pushed"}
            /\ cmd = "commit" => work'[r] \in {"committed", "pushed"}
            /\ cmd = "push" /\ work[r] \in {"committed", "pushed"} => work'[r] = "pushed"
        BY <2>4, <3>4, <4>2
      <4>6. /\ next + 1 > n - 2 => work'[r] \in {"committed", "pushed"}
            /\ next + 1 > n => work'[r] = "pushed"
        BY <4>1, <4>2, <4>3, <4>4, <4>5
      <4> QED
        BY <1>0, <2>1, <3>4, <4>5, <4>6 DEF Carried, n
    <3> QED
      BY <2>2, <3>2, <3>3, <3>4
  <2> QED BY <2>5, <2>6, <2>7 DEF GInv
<1>3. CASE StepsDone
  <2>1. /\ UNCHANGED <<setup, next, stopped, reached, work, edits>> /\ NextRepo
        /\ doing = "step"
    BY <1>3 DEF StepsDone
  <2>2. InLoop'
    BY <1>0, <2>1, InLoopStays DEF InLoop, Busy
  <2>3. WorkIsKept'
    BY <1>0, <2>1 DEF WorkIsKept, StrategyOf, setup
  <2>4. ASSUME NEW r \in Index PROVE Carried(r)'
    BY <1>3, <2>1, CarriedStays
  <2> QED BY <2>2, <2>3, <2>4 DEF GInv
<1>4. CASE Conflict
  <2>1. /\ UNCHANGED <<setup, reached, edits>> /\ doing = "conflict" /\ repo \in Index
        /\ ~dry
    BY <1>0, <1>4 DEF Conflict, InLoop, Busy
  <2>2. \/ Stop
        \/ GoOn /\ StrategyOf(repo) # "Halt"
        \/ /\ doing' = "reset" /\ UNCHANGED <<repo, next, stopped>>
           /\ StrategyOf(repo) = "Overwrite"
    BY <1>4 DEF Conflict, Stash
  <2>3. /\ DOMAIN work' = Index
        /\ \A r \in Index : r # repo => work'[r] = work[r]
        /\ work' # work => StrategyOf(repo) = "Stash"
        /\ work'[repo] \in {work[repo], "stashed"}
    BY <1>0, <1>4, <2>1 DEF Conflict, Stash, InLoop
  <2>4. stopped' \subseteq Nat /\ stopped \subseteq stopped' /\ next' \in Nat
    <3>1. stopped' \in {stopped, stopped \cup {repo}} /\ next' \in {next, next + 1}
      BY <2>2 DEF Stop, GoOn
    <3> QED
      BY <1>0, <3>1
  <2>5. InLoop'
    BY <1>0, <2>1, <2>2, <2>3, <2>4, InLoopStays DEF InLoop, Busy, Stop, GoOn
  <2>6. WorkIsKept'
    <3>1. ASSUME NEW r \in Index, work'[r] = "lost" PROVE work[r] = "lost"
      BY <2>3, <3>1
    <3> QED
      BY <1>0, <2>1, <3>1 DEF WorkIsKept, StrategyOf, setup
  <2>7. ASSUME NEW r \in Index PROVE Carried(r)'
    <3>1. CASE work' = work
      BY <2>1, <2>2, <2>4, <3>1, CarriedStays DEF Stop, GoOn, Busy
    <3>2. CASE work' # work
      <4>1. StrategyOf(repo) = "Stash" /\ GoOn
        BY <1>4, <2>3, <3>2 DEF Conflict, Stash
      <4>2. Carried(r) /\ (StrategyOf(r))' = StrategyOf(r) /\ dry' = dry
        BY <2>1 DEF GInv, StrategyOf, setup
      <4>3. CASE r = repo
        BY <4>1, <4>2, <4>3 DEF Carried
      <4>4. CASE r # repo
        BY <2>1, <2>3, <4>1, <4>2, <4>4 DEF Carried, GoOn
      <4> QED
        BY <4>3, <4>4
    <3> QED BY <3>1, <3>2
  <2> QED BY <2>5, <2>6, <2>7 DEF GInv
<1>5. CASE Reset
  <2>1. /\ UNCHANGED <<setup, reached, edits>> /\ doing = "reset" /\ repo \in Index
        /\ StrategyOf(repo) = "Overwrite" /\ ~dry /\ repo \in reached
    <3>1. /\ UNCHANGED <<setup, reached, edits>> /\ doing = "reset" /\ doing \in Busy
      BY <1>5 DEF Reset, Busy
    <3>2. repo \in Index /\ Selected(repo) /\ StrategyOf(repo) = "Overwrite" /\ ~dry
      BY <1>0, <3>1 DEF InLoop
    <3> QED
      BY <1>0, <3>1, <3>2 DEF InLoop
  <2>2. (Stop /\ work' = work) \/ GoOn
    BY <1>5 DEF Reset
  <2>3. /\ DOMAIN work' = Index
        /\ \A r \in Index : r # repo => work'[r] = work[r]
    BY <1>0, <1>5, <2>1 DEF Reset, InLoop
  <2>4. stopped' \subseteq Nat /\ stopped \subseteq stopped' /\ next' \in Nat
    <3>1. stopped' \in {stopped, stopped \cup {repo}} /\ next' \in {next, next + 1}
      BY <2>2 DEF Stop, GoOn
    <3> QED
      BY <1>0, <3>1
  <2>5. InLoop'
    BY <1>0, <2>1, <2>2, <2>3, <2>4, InLoopStays DEF InLoop, Busy, Stop, GoOn
  <2>6. WorkIsKept'
    BY <1>0, <2>1, <2>3 DEF WorkIsKept, StrategyOf, setup
  <2>7. ASSUME NEW r \in Index PROVE Carried(r)'
    <3>1. Carried(r) /\ (StrategyOf(r))' = StrategyOf(r) /\ dry' = dry
      BY <2>1 DEF GInv, StrategyOf, setup
    <3>2. CASE r = repo
      BY <2>1, <3>1, <3>2 DEF Carried
    <3>3. CASE r # repo
      <4>1. CASE Stop /\ work' = work
        BY <2>1, <2>4, <4>1, CarriedStays DEF Stop, Busy
      <4>2. CASE GoOn
        BY <2>1, <2>3, <3>1, <3>3, <4>2 DEF Carried, GoOn
      <4> QED
        BY <2>2, <4>1, <4>2
    <3> QED BY <3>2, <3>3
  <2> QED BY <2>5, <2>6, <2>7 DEF GInv
<1>6. ASSUME NEW r \in Index, Edit(r) PROVE GInv'
  <2>1. /\ UNCHANGED <<setup, repo, next, doing, stopped, reached>>
        /\ edits' = edits + 1 /\ work[r] \notin {"tree", "lost"}
        /\ work' = [work EXCEPT ![r] = "tree"]
    BY <1>6 DEF Edit
  <2>2. DOMAIN work' = Index /\ edits' \in Nat /\ edits' # 0 /\ ~dry
    BY <1>0, <2>1 DEF InLoop, WorkIsKept
  <2>3. InLoop'
    BY <1>0, <2>1, <2>2, InLoopStays DEF InLoop
  <2>4. WorkIsKept'
    BY <1>0, <2>1, <2>2 DEF WorkIsKept, StrategyOf, setup, InLoop
  <2>5. \A q \in Index : Carried(q)'
    BY <2>2 DEF Carried
  <2> QED BY <2>3, <2>4, <2>5 DEF GInv
<1>7. CASE UNCHANGED <<setup, repo, next, doing, stopped, reached, work, edits>>
  <2>1. InLoop'
    BY <1>0, <1>7, InLoopStays DEF InLoop
  <2>2. WorkIsKept'
    BY <1>0, <1>7 DEF WorkIsKept, StrategyOf, setup
  <2>3. ASSUME NEW r \in Index PROVE Carried(r)'
    BY <1>7, CarriedStays
  <2> QED BY <2>1, <2>2, <2>3 DEF GInv
<1> QED
  BY <1>1, <1>2, <1>3, <1>4, <1>5, <1>6, <1>7
     DEF GitNext, TendStep, RemoteMoves, tendVars

(* The trouble of one repository is its own, what is reported as fine has  *)
(* been carried to the remote, and nothing but Overwrite discards work:    *)
(* for every configuration of repositories, profiles and strategies.       *)
THEOREM ReposStayTended == GitSpec => []ReposAreTended
BY GitStarts, GitStaysKept, GInvSuffices, PTL DEF GitSpec

-----------------------------------------------------------------------------
(* `gila todos` and the other note commands.  Between the commands every    *)
(* promised line is in the file (HoldsIn); while one of them is writing,   *)
(* alone and to a file it has emptied, they are in what it found there;    *)
(* and when the file was written to since, or two of them write, the last  *)
(* to write will find lines it had not seen.                               *)
HoldsIn(said, lines) ==
    /\ \A line \in said : \E i \in DOMAIN lines : lines[i] = line
    /\ \A i \in DOMAIN lines : lines[i] = Header => i = 1

Writes(c) == step[c] = "write"
Alone(c) == \A d \in Commands : Writes(d) => d = c

Typed ==
    /\ body \in Seq(Lines) \cup {Absent}
    /\ kind \in [Commands -> Kinds]
    /\ step \in [Commands -> {"look", "truncate", "write", "append", "end", "failed"}]
    /\ seen \in [Commands -> Seq(Lines) \cup {Absent}]
    /\ text \in [Commands -> Seq(Lines)]

Planned(c) ==
    step[c] \in {"truncate", "write"} =>
        /\ seen[c] # <<>> /\ text[c] # <<>>
        /\ kind[c] = "done" => text[c] = MarkDone(Text(seen[c]), nth[c])
        /\ kind[c] # "done" => seen[c] = Absent /\ text[c] = <<Header>>

Between == (\A c \in Commands : ~Writes(c)) /\ HoldsIn(promised, Text(body))
Rewriting ==
    \E c \in Commands :
        Writes(c) /\ Alone(c) /\ body = <<>> /\ HoldsIn(promised, Text(seen[c]))
Crossed == \E c \in Commands : Writes(c) /\ ~ (Alone(c) /\ body = <<>>)

NInv ==
    /\ Typed /\ \A c \in Commands : Planned(c)
    /\ stale = {} /\ ~torn => Between \/ Rewriting \/ Crossed

LEMMA AuthorsOfLines ==
    /\ Header \in Lines /\ Note \in Lines /\ Note # Header
    /\ \A c \in Commands : Todo(c) \in Lines /\ Todo(c) # Header
BY NotesAssumption DEF Header, Note, Todo, Lines, Authors

LEMMA NotesStart == NoteInit => NInv
<1> SUFFICES ASSUME NoteInit PROVE NInv
  OBVIOUS
<1> USE DEF NoteInit
<1>1. Typed
  <2>1. <<>> \in Seq(Lines)
    OBVIOUS
  <2> QED
    BY <2>1, NotesAssumption DEF Typed
<1>2. \A c \in Commands : Planned(c)
  BY DEF Planned
<1>3. Between
  BY NotesAssumption DEF Between, Writes, HoldsIn, Text
<1> QED
  BY <1>1, <1>2, <1>3 DEF NInv

LEMMA NInvSuffices == NInv => NotesAreKept
<1> SUFFICES ASSUME NInv, stale = {}, ~torn, \A c \in Commands : step[c] # "write"
             PROVE  HoldsIn(promised, Text(body))
  BY DEF NotesAreKept, HoldsIn, Text
<1> QED
  BY DEF NInv, Between, Rewriting, Crossed, Writes

(* mark_done keeps every line but the one it marks, and marks that one.    *)
LEMMA DoneKeeps ==
    ASSUME NEW lines \in Seq(Lines), NEW n
    PROVE  /\ MarkDone(lines, n) \in Seq(Lines)
           /\ DOMAIN MarkDone(lines, n) = DOMAIN lines
           /\ \A i \in DOMAIN lines :
                 /\ MarkDone(lines, n)[i].by = lines[i].by
                 /\ ~IsNthOpen(lines, i, n) => MarkDone(lines, n)[i] = lines[i]
                 /\ MarkDone(lines, n)[i] = Header => lines[i] = Header
<1> DEFINE done == MarkDone(lines, n)
<1>1. ASSUME NEW i \in DOMAIN lines
      PROVE  /\ done[i] \in Lines
             /\ done[i].by = lines[i].by
             /\ ~IsNthOpen(lines, i, n) => done[i] = lines[i]
             /\ done[i] = Header => lines[i] = Header
  <2>1. lines[i] \in Lines
    OBVIOUS
  <2>2. PICK b \in Authors, o \in BOOLEAN :
           /\ lines[i] = [by |-> b, open |-> o]
           /\ b = "header" => ~o
    BY <2>1 DEF Lines
  <2>3. done[i] = [by |-> b, open |-> o /\ ~IsNthOpen(lines, i, n)]
    BY <2>2 DEF MarkDone
  <2>4. ~IsNthOpen(lines, i, n) => done[i] = lines[i]
    BY <2>2, <2>3
  <2>5. done[i] \in Lines
    BY <2>2, <2>3 DEF Lines
  <2>6. done[i].by = b /\ lines[i].by = b
    BY <2>2, <2>3
  <2>7. ASSUME done[i] = Header PROVE lines[i] = Header
    <3>1. b = "header"
      BY <2>6, <2>7 DEF Header
    <3>2. o = FALSE
      BY <2>2, <3>1
    <3> QED
      BY <2>2, <3>1, <3>2 DEF Header
  <2> QED
    BY <2>4, <2>5, <2>6, <2>7
<1>2. done \in Seq(Lines) /\ DOMAIN done = DOMAIN lines
  <2>1. DOMAIN lines = 1 .. Len(lines) /\ Len(lines) \in Nat
    OBVIOUS
  <2>2. done = [i \in 1 .. Len(lines) |-> done[i]]
    BY <2>1 DEF MarkDone
  <2> HIDE DEF done
  <2> QED
    BY <1>1, <2>1, <2>2
<1> QED
  BY <1>1, <1>2

(* The marked text holds what is promised once it is written.              *)
LEMMA DoneHolds ==
    ASSUME NEW lines \in Seq(Lines), NEW n, NEW said, HoldsIn(said, lines)
    PROVE  LET done == MarkDone(lines, n)
               marked == {done[i] : i \in {j \in DOMAIN done : IsNthOpen(lines, j, n)}}
           IN  HoldsIn({line \in said :
                           line.open => \A m \in marked : m.by # line.by} \cup marked,
                       done)
<1> DEFINE done == MarkDone(lines, n)
           marked == {done[i] : i \in {j \in DOMAIN done : IsNthOpen(lines, j, n)}}
<1>1. /\ DOMAIN done = DOMAIN lines
      /\ \A i \in DOMAIN lines :
            /\ done[i].by = lines[i].by
            /\ ~IsNthOpen(lines, i, n) => done[i] = lines[i]
            /\ done[i] = Header => lines[i] = Header
  BY DoneKeeps
<1> HIDE DEF done
<1>2. ASSUME NEW line \in said, line.open => \A m \in marked : m.by # line.by
      PROVE  \E i \in DOMAIN done : done[i] = line
  <2>1. PICK i \in DOMAIN lines : lines[i] = line
    BY DEF HoldsIn
  <2>2. ~IsNthOpen(lines, i, n)
    <3> SUFFICES ASSUME IsNthOpen(lines, i, n) PROVE FALSE
      OBVIOUS
    <3>1. line.open /\ done[i] \in marked /\ done[i].by = line.by
      BY <1>1, <2>1 DEF IsNthOpen
    <3> QED
      BY <1>2, <3>1
  <2> QED
    BY <1>1, <2>1, <2>2
<1>3. ASSUME NEW m \in marked PROVE \E i \in DOMAIN done : done[i] = m
  OBVIOUS
<1>4. ASSUME NEW i \in DOMAIN done, done[i] = Header PROVE i = 1
  BY <1>1, <1>4 DEF HoldsIn
<1> HIDE DEF marked
<1>5. HoldsIn({line \in said : line.open => \A m \in marked : m.by # line.by} \cup marked,
              done)
  BY <1>2, <1>3, <1>4 DEF HoldsIn
<1> QED
  BY <1>5 DEF done, marked

(* A line more at the end.                                                 *)
LEMMA OneMoreHolds ==
    ASSUME NEW lines \in Seq(Lines), NEW said, HoldsIn(said, lines),
           NEW l \in Lines, l # Header
    PROVE  HoldsIn(said \cup {l}, Append(lines, l))
<1>1. /\ \A i \in DOMAIN lines : i \in DOMAIN Append(lines, l) /\ Append(lines, l)[i] = lines[i]
      /\ Len(lines) + 1 \in DOMAIN Append(lines, l)
      /\ Append(lines, l)[Len(lines) + 1] = l
      /\ \A i \in DOMAIN Append(lines, l) : i \in DOMAIN lines \/ i = Len(lines) + 1
  OBVIOUS
<1> QED
  BY <1>1 DEF HoldsIn

(* What a process that is left alone was to write stays so.                *)
LEMMA PlannedStays ==
    ASSUME NInv, NEW c \in Commands, kind'[c] = kind[c], nth'[c] = nth[c],
           seen'[c] = seen[c], text'[c] = text[c],
           step'[c] \in {"truncate", "write"} => step[c] \in {"truncate", "write"}
    PROVE  Planned(c)'
BY DEF NInv, Planned, Text

\* A step that leaves file and promises alone, and that no one enters or
\* leaves fs::write by, leaves all as it was.
LEMMA KeptStays ==
    ASSUME NInv, UNCHANGED <<body, promised, stale>>, torn' <=> torn,
           \A c \in Commands : Writes(c)' <=> Writes(c),
           \A c \in Commands : Writes(c) => seen'[c] = seen[c]
    PROVE  (stale = {} /\ ~torn => Between \/ Rewriting \/ Crossed)'
<1>1. CASE ~(stale = {} /\ ~torn)
  BY <1>1
<1>2. CASE Between
  BY <1>2 DEF Between, Text
<1>3. CASE Rewriting
  <2>1. PICK c \in Commands :
           Writes(c) /\ Alone(c) /\ body = <<>> /\ HoldsIn(promised, Text(seen[c]))
    BY <1>3 DEF Rewriting
  <2>2. Alone(c)' /\ Writes(c)' /\ (Text(seen[c]))' = Text(seen[c])
    BY <2>1 DEF Alone, Text
  <2> QED
    BY <2>1, <2>2 DEF Rewriting
<1>4. CASE Crossed
  <2>1. \A c \in Commands : Alone(c)' <=> Alone(c)
    BY DEF Alone
  <2> QED
    BY <1>4, <2>1 DEF Crossed
<1> QED
  BY <1>1, <1>2, <1>3, <1>4 DEF NInv

\* A line more at the end of the file is kept, or seen too late by who writes.
LEMMA KeptGrows ==
    ASSUME NInv, NEW l \in Lines, l # Header,
           body' = Append(Text(body), l), promised' = promised \cup {l},
           UNCHANGED <<stale, torn>>,
           \A c \in Commands : Writes(c)' <=> Writes(c)
    PROVE  /\ body' \in Seq(Lines)
           /\ (stale = {} /\ ~torn => Between \/ Rewriting \/ Crossed)'
<1>1. Text(body) \in Seq(Lines)
  BY DEF NInv, Typed, Text
<1>2. body' \in Seq(Lines) /\ body' # <<>>
  BY <1>1
<1>3. (Text(body))' = body'
  BY <1>2, NotesAssumption DEF Text
<1>4. CASE ~(stale = {} /\ ~torn)
  BY <1>2, <1>4
<1>5. CASE Between
  <2>1. HoldsIn(promised', body')
    BY <1>1, <1>5, OneMoreHolds DEF Between
  <2> QED
    BY <1>2, <1>3, <1>5, <2>1 DEF Between
<1>6. CASE Rewriting \/ Crossed
  <2>1. PICK c \in Commands : Writes(c)
    BY <1>6 DEF Rewriting, Crossed
  <2> QED
    BY <1>2, <2>1 DEF Crossed
<1> QED
  BY <1>4, <1>5, <1>6 DEF NInv

LEMMA NotesStayKept == NInv /\ [NoteNext]_noteVars => NInv'
<1> SUFFICES ASSUME NInv, [NoteNext]_noteVars PROVE NInv'
  OBVIOUS
<1>0. /\ Typed /\ \A c \in Commands : Planned(c)
      /\ stale = {} /\ ~torn => Between \/ Rewriting \/ Crossed
      /\ Text(body) \in Seq(Lines) /\ \A c \in Commands : Text(seen[c]) \in Seq(Lines)
  BY DEF NInv, Typed, Text
<1>1. ASSUME NEW c \in Commands, Look(c) PROVE NInv'
  <2>1. /\ step[c] = "look" /\ UNCHANGED <<kind, nth, body, promised, stale,
                                           torn>>
        /\ \A d \in Commands : d # c =>
              step'[d] = step[d] /\ seen'[d] = seen[d] /\ text'[d] = text[d]
        /\ seen' = [seen EXCEPT ![c] = body] /\ seen'[c] = body
    BY <1>0, <1>1 DEF Look, Typed
  <2>2. ASSUME kind[c] = "done"
        PROVE  Typed' /\ step'[c] # "write" /\ Planned(c)'
    <3>1. /\ text' = [text EXCEPT ![c] = MarkDone(Text(body), nth[c])]
          /\ text'[c] = MarkDone(Text(body), nth[c])
          /\ step' = [step EXCEPT ![c] =
               IF nth[c] \in 1 .. Cardinality(OpenUpTo(Text(body), Len(Text(body))))
               THEN "truncate" ELSE "failed"]
      BY <1>0, <1>1, <2>2 DEF Look, Typed
    <3>2. text'[c] \in Seq(Lines) /\ DOMAIN text'[c] = DOMAIN Text(body)
      BY <1>0, <3>1, DoneKeeps
    <3>3. Typed'
      BY <1>0, <2>1, <3>1, <3>2 DEF Typed
    <3>4. ASSUME step'[c] = "truncate" PROVE Text(body) # <<>>
      <4> SUFFICES ASSUME Text(body) = <<>> PROVE FALSE
        OBVIOUS
      <4>1. OpenUpTo(Text(body), Len(Text(body))) = {}
        BY DEF OpenUpTo
      <4>2. Cardinality(OpenUpTo(Text(body), Len(Text(body)))) = 0
        BY <4>1, FS_EmptySet
      <4> QED
        BY <1>0, <3>1, <3>4, <4>2 DEF Typed
    <3>5. step'[c] \in {"truncate", "failed"}
      BY <1>0, <3>1 DEF Typed
    <3>6. Planned(c)'
      <4> SUFFICES ASSUME step'[c] = "truncate" PROVE Planned(c)'
        BY <3>5 DEF Planned
      <4>1. body # <<>> /\ text'[c] # <<>>
        BY <1>0, <3>2, <3>4 DEF Text
      <4>2. (Text(seen[c]))' = Text(body)
        BY <2>1 DEF Text
      <4> QED
        BY <2>1, <2>2, <3>1, <4>1, <4>2 DEF Planned
    <3> QED
      BY <3>3, <3>5, <3>6
  <2>3. ASSUME kind[c] # "done"
        PROVE  Typed' /\ step'[c] # "write" /\ Planned(c)'
    <3>1. kind[c] \in DOMAIN Plan
      BY <1>0, <2>3, KindsAssumption DEF Typed
    <3>2. Plan[kind[c]].absent = "truncate" /\ Plan[kind[c]].present \in {"append", "end", "failed"}
      BY <3>1 DEF Plan, AddTodo, AppendIdea, DailyNote, StatusNote,
                  MeetingNote, PromptLog, NewPrompt
    <3>3. /\ text' = [text EXCEPT ![c] = <<Header>>] /\ text'[c] = <<Header>>
          /\ step' = [step EXCEPT ![c] = IF body = Absent THEN Plan[kind[c]].absent
                                          ELSE Plan[kind[c]].present]
      BY <1>0, <1>1, <2>3 DEF Look, Typed
    <3>4. Typed'
      BY <1>0, <2>1, <3>2, <3>3, AuthorsOfLines DEF Typed
    <3>5. step'[c] # "write" /\ (step'[c] = "truncate" => body = Absent)
      BY <1>0, <3>2, <3>3 DEF Typed
    <3>6. Planned(c)'
      <4>1. Absent # <<>> /\ <<Header>> # <<>>
        <5>1. <<>> \in Seq(Lines)
          OBVIOUS
        <5>2. Len(<<Header>>) = 1 /\ Len(<<>>) = 0
          OBVIOUS
        <5> QED
          BY <5>1, <5>2, NotesAssumption
      <4>2. kind'[c] = kind[c] /\ text'[c] = <<Header>>
        BY <2>1, <3>3
      <4>3. step'[c] \in {"truncate", "write"} => seen'[c] = Absent
        BY <2>1, <3>5
      <4> QED
        BY <2>3, <4>1, <4>2, <4>3 DEF Planned
    <3> QED
      BY <3>4, <3>5, <3>6
  <2>4. Typed' /\ step'[c] # "write" /\ Planned(c)'
    BY <2>2, <2>3
  <2>5. \A d \in Commands : d # c => Planned(d)'
    BY <2>1, PlannedStays
  <2>6. (stale = {} /\ ~torn => Between \/ Rewriting \/ Crossed)'
    BY <2>1, <2>4, KeptStays DEF Writes
  <2> QED BY <2>4, <2>5, <2>6 DEF NInv
<1>2. ASSUME NEW c \in Commands, Truncate(c) PROVE NInv'
  <2>1. /\ step[c] = "truncate" /\ step'[c] = "write" /\ body' = <<>>
        /\ UNCHANGED <<kind, nth, seen, text, promised, torn>>
        /\ \A d \in Commands : d # c => step'[d] = step[d]
        /\ step' = [step EXCEPT ![c] = "write"]
    BY <1>0, <1>2 DEF Truncate, Typed
  <2>2. Typed'
    <3>1. <<>> \in Seq(Lines)
      OBVIOUS
    <3> QED
      BY <1>0, <2>1, <3>1 DEF Typed
  <2>3. \A d \in Commands : Planned(d)'
    BY <2>1, PlannedStays
  <2>4. ASSUME stale' = {}, ~torn' PROVE Rewriting' \/ Crossed'
    <3>1. body = seen[c] /\ stale = {} /\ ~torn
      BY <1>2, <2>1, <2>4 DEF Truncate
    <3>2. CASE Between
      <4>1. Alone(c)' /\ Writes(c)'
        BY <2>1, <3>2 DEF Between, Alone, Writes
      <4>2. HoldsIn(promised, Text(seen[c])) /\ (Text(seen[c]))' = Text(seen[c])
        BY <2>1, <3>1, <3>2 DEF Between, Text
      <4> QED
        BY <2>1, <4>1, <4>2 DEF Rewriting
    <3>3. CASE Rewriting \/ Crossed
      <4>1. PICK e \in Commands : Writes(e)
        BY <3>3 DEF Rewriting, Crossed
      <4>2. e # c /\ Writes(e)' /\ Writes(c)'
        BY <2>1, <4>1 DEF Writes
      <4> QED
        BY <4>2 DEF Crossed, Alone
    <3> QED
      BY <1>0, <3>1, <3>2, <3>3
  <2> QED BY <2>2, <2>3, <2>4 DEF NInv
<1>3. ASSUME NEW c \in Commands, Write(c) PROVE NInv'
  <2>1. /\ step[c] = "write" /\ step'[c] # "write" /\ body' = Written(c)
        /\ UNCHANGED <<kind, nth, seen, text, torn>>
        /\ \A d \in Commands : d # c => step'[d] = step[d]
        /\ step' \in [Commands -> {"look", "truncate", "write", "append", "end", "failed"}]
        /\ step'[c] \in {"append", "end"}
    BY <1>0, <1>3 DEF Write, Typed
  <2>2. /\ text[c] \in Seq(Lines) /\ text[c] # <<>> /\ Text(seen[c]) \in Seq(Lines)
        /\ kind[c] = "done" => text[c] = MarkDone(Text(seen[c]), nth[c])
        /\ kind[c] # "done" => seen[c] = Absent /\ text[c] = <<Header>>
    BY <1>0, <2>1 DEF Typed, Planned
  <2>3. Written(c) \in Seq(Lines) /\ (Text(body) = <<>> => Written(c) = text[c])
    <3>1. SubSeq(Text(body), Len(text[c]) + 1, Len(Text(body))) \in Seq(Lines)
      BY <1>0, <2>2, SubSeqProperties
    <3>2. Text(body) = <<>> =>
             SubSeq(Text(body), Len(text[c]) + 1, Len(Text(body))) = <<>>
      BY <2>2, SubSeqProperties
    <3> QED
      BY <2>2, <3>1, <3>2, ConcatProperties, ConcatEmptySeq DEF Written
  <2>4. Typed'
    BY <1>0, <2>1, <2>3 DEF Typed
  <2>5. \A d \in Commands : Planned(d)'
    BY <2>1, PlannedStays
  <2>6. ASSUME stale' = {}, ~torn' PROVE Between' \/ Crossed'
    <3>1. body = <<>> /\ stale = {} /\ ~torn
      BY <1>3, <2>1, <2>6 DEF Write
    <3>2. body' = text[c] /\ (Text(body))' = text[c]
      BY <2>1, <2>2, <2>3, <3>1, NotesAssumption DEF Text
    <3>3. CASE Rewriting
      <4>1. Alone(c) /\ HoldsIn(promised, Text(seen[c]))
        BY <2>1, <3>3 DEF Rewriting, Alone, Writes
      <4>2. \A d \in Commands : ~Writes(d)'
        BY <2>1, <4>1 DEF Alone, Writes
      <4>3. HoldsIn(promised', text[c])
        <5>1. CASE kind[c] = "done"
          <6>1. promised' = {line \in promised :
                               line.open => \A m \in MarkedLine(c) : m.by # line.by}
                            \cup MarkedLine(c)
            BY <1>3, <5>1 DEF Write
          <6> QED
            BY <2>2, <4>1, <5>1, <6>1, DoneHolds DEF MarkedLine
        <5>2. CASE kind[c] # "done"
          <6>1. promised' = promised /\ Text(seen[c]) = <<>>
            BY <1>3, <2>2, <5>2 DEF Write, Text
          <6>2. promised = {}
            BY <4>1, <6>1 DEF HoldsIn
          <6> QED
            BY <2>2, <5>2, <6>1, <6>2 DEF HoldsIn
        <5> QED
          BY <5>1, <5>2
      <4> QED
        BY <3>2, <4>2, <4>3 DEF Between
    <3>4. CASE Crossed
      <4>1. PICK d \in Commands : Writes(d) /\ d # c
        BY <2>1, <3>1, <3>4 DEF Crossed, Alone, Writes
      <4>2. Writes(d)' /\ body' # <<>>
        BY <2>1, <2>2, <3>2, <4>1 DEF Writes
      <4> QED
        BY <4>2 DEF Crossed
    <3> QED
      BY <1>0, <2>1, <3>1, <3>3, <3>4 DEF Between, Writes
  <2> QED BY <2>4, <2>5, <2>6 DEF NInv
<1>4. ASSUME NEW c \in Commands, AppendLine(c) PROVE NInv'
  <2>1. /\ step[c] = "append" /\ body' = Append(Text(body), Todo(c))
        /\ promised' = promised \cup {Todo(c)} /\ step'[c] = "end"
        /\ UNCHANGED <<kind, nth, seen, text, stale, torn>>
        /\ \A d \in Commands : d # c => step'[d] = step[d]
        /\ step' = [step EXCEPT ![c] = "end"]
    BY <1>0, <1>4 DEF AppendLine, Typed
  <2>2. /\ body' \in Seq(Lines)
        /\ (stale = {} /\ ~torn => Between \/ Rewriting \/ Crossed)'
    <3>1. \A d \in Commands : Writes(d)' <=> Writes(d)
      BY <2>1 DEF Writes
    <3>2. Todo(c) \in Lines /\ Todo(c) # Header
      BY AuthorsOfLines
    <3> QED
      BY <2>1, <3>1, <3>2, KeptGrows
  <2>3. Typed'
    BY <1>0, <2>1, <2>2 DEF Typed
  <2>4. \A d \in Commands : Planned(d)'
    BY <2>1, PlannedStays
  <2> QED BY <2>2, <2>3, <2>4 DEF NInv
<1>5. ASSUME NEW c \in Commands, Fail(c) PROVE NInv'
  <2>1. /\ UNCHANGED <<kind, nth, body, seen, text, promised, stale>>
        /\ step'[c] = "failed" /\ torn' = (torn \/ step[c] = "write")
        /\ \A d \in Commands : d # c => step'[d] = step[d]
        /\ step' = [step EXCEPT ![c] = "failed"]
    BY <1>0, <1>5 DEF Fail, Typed
  <2>2. Typed'
    BY <1>0, <2>1 DEF Typed
  <2>3. \A d \in Commands : Planned(d)'
    BY <2>1, PlannedStays
  <2>4. CASE step[c] = "write"
    BY <2>1, <2>2, <2>3, <2>4 DEF NInv
  <2>5. CASE step[c] # "write"
    <3>1. torn' <=> torn
      BY <2>1, <2>5
    <3>2. (stale = {} /\ ~torn => Between \/ Rewriting \/ Crossed)'
      BY <2>1, <2>5, <3>1, KeptStays DEF Writes
    <3> QED
      BY <2>2, <2>3, <3>2 DEF NInv
  <2> QED BY <2>4, <2>5
<1>6. CASE EditNote
  <2>1. /\ body # Absent /\ body' = Append(body, Note)
        /\ promised' = promised \cup {Note}
        /\ UNCHANGED <<kind, nth, step, seen, text, stale, torn>>
    BY <1>6 DEF EditNote
  <2>2. /\ body' \in Seq(Lines)
        /\ (stale = {} /\ ~torn => Between \/ Rewriting \/ Crossed)'
    <3>1. body' = Append(Text(body), Note)
      BY <2>1 DEF Text
    <3>2. \A d \in Commands : Writes(d)' <=> Writes(d)
      BY <2>1 DEF Writes
    <3> QED
      BY <2>1, <3>1, <3>2, AuthorsOfLines, KeptGrows
  <2>3. Typed'
    BY <1>0, <2>1, <2>2 DEF Typed
  <2>4. \A d \in Commands : Planned(d)'
    BY <2>1, PlannedStays
  <2> QED BY <2>2, <2>3, <2>4 DEF NInv
<1>7. CASE UNCHANGED noteVars
  <2>1. UNCHANGED <<kind, nth, step, body, seen, text, promised, stale, torn>>
    BY <1>7 DEF noteVars
  <2>2. Typed'
    BY <1>0, <2>1 DEF Typed
  <2>3. \A d \in Commands : Planned(d)'
    BY <2>1, PlannedStays
  <2>4. (stale = {} /\ ~torn => Between \/ Rewriting \/ Crossed)'
    BY <2>1, KeptStays DEF Writes
  <2> QED BY <2>2, <2>3, <2>4 DEF NInv
<1> QED
  BY <1>1, <1>2, <1>3, <1>4, <1>5, <1>6, <1>7 DEF NoteNext, CommandStep

(* Without a lock, what a command or the operator said is in the file is   *)
(* there whenever no one is writing, until one writes over what it has not *)
(* seen: for any number of commands, any file and any number of notes.     *)
THEOREM NotesStay == NoteSpec => []NotesAreKept
BY NotesStart, NotesStayKept, NInvSuffices, PTL DEF NoteSpec


-----------------------------------------------------------------------------
(* `gila cap config`, `gila code` and `gila hotseat`.  From the first time *)
(* a configuration truncates it, the manifest holds answers only, which    *)
(* name no venv (Configured); until then it is the operator's own.  So     *)
(* what was on the list when a session read it stays what it may mount,    *)
(* whichever venv the manifest gives for it later (Awaited).               *)
Answered ==
    [name : ToSet(Installed), expose : Exposures \cup {"cli"}, venv : {NoVenv}]
Entry == Answered \cup UNION {ToSet(m.entries) : m \in Handwritten \ {Torn}}

Configured(m) == m.venv = NoVenv /\ m.entries \in Seq(Answered)
May(name, v)  == [name |-> name, venv |-> v] \in optedIn
Offered(list) ==
    \A i \in DOMAIN list : IsAgent(list[i]) => May(list[i].name, Unnamed)

Stored ==
    /\ Offered(Loaded.entries)
    /\ \/ Configured(Loaded)
       \/ Loaded \in Handwritten \ {Torn} /\ Allows(Loaded) \subseteq optedIn
    /\ \A s \in Sessions : point[s] = "write" =>
          Configured(Loaded) /\ Offered(chosen[s])

Awaited(s) ==
    point[s] = "resolve" =>
        /\ use[s] = "code"
        /\ \A i \in DOMAIN unresolved[s] :
              LET name == unresolved[s][i].name
              IN  May(name, Unnamed) /\ May(name, VenvOf(Loaded, name))

(* The operator's servers, and then some of `extra`, under names that are  *)
(* theirs alone.                                                           *)
Mounts(list, extra) ==
    /\ list \in Seq(ToSet(OwnServers) \cup extra)
    /\ Len(list) >= Len(OwnServers)
    /\ \A i \in DOMAIN OwnServers : list[i] = OwnServers[i]
    /\ \A i \in Len(OwnServers) + 1 .. Len(list) :
          /\ list[i] \in extra
          /\ \A j \in DOMAIN list : list[i].name = list[j].name => i = j

Mounted(s) ==
    point[s] \in {"resolve", "tui", "plain"} =>
        IF use[s] = "hotseat" THEN floor[s] /\ Mounts(servers[s], {Modulex})
        ELSE Mounts(servers[s], optedIn)

CapTyped ==
    /\ point \in [Sessions -> {"start", "write", "end", "dead", "resolve", "plain",
                               "tui", "failed"}]
    /\ chosen \in [Sessions -> Seq(Answered)]
    /\ unresolved \in [Sessions -> Seq(Entry)]
    /\ DOMAIN servers = Sessions /\ DOMAIN floor = Sessions

CapInv ==
    CapTyped /\ Stored /\ \A s \in Sessions : Awaited(s) /\ Mounted(s)

(* An answer names no venv, and neither does a manifest of answers.        *)
LEMMA ConfiguredGivesUnnamed ==
    ASSUME NEW m, Configured(m), NEW name
    PROVE  VenvOf(m, name) = Unnamed
<1> DEFINE I == {i \in 1 .. Len(m.entries) : m.entries[i].name = name}
           first == SelectInSeq(m.entries, LAMBDA e : e.name = name)
<1>1. Len(m.entries) \in Nat /\ \A i \in 1 .. Len(m.entries) : m.entries[i].venv = NoVenv
  <2>1. \A i \in 1 .. Len(m.entries) : m.entries[i] \in Answered
    BY DEF Configured
  <2>2. \A e \in Answered : e.venv = NoVenv
    BY DEF Answered
  <2>3. Len(m.entries) \in Nat
    BY DEF Configured
  <2> HIDE DEF Answered
  <2> QED
    BY <2>1, <2>2, <2>3
<1>2. first = IF I # {} THEN Min(I) ELSE 0
  BY DEF SelectInSeq
<1>3. I # {} => Min(I) \in I
  <2> SUFFICES ASSUME I # {} PROVE Min(I) \in I
    OBVIOUS
  <2>1. I \subseteq Nat
    OBVIOUS
  <2> HIDE DEF I
  <2>2. \E x \in I : \A y \in I : ~ (<<y, x>> \in OpToRel(<, Nat))
    BY <2>1, NatLessThanWellFounded, WFMin
  <2>3. PICK x \in I : \A y \in I : ~ (<<y, x>> \in OpToRel(<, Nat))
    BY <2>2
  <2>4. \A y \in I : ~ (y < x)
    BY <2>1, <2>3 DEF OpToRel
  <2>5. \A y \in I : x <= y
    BY <2>1, <2>4
  <2> QED
    BY <2>5 DEF Min
<1>4. first # 0 => m.entries[first].venv = NoVenv
  BY <1>1, <1>2, <1>3
<1> HIDE DEF first, I
<1>5. (IF first = 0 THEN NoVenv ELSE m.entries[first].venv) = NoVenv
  BY <1>4
<1> QED
  BY <1>5 DEF VenvOf, Configured, first

(* The recursive function of AgentExposed is there, and keeps entries that *)
(* are exposed to the agent.                                               *)
LEMMA ExposedAre ==
    ASSUME NEW m, NEW S, m.entries \in Seq(S)
    PROVE  AgentExposed(m) \in Seq({m.entries[i] :
                  i \in {i \in DOMAIN m.entries : IsAgent(m.entries[i])}})
<1> DEFINE ss == m.entries
           N == Len(ss)
           K == {ss[i] : i \in {i \in DOMAIN ss : IsAgent(ss[i])}}
           Step(f, n) == IF n = 0 THEN <<>>
                         ELSE IF IsAgent(ss[n]) THEN Append(f[n - 1], ss[n])
                         ELSE f[n - 1]
           Good(n) == \E f \in [0 .. n -> Seq(K)] : \A i \in 0 .. n : f[i] = Step(f, i)
<1>1. N \in Nat /\ DOMAIN ss = 1 .. N
  OBVIOUS
<1>2. \A n \in 1 .. N : IsAgent(ss[n]) => ss[n] \in K
  BY <1>1
<1> HIDE DEF K
<1>3. ASSUME NEW f, NEW n \in 0 .. N, n # 0 => f[n - 1] \in Seq(K)
      PROVE  Step(f, n) \in Seq(K)
  BY <1>1, <1>2, <1>3
<1>4. Good(0)
  <2> DEFINE f == [i \in 0 .. 0 |-> <<>>]
  <2>1. f \in [0 .. 0 -> Seq(K)] /\ \A i \in 0 .. 0 : f[i] = Step(f, i)
    OBVIOUS
  <2> QED
    BY <2>1
<1>5. ASSUME NEW n \in 1 .. N, Good(n - 1)
      PROVE  Good(n)
  <2>1. PICK f \in [0 .. n - 1 -> Seq(K)] : \A i \in 0 .. n - 1 : f[i] = Step(f, i)
    BY <1>5
  <2>2. f[n - 1] \in Seq(K) /\ n \in 0 .. N
    BY <1>1
  <2>3. Step(f, n) \in Seq(K)
    <3> HIDE DEF Step
    <3> QED
      BY <1>3, <2>2
  <2> DEFINE g == [i \in 0 .. n |-> IF i < n THEN f[i] ELSE Step(f, n)]
  <2>4. g \in [0 .. n -> Seq(K)]
    <3> HIDE DEF Step
    <3> QED
      BY <1>1, <2>3
  <2>5. \A i \in 0 .. n : g[i] = Step(g, i)
    <3> SUFFICES ASSUME NEW i \in 0 .. n PROVE g[i] = Step(g, i)
      OBVIOUS
    <3>1. i # 0 => g[i - 1] = f[i - 1]
      BY <1>1
    <3>2. g[i] = Step(f, i)
      <4>1. CASE i < n
        <5>1. i \in 0 .. n - 1 /\ g[i] = f[i]
          BY <1>1, <4>1
        <5> HIDE DEF Step
        <5> QED
          BY <2>1, <5>1
      <4>2. CASE ~ (i < n)
        <5>1. i = n /\ g[i] = Step(f, n)
          BY <1>1, <4>2
        <5> HIDE DEF Step
        <5> QED
          BY <5>1
      <4> QED
        BY <4>1, <4>2
    <3> HIDE DEF g
    <3> QED
      BY <3>1, <3>2
  <2> HIDE DEF Step
  <2> QED
    BY <2>4, <2>5
<1>6. Good(N)
  <2> DEFINE T == {n \in Nat : n <= N => Good(n)}
  <2> HIDE DEF Good
  <2>1. 0 \in T
    BY <1>4
  <2>2. ASSUME NEW n \in Nat, n \in T PROVE n + 1 \in T
    <3> SUFFICES ASSUME n + 1 <= N PROVE Good(n + 1)
      OBVIOUS
    <3>1. Good(n) /\ n + 1 \in 1 .. N /\ (n + 1) - 1 = n
      BY <1>1, <2>2
    <3> QED
      BY <1>5, <3>1
  <2>3. Nat \subseteq T
    <3> HIDE DEF T
    <3> QED
      BY <2>1, <2>2, Climb
  <2> QED
    BY <1>1, <2>3
<1> DEFINE kept == CHOOSE f : f = [n \in 0 .. N |-> Step(f, n)]
<1>7. kept = [n \in 0 .. N |-> Step(kept, n)]
  <2>1. PICK f \in [0 .. N -> Seq(K)] : \A i \in 0 .. N : f[i] = Step(f, i)
    BY <1>6
  <2>2. f = [n \in 0 .. N |-> Step(f, n)]
    <3> HIDE DEF Step
    <3> QED
      BY <2>1
  <2> QED
    BY <2>2
<1>8. AgentExposed(m) = kept[N]
  BY DEF AgentExposed
<1> HIDE DEF kept, Step
<1>9. \A n \in 0 .. N : kept[n] = Step(kept, n)
  BY <1>7
<1> DEFINE T == {n \in Nat : n <= N => kept[n] \in Seq(K)}
<1>10. 0 \in T
  <2>1. Step(kept, 0) \in Seq(K)
    BY <1>1, <1>3
  <2> QED
    BY <1>1, <1>9, <2>1
<1>11. ASSUME NEW n \in Nat, n \in T PROVE n + 1 \in T
  <2> SUFFICES ASSUME n + 1 <= N PROVE kept[n + 1] \in Seq(K)
    OBVIOUS
  <2>1. kept[n] \in Seq(K) /\ n + 1 \in 0 .. N /\ (n + 1) - 1 = n
    BY <1>1, <1>11
  <2>2. Step(kept, n + 1) \in Seq(K)
    BY <1>3, <2>1
  <2> QED
    BY <1>9, <2>1, <2>2
<1>12. Nat \subseteq T
  <2> HIDE DEF T
  <2> QED
    BY <1>10, <1>11, Climb
<1> QED
  BY <1>1, <1>8, <1>12 DEF K

(* What a manifest allows, of an entry exposed to the agent.               *)
LEMMA AllowsExposed ==
    ASSUME NEW m, NEW i \in DOMAIN m.entries, IsAgent(m.entries[i])
    PROVE  LET name == m.entries[i].name
           IN  /\ [name |-> name, venv |-> Unnamed] \in Allows(m)
               /\ [name |-> name, venv |-> VenvOf(m, name)] \in Allows(m)
BY DEF Allows

(* Mount adds at most the server, at the end and under a new name.         *)
LEMMA MountFits ==
    ASSUME NEW list, NEW extra, Mounts(list, extra), NEW server \in extra
    PROVE  Mounts(Mount(list, server), extra)
<1>1. CASE \E i \in DOMAIN list : list[i].name = server.name
  BY <1>1 DEF Mount
<1>2. CASE ~ \E i \in DOMAIN list : list[i].name = server.name
  <2> DEFINE more == Append(list, server)
  <2>1. list \in Seq(ToSet(OwnServers) \cup extra) /\ Len(list) \in Nat
    BY DEF Mounts
  <2>2. Len(OwnServers) \in Nat /\ DOMAIN OwnServers = 1 .. Len(OwnServers)
    BY ListsAssumption
  <2>3. /\ more \in Seq(ToSet(OwnServers) \cup extra)
        /\ Len(more) = Len(list) + 1 /\ DOMAIN more = 1 .. Len(list) + 1
        /\ DOMAIN list = 1 .. Len(list)
        /\ \A i \in 1 .. Len(list) : more[i] = list[i]
        /\ more[Len(list) + 1] = server
    BY <2>1
  <2>4. Mount(list, server) = more
    BY <1>2 DEF Mount
  <2> HIDE DEF more
  <2>5. \A i \in DOMAIN more :
           \/ i \in DOMAIN list /\ more[i] = list[i]
           \/ i = Len(list) + 1 /\ more[i] = server /\ i \notin DOMAIN list
    <3> SUFFICES ASSUME NEW i \in DOMAIN more, i \notin DOMAIN list
                 PROVE  i = Len(list) + 1
      BY <2>1, <2>3
    <3> QED
      BY <2>1, <2>3
  <2>6. ASSUME NEW i \in Len(OwnServers) + 1 .. Len(more)
        PROVE  /\ more[i] \in extra
               /\ \A j \in DOMAIN more : more[i].name = more[j].name => i = j
    <3>1. i \in DOMAIN more
      BY <2>1, <2>2, <2>3
    <3>2. i \in DOMAIN list => i \in Len(OwnServers) + 1 .. Len(list)
      BY <2>1, <2>2, <2>3
    <3> QED
      BY <1>2, <2>5, <3>1, <3>2 DEF Mounts
  <2>7. Len(more) >= Len(OwnServers) /\ \A i \in DOMAIN OwnServers : more[i] = OwnServers[i]
    <3>1. \A i \in DOMAIN OwnServers : i \in 1 .. Len(list)
      BY <2>1, <2>2 DEF Mounts
    <3> QED
      BY <2>1, <2>2, <2>3, <3>1 DEF Mounts
  <2>8. Mounts(more, extra)
    BY <2>3, <2>6, <2>7 DEF Mounts
  <2> QED
    BY <2>4, <2>8
<1> QED
  BY <1>1, <1>2

LEMMA OwnServersFit ==
    ASSUME NEW extra
    PROVE  Mounts(OwnServers, extra)
<1>1. /\ OwnServers \in Seq(ToSet(OwnServers) \cup extra)
      /\ Len(OwnServers) \in Nat
  BY ListsAssumption
<1>2. \A i \in Len(OwnServers) + 1 .. Len(OwnServers) : FALSE
  BY <1>1
<1> QED
  BY <1>1, <1>2 DEF Mounts

LEMMA MoreFits ==
    ASSUME NEW list, NEW extra, NEW more, extra \subseteq more, Mounts(list, extra)
    PROVE  Mounts(list, more)
<1>1. list \in Seq(ToSet(OwnServers) \cup more)
  BY DEF Mounts
<1> QED
  BY <1>1 DEF Mounts

(* What the steps of the others leave a session.                           *)
LEMMA AwaitedStays ==
    ASSUME NEW s \in Sessions, Awaited(s), optedIn \subseteq optedIn',
           Loaded' = Loaded \/ Configured(Loaded'),
           point'[s] = point[s], use'[s] = use[s], unresolved'[s] = unresolved[s]
    PROVE  Awaited(s)'
<1> SUFFICES ASSUME point[s] = "resolve", NEW i \in DOMAIN unresolved[s],
                    NEW name, name = unresolved[s][i].name
             PROVE  /\ [name |-> name, venv |-> Unnamed] \in optedIn'
                    /\ [name |-> name, venv |-> VenvOf(Loaded', name)] \in optedIn'
  BY DEF Awaited, May
<1>1. [name |-> name, venv |-> Unnamed] \in optedIn
  BY DEF Awaited, May
<1>2. [name |-> name, venv |-> VenvOf(Loaded, name)] \in optedIn
  BY DEF Awaited, May
<1>3. Configured(Loaded') => VenvOf(Loaded', name) = Unnamed
  BY ConfiguredGivesUnnamed
<1> QED
  BY <1>1, <1>2, <1>3

LEMMA MountedStays ==
    ASSUME NEW s \in Sessions, Mounted(s), optedIn \subseteq optedIn',
           point'[s] = point[s], use'[s] = use[s], servers'[s] = servers[s],
           floor'[s] = floor[s]
    PROVE  Mounted(s)'
<1>1. Mounts(servers[s], optedIn) => Mounts(servers[s], optedIn')
  BY MoreFits
<1>2. Mounts(servers[s], optedIn)' <=> Mounts(servers'[s], optedIn')
  BY DEF Mounts
<1>3. Mounts(servers[s], {Modulex})' <=> Mounts(servers'[s], {Modulex})
  BY DEF Mounts
<1> QED
  BY <1>1, <1>2, <1>3 DEF Mounted

LEMMA StoredStays ==
    ASSUME Stored, UNCHANGED <<manifest, chosen>>, optedIn \subseteq optedIn',
           \A s \in Sessions : point'[s] = "write" => point[s] = "write"
    PROVE  Stored'
<1>1. Loaded' = Loaded
  BY DEF Loaded
<1> QED
  BY <1>1 DEF Stored, Offered, May, Configured

(* A configuration leaves a manifest of answers.                           *)
LEMMA AnswersStay ==
    ASSUME Stored, UNCHANGED <<chosen, optedIn>>,
           \A s \in Sessions : point'[s] = "write" => point[s] = "write",
           Configured(Loaded'), Offered(Loaded'.entries)
    PROVE  Stored'
<1>1. Configured(Loaded)' /\ Offered(Loaded.entries)'
  BY DEF Configured, Offered, May
<1>2. \A s \in Sessions : point'[s] = "write" => Offered(chosen[s])'
  BY DEF Stored, Offered, May
<1> QED
  BY <1>1, <1>2 DEF Stored

LEMMA NothingIsOffered == Configured(Nothing) /\ Offered(Nothing.entries)
BY DEF Configured, Offered, Nothing

LEMMA CapStarts == ASSUME CapInit PROVE CapInv
<1>1. CapTyped
  BY DEF CapInit, CapTyped
<1>2. \A s \in Sessions : Awaited(s) /\ Mounted(s)
  BY DEF CapInit, Awaited, Mounted
<1>3. Stored
  <2>1. CASE manifest = Torn
    <3>1. Loaded = Nothing
      BY <2>1 DEF Loaded
    <3> QED
      BY <3>1, NothingIsOffered DEF Stored, CapInit
  <2>2. CASE manifest # Torn
    <3>1. Loaded \in Handwritten \ {Torn} /\ Allows(Loaded) = optedIn
      BY <2>2 DEF Loaded, CapInit
    <3>2. Offered(Loaded.entries)
      BY <3>1, AllowsExposed DEF Offered, May
    <3> QED
      BY <3>1, <3>2 DEF Stored, CapInit
  <2> QED
    BY <2>1, <2>2
<1> QED
  BY <1>1, <1>2, <1>3 DEF CapInv

LEMMA AnswerKeeps ==
    ASSUME CapInv, NEW s \in Sessions, Answer(s)
    PROVE  CapInv'
<1>1. CapTyped'
  <2>1. PICK e \in Exposures :
           chosen' = [chosen EXCEPT ![s] = Append(@,
             [name |-> Installed[Len(@) + 1], expose |-> e, venv |-> NoVenv])]
    BY DEF Answer
  <2> DEFINE a == [name |-> Installed[Len(chosen[s]) + 1], expose |-> e, venv |-> NoVenv]
  <2>2. chosen' = [chosen EXCEPT ![s] = Append(chosen[s], a)]
    BY <2>1
  <2>3. a \in Answered
    <3>1. chosen[s] \in Seq(Answered) /\ Len(chosen[s]) < Len(Installed)
      BY DEF CapInv, CapTyped, Answer
    <3>2. Len(chosen[s]) + 1 \in DOMAIN Installed
      <4>1. Len(chosen[s]) \in Nat
        BY <3>1
      <4>2. Len(Installed) \in Nat /\ DOMAIN Installed = 1 .. Len(Installed)
        BY ListsAssumption
      <4> QED
        BY <3>1, <4>1, <4>2
    <3> QED
      BY <3>2 DEF Answered, ToSet
  <2> HIDE DEF a
  <2>4. chosen' \in [Sessions -> Seq(Answered)]
    <3>1. chosen \in [Sessions -> Seq(Answered)]
      BY DEF CapInv, CapTyped
    <3> HIDE DEF Answered
    <3> QED
      BY <2>2, <2>3, <3>1
  <2> QED
    BY <2>4 DEF CapInv, CapTyped, Answer, Entry, Answered
<1>2. Loaded' = Loaded
  BY DEF Answer, Loaded
<1>3. Stored'
  <2>1. \A t \in Sessions : point[t] = "write" => chosen'[t] = chosen[t]
    BY DEF Answer, CapInv, CapTyped
  <2> QED
    BY <1>2, <2>1 DEF Answer, CapInv, Stored, Offered, May, Configured
<1>4. ASSUME NEW t \in Sessions PROVE Awaited(t)' /\ Mounted(t)'
  BY <1>2, AwaitedStays, MountedStays DEF Answer, CapInv
<1> QED
  BY <1>1, <1>3, <1>4 DEF CapInv

LEMMA TruncateKeeps ==
    ASSUME CapInv, NEW s \in Sessions, TruncateManifest(s)
    PROVE  CapInv'
<1> DEFINE m == [venv |-> NoVenv, entries |-> chosen[s]]
<1>1. CapTyped'
  BY DEF CapInv, CapTyped, TruncateManifest, Goto
<1>2. Loaded' = Nothing
  BY DEF TruncateManifest, Loaded
<1>3. optedIn \subseteq optedIn'
  BY DEF TruncateManifest
<1>4. Offered(chosen[s])'
  <2> SUFFICES ASSUME NEW i \in DOMAIN chosen[s], IsAgent(chosen[s][i])
               PROVE  [name |-> chosen[s][i].name, venv |-> Unnamed] \in optedIn'
    BY DEF Offered, May, TruncateManifest
  <2>1. [name |-> m.entries[i].name, venv |-> Unnamed] \in Allows(m)
    BY AllowsExposed
  <2> QED
    BY <2>1 DEF TruncateManifest
<1>5. Stored'
  <2>1. Configured(Loaded)' /\ Offered(Loaded.entries)'
    BY <1>2, NothingIsOffered DEF Configured, Offered, Nothing
  <2>2. ASSUME NEW t \in Sessions, point'[t] = "write" PROVE Offered(chosen[t])'
    <3>1. CASE t = s
      BY <1>4, <3>1
    <3>2. CASE t # s
      <4>1. point[t] = "write"
        BY <2>2, <3>2 DEF TruncateManifest, Goto, CapInv, CapTyped
      <4> QED
        BY <1>3, <4>1 DEF CapInv, Stored, Offered, May, TruncateManifest
    <3> QED
      BY <3>1, <3>2
  <2> QED
    BY <2>1, <2>2 DEF Stored
<1>6. ASSUME NEW t \in Sessions PROVE Awaited(t)' /\ Mounted(t)'
  <2>1. CASE t = s
    BY <2>1 DEF TruncateManifest, Goto, CapInv, CapTyped, Awaited, Mounted
  <2>2. CASE t # s
    <3>1. point'[t] = point[t]
      BY <2>2 DEF TruncateManifest, Goto, CapInv, CapTyped
    <3>2. Configured(Loaded')
      BY <1>2, NothingIsOffered
    <3> QED
      BY <1>3, <3>1, <3>2, AwaitedStays, MountedStays DEF TruncateManifest, CapInv
  <2> QED
    BY <2>1, <2>2
<1> QED
  BY <1>1, <1>5, <1>6 DEF CapInv

(* What a write leaves is nothing, or the entries it asked for, of which   *)
(* some may be cut and some of an older text follow.                       *)
LEMMA WrittenKeeps ==
    ASSUME CapInv, NEW s \in Sessions, point[s] = "write",
           NEW where \in {"end", "dead"}, Goto(s, where),
           UNCHANGED <<use, chosen, unresolved, servers, floor, optedIn>>,
           Configured(Loaded'), Offered(Loaded'.entries)
    PROVE  CapInv'
<1>1. CapTyped'
  BY DEF CapInv, CapTyped, Goto
<1>2. Stored'
  <2>1. \A t \in Sessions : point'[t] = "write" => point[t] = "write"
    BY DEF Goto, CapInv, CapTyped
  <2> QED
    BY <2>1, AnswersStay DEF CapInv
<1>3. ASSUME NEW t \in Sessions PROVE Awaited(t)' /\ Mounted(t)'
  <2>1. CASE t = s
    BY <2>1 DEF Goto, CapInv, CapTyped, Awaited, Mounted
  <2>2. CASE t # s
    <3>1. point'[t] = point[t]
      BY <2>2 DEF Goto, CapInv, CapTyped
    <3> QED
      BY <3>1, AwaitedStays, MountedStays DEF CapInv
  <2> QED
    BY <2>1, <2>2
<1> QED
  BY <1>1, <1>2, <1>3 DEF CapInv

LEMMA OverIsOffered ==
    ASSUME Configured(Loaded), Offered(Loaded.entries),
           NEW list \in Seq(Answered), Offered(list)
    PROVE  Configured(Over(list)) /\ Offered(Over(list).entries)
<1> DEFINE old  == Loaded.entries
           rest == SubSeq(old, Len(list) + 1, Len(old))
           all  == list \o rest
<1>1. old \in Seq(Answered) /\ Offered(old)
  BY DEF Configured
<1>2. Over(list) = [venv |-> NoVenv, entries |-> all]
  BY DEF Over
<1> HIDE DEF old, Answered
<1>3. Len(list) \in Nat /\ Len(old) \in Nat
  BY <1>1
<1>4. /\ rest \in Seq(Answered)
      /\ Len(rest) = IF Len(old) > Len(list) THEN Len(old) - Len(list) ELSE 0
      /\ \A i \in 1 .. Len(rest) : rest[i] = old[Len(list) + i]
  BY <1>1, <1>3
<1> HIDE DEF rest
<1>5. /\ all \in Seq(Answered)
      /\ Len(all) = Len(list) + Len(rest)
      /\ \A i \in 1 .. Len(list) : all[i] = list[i]
      /\ \A i \in Len(list) + 1 .. Len(list) + Len(rest) :
            all[i] = rest[i - Len(list)]
  BY <1>4
<1> HIDE DEF all
<1>6. ASSUME NEW i \in DOMAIN all
      PROVE  \/ i \in DOMAIN list /\ all[i] = list[i]
             \/ i \in DOMAIN old /\ all[i] = old[i]
  <2>1. i \in 1 .. Len(list) + Len(rest) /\ Len(rest) \in Nat
    BY <1>4, <1>5
  <2>2. CASE i <= Len(list)
    <3>1. i \in 1 .. Len(list)
      BY <1>3, <2>1, <2>2
    <3> QED
      BY <1>5, <3>1
  <2>3. CASE ~ (i <= Len(list))
    <3>1. /\ i \in Len(list) + 1 .. Len(list) + Len(rest)
          /\ i - Len(list) \in 1 .. Len(rest)
          /\ Len(list) + (i - Len(list)) = i
          /\ i \in 1 .. Len(old)
      BY <1>3, <1>4, <2>1, <2>3
    <3> QED
      BY <1>1, <1>4, <1>5, <3>1
  <2> QED
    BY <2>2, <2>3
<1>7. Offered(all)
  BY <1>1, <1>6 DEF Offered
<1> QED
  BY <1>2, <1>5, <1>7 DEF Configured

LEMMA WriteKeeps ==
    ASSUME CapInv, NEW s \in Sessions, WriteManifest(s)
    PROVE  CapInv'
<1>1. /\ chosen[s] \in Seq(Answered) /\ Offered(chosen[s])
      /\ Configured(Loaded) /\ Offered(Loaded.entries)
  BY DEF WriteManifest, CapInv, CapTyped, Stored
<1>2. Configured(Over(chosen[s])) /\ Offered(Over(chosen[s]).entries)
  BY <1>1, OverIsOffered
<1>3. Configured(Loaded') /\ Offered(Loaded'.entries)
  <2>1. CASE manifest' = Torn
    BY <2>1, NothingIsOffered DEF Loaded
  <2>2. CASE manifest' # Torn
    <3>1. Loaded' = Over(chosen[s])
      BY <2>2 DEF Loaded, WriteManifest
    <3> QED
      BY <1>2, <3>1 DEF Configured
  <2> QED
    BY <2>1, <2>2
<1> QED
  BY <1>3, WrittenKeeps DEF WriteManifest

(* The start of a list offers no more than the list, nor does the start    *)
(* whose last entry lost its exposure.                                     *)
LEMMA StartIsOffered ==
    ASSUME NEW list \in Seq(Answered), Offered(list), NEW n \in 0 .. Len(list)
    PROVE  LET first == SubSeq(list, 1, n)
               left  == [first EXCEPT ![n].expose = Unsaid]
           IN  /\ first \in Seq(Answered) /\ Offered(first)
               /\ n > 0 => left \in Seq(Answered) /\ Offered(left)
<1> DEFINE first == SubSeq(list, 1, n)
           last  == [first[n] EXCEPT !.expose = Unsaid]
           left  == [first EXCEPT ![n].expose = Unsaid]
<1>1. /\ first \in Seq(Answered) /\ Len(first) = n /\ DOMAIN first = 1 .. n
      /\ \A i \in 1 .. n : first[i] = list[i] /\ i \in DOMAIN list
  <2> HIDE DEF Answered
  <2>1. Len(list) \in Nat
    OBVIOUS
  <2> QED
    BY <2>1
<1>2. Offered(first)
  <2> HIDE DEF first
  <2> QED
    BY <1>1 DEF Offered
<1>3. ASSUME n > 0 PROVE left \in Seq(Answered) /\ Offered(left)
  <2>1. last \in Answered /\ ~ IsAgent(last)
    <3>1. first[n] \in Answered
      <4> HIDE DEF first, Answered
      <4> QED
        BY <1>1, <1>3
    <3> HIDE DEF first
    <3> QED
      BY <3>1 DEF Answered, Unsaid, IsAgent
  <2>2. left = [first EXCEPT ![n] = last]
    OBVIOUS
  <2> HIDE DEF first, last
  <2>3. /\ left \in Seq(Answered) /\ DOMAIN left = 1 .. n
        /\ \A i \in 1 .. n : left[i] = IF i = n THEN last ELSE first[i]
    <3> HIDE DEF left, Answered
    <3>1. n \in 1 .. n
      BY <1>3
    <3> QED
      BY <1>1, <2>1, <2>2, <3>1
  <2> HIDE DEF left
  <2> QED
    BY <1>1, <2>1, <2>3 DEF Offered
<1> QED
  BY <1>1, <1>2, <1>3

LEMMA DieKeeps ==
    ASSUME CapInv, NEW s \in Sessions, DieWriting(s)
    PROVE  CapInv'
<1>1. /\ chosen[s] \in Seq(Answered) /\ Offered(chosen[s])
      /\ Configured(Loaded) /\ Offered(Loaded.entries)
  BY DEF DieWriting, CapInv, CapTyped, Stored
<1>2. \/ manifest' = Torn
      \/ \E list \in Seq(Answered) : Offered(list) /\ manifest' = Over(list)
  <2>1. CASE \E n \in 0 .. Len(chosen[s]) : manifest' = Over(SubSeq(chosen[s], 1, n))
    BY <1>1, <2>1, StartIsOffered
  <2>2. CASE \E n \in 1 .. Len(chosen[s]) :
                manifest' = Over([SubSeq(chosen[s], 1, n) EXCEPT ![n].expose = Unsaid])
    <3>1. PICK n \in 1 .. Len(chosen[s]) :
             manifest' = Over([SubSeq(chosen[s], 1, n) EXCEPT ![n].expose = Unsaid])
      BY <2>2
    <3>2. n \in 0 .. Len(chosen[s]) /\ n > 0
      OBVIOUS
    <3> HIDE DEF Answered
    <3> QED
      BY <1>1, <3>1, <3>2, StartIsOffered
  <2> QED
    BY <2>1, <2>2 DEF DieWriting
<1>3. Configured(Loaded') /\ Offered(Loaded'.entries)
  <2>1. CASE manifest' = Torn
    BY <2>1, NothingIsOffered DEF Loaded
  <2>2. CASE manifest' # Torn
    <3>1. PICK list \in Seq(Answered) : Offered(list) /\ manifest' = Over(list)
      BY <1>2, <2>2
    <3>2. Loaded' = Over(list)
      BY <2>2, <3>1 DEF Loaded
    <3> QED
      BY <1>1, <3>1, <3>2, OverIsOffered DEF Configured
  <2> QED
    BY <2>1, <2>2
<1> QED
  BY <1>3, WrittenKeeps DEF DieWriting

(* What a manifest exposes to the agent may be mounted.                    *)
LEMMA ExposedMayBeMounted ==
    ASSUME CapInv
    PROVE  LET list == AgentExposed(Loaded)
           IN  /\ list \in Seq(Entry)
               /\ \A i \in DOMAIN list :
                     /\ May(list[i].name, Unnamed)
                     /\ May(list[i].name, VenvOf(Loaded, list[i].name))
<1> DEFINE m == Loaded
           K == {m.entries[i] : i \in {i \in DOMAIN m.entries : IsAgent(m.entries[i])}}
           list == AgentExposed(m)
<1>1. m.entries \in Seq(Entry)
  <2>1. CASE Configured(m)
    BY <2>1 DEF Configured, Entry
  <2>2. CASE m \in Handwritten \ {Torn}
    <3>1. m.entries \in Seq(ToSet(m.entries))
      BY <2>2, ListsAssumption
    <3>2. ToSet(m.entries) \subseteq Entry
      BY <2>2 DEF Entry
    <3> HIDE DEF m, Entry
    <3> QED
      BY <3>1, <3>2
  <2> QED
    BY <2>1, <2>2 DEF CapInv, Stored
<1>2. K \subseteq Entry
  <2> HIDE DEF Entry, m
  <2> QED
    BY <1>1
<1>3. list \in Seq(K)
  BY <1>1, ExposedAre
<1>4. \A e \in K : May(e.name, Unnamed) /\ May(e.name, VenvOf(m, e.name))
  <2> SUFFICES ASSUME NEW i \in DOMAIN m.entries, IsAgent(m.entries[i]),
                      NEW name, name = m.entries[i].name
               PROVE  May(name, Unnamed) /\ May(name, VenvOf(m, name))
    OBVIOUS
  <2>1. CASE Configured(m)
    <3>1. May(name, Unnamed)
      BY DEF CapInv, Stored, Offered
    <3>2. VenvOf(m, name) = Unnamed
      BY <2>1, ConfiguredGivesUnnamed
    <3> QED
      BY <3>1, <3>2
  <2>2. CASE Allows(m) \subseteq optedIn
    BY <2>2, AllowsExposed DEF May
  <2> QED
    BY <2>1, <2>2 DEF CapInv, Stored
<1> HIDE DEF K, list, m
<1>5. list \in Seq(Entry) /\ \A i \in DOMAIN list : list[i] \in K
  BY <1>2, <1>3
<1> QED
  BY <1>4, <1>5 DEF list, m

LEMMA ListKeeps ==
    ASSUME CapInv, NEW s \in Sessions, ListExposed(s)
    PROVE  CapInv'
<1> DEFINE list == AgentExposed(Loaded)
<1>1. list \in Seq(Entry) /\ Loaded' = Loaded
  BY ExposedMayBeMounted DEF ListExposed, Loaded
<1> HIDE DEF list
<1>2. /\ unresolved' = [unresolved EXCEPT ![s] = list]
      /\ point' = [point EXCEPT ![s] = IF list = <<>> THEN "plain" ELSE "resolve"]
      /\ servers' = [servers EXCEPT ![s] = OwnServers]
      /\ use[s] = "code" /\ UNCHANGED <<use, manifest, chosen, floor, optedIn>>
  BY DEF ListExposed, Goto, list
<1>3. CapTyped'
  <2>1. unresolved' \in [Sessions -> Seq(Entry)]
    <3>1. unresolved \in [Sessions -> Seq(Entry)]
      BY DEF CapInv, CapTyped
    <3> HIDE DEF Entry
    <3> QED
      BY <1>1, <1>2, <3>1
  <2> QED
    BY <1>2, <2>1 DEF CapInv, CapTyped, Entry, Answered
<1>4. Stored'
  <2>1. \A t \in Sessions : point'[t] = "write" => point[t] = "write"
    BY <1>2 DEF CapInv, CapTyped
  <2> QED
    BY <1>2, <2>1, StoredStays DEF CapInv
<1>5. Awaited(s)'
  <2>1. /\ unresolved'[s] = list /\ use'[s] = "code"
        /\ optedIn' = optedIn /\ Loaded' = Loaded
    BY <1>1, <1>2 DEF CapInv, CapTyped
  <2>2. \A i \in DOMAIN list :
           /\ May(list[i].name, Unnamed)
           /\ May(list[i].name, VenvOf(Loaded, list[i].name))
    BY ExposedMayBeMounted DEF list
  <2> QED
    BY <2>1, <2>2 DEF Awaited, May
<1>6. Mounted(s)'
  <2>1. servers'[s] = OwnServers /\ use'[s] = "code"
    BY <1>2 DEF CapInv, CapTyped
  <2>2. Mounts(OwnServers, optedIn')
    BY OwnServersFit
  <2>3. Mounts(servers[s], optedIn)' <=> Mounts(servers'[s], optedIn')
    BY DEF Mounts
  <2> QED
    BY <2>1, <2>2, <2>3 DEF Mounted
<1>7. ASSUME NEW t \in Sessions, t # s PROVE Awaited(t)' /\ Mounted(t)'
  BY <1>1, <1>2, <1>7, AwaitedStays, MountedStays DEF CapInv, CapTyped
<1> QED
  BY <1>3, <1>4, <1>5, <1>6, <1>7 DEF CapInv

LEMMA ResolveKeeps ==
    ASSUME CapInv, NEW s \in Sessions, ResolveVenv(s)
    PROVE  CapInv'
<1> DEFINE list   == unresolved[s]
           name   == Head(list).name
           server == [name |-> name, venv |-> VenvOf(Loaded, name)]
<1>1. list \in Seq(Entry) /\ list # <<>>
  BY DEF ResolveVenv, CapInv, CapTyped
<1>2. /\ Tail(list) \in Seq(Entry) /\ Head(list) = list[1] /\ 1 \in DOMAIN list
      /\ \A i \in DOMAIN Tail(list) : i + 1 \in DOMAIN list /\ Tail(list)[i] = list[i + 1]
  <2> HIDE DEF list, Entry
  <2> QED
    BY <1>1
<1>3. /\ unresolved' = [unresolved EXCEPT ![s] = Tail(list)]
      /\ servers' = [servers EXCEPT ![s] = Mount(servers[s], server)]
      /\ UNCHANGED <<use, point, manifest, chosen, floor, optedIn>>
      /\ point[s] = "resolve"
  BY DEF ResolveVenv
<1>4. Loaded' = Loaded
  BY <1>3 DEF Loaded
<1>5. use[s] = "code" /\ \A i \in DOMAIN list :
           May(list[i].name, Unnamed) /\ May(list[i].name, VenvOf(Loaded, list[i].name))
  BY <1>3 DEF CapInv, Awaited
<1> HIDE DEF list, name, server
<1>6. CapTyped'
  <2>1. unresolved' \in [Sessions -> Seq(Entry)]
    <3>1. unresolved \in [Sessions -> Seq(Entry)]
      BY DEF CapInv, CapTyped
    <3> HIDE DEF Entry
    <3> QED
      BY <1>2, <1>3, <3>1
  <2> QED
    BY <1>3, <2>1 DEF CapInv, CapTyped, Entry, Answered
<1>7. Stored'
  BY <1>3, StoredStays DEF CapInv
<1>8. Awaited(s)'
  <2>1. /\ unresolved'[s] = Tail(list) /\ use'[s] = "code"
        /\ optedIn' = optedIn /\ Loaded' = Loaded
    BY <1>3, <1>4, <1>5 DEF CapInv, CapTyped
  <2>2. \A i \in DOMAIN Tail(list) :
           /\ May(Tail(list)[i].name, Unnamed)
           /\ May(Tail(list)[i].name, VenvOf(Loaded, Tail(list)[i].name))
    BY <1>2, <1>5
  <2> QED
    BY <2>1, <2>2 DEF Awaited, May
<1>9. Mounted(s)'
  <2>1. Mounts(servers[s], optedIn)
    BY <1>3, <1>5 DEF CapInv, Mounted
  <2>2. server \in optedIn
    BY <1>2, <1>5 DEF server, name, May
  <2>3. servers'[s] = Mount(servers[s], server) /\ use'[s] = "code" /\ optedIn' = optedIn
    BY <1>3, <1>5 DEF CapInv, CapTyped
  <2>4. Mounts(servers'[s], optedIn')
    BY <2>1, <2>2, <2>3, MountFits
  <2>5. Mounts(servers[s], optedIn)' <=> Mounts(servers'[s], optedIn')
    BY DEF Mounts
  <2> QED
    BY <2>3, <2>4, <2>5 DEF Mounted
<1>10. ASSUME NEW t \in Sessions, t # s PROVE Awaited(t)' /\ Mounted(t)'
  BY <1>3, <1>4, <1>10, AwaitedStays, MountedStays DEF CapInv, CapTyped
<1> QED
  BY <1>6, <1>7, <1>8, <1>9, <1>10 DEF CapInv

LEMMA HandOverKeeps ==
    ASSUME CapInv, NEW s \in Sessions, HandOver(s)
    PROVE  CapInv'
<1>1. /\ UNCHANGED <<use, manifest, chosen, unresolved, servers, floor, optedIn>>
      /\ point[s] = "resolve"
      /\ point' = [point EXCEPT ![s] = "tui"] \/ point' = [point EXCEPT ![s] = "failed"]
  BY DEF HandOver, Goto
<1>2. Loaded' = Loaded
  BY <1>1 DEF Loaded
<1>3. CapTyped'
  BY <1>1 DEF CapInv, CapTyped, Entry, Answered
<1>4. Stored'
  <2>1. \A t \in Sessions : point'[t] = "write" => point[t] = "write"
    BY <1>1 DEF CapInv, CapTyped
  <2> QED
    BY <1>1, <2>1, StoredStays DEF CapInv
<1>5. point'[s] \in {"tui", "failed"}
  BY <1>1 DEF CapInv, CapTyped
<1>6. Awaited(s)'
  BY <1>5 DEF Awaited
<1>7. Mounted(s)'
  <2>1. Mounted(s) /\ point[s] = "resolve"
    BY <1>1 DEF CapInv
  <2>2. Mounts(servers[s], optedIn)' <=> Mounts(servers[s], optedIn)
    BY <1>1 DEF Mounts
  <2>3. Mounts(servers[s], {Modulex})' <=> Mounts(servers[s], {Modulex})
    BY <1>1 DEF Mounts
  <2> QED
    BY <1>1, <2>1, <2>2, <2>3 DEF Mounted
<1>8. ASSUME NEW t \in Sessions, t # s PROVE Awaited(t)' /\ Mounted(t)'
  BY <1>1, <1>2, <1>8, AwaitedStays, MountedStays DEF CapInv, CapTyped
<1> QED
  BY <1>3, <1>4, <1>6, <1>7, <1>8 DEF CapInv

LEMMA HotseatKeeps ==
    ASSUME CapInv, NEW s \in Sessions, Hotseat(s)
    PROVE  CapInv'
<1>1. /\ UNCHANGED <<use, manifest, chosen, unresolved, optedIn>>
      /\ use[s] = "hotseat"
      /\ floor' = [floor EXCEPT ![s] = TRUE]
      /\ servers' = [servers EXCEPT ![s] = Mount(OwnServers, Modulex)]
      /\ point' = [point EXCEPT ![s] = "tui"] \/ point' = [point EXCEPT ![s] = "failed"]
  BY DEF Hotseat, Goto, Composed
<1>2. Loaded' = Loaded
  BY <1>1 DEF Loaded
<1>3. CapTyped'
  BY <1>1 DEF CapInv, CapTyped, Entry, Answered
<1>4. Stored'
  <2>1. \A t \in Sessions : point'[t] = "write" => point[t] = "write"
    BY <1>1 DEF CapInv, CapTyped
  <2> QED
    BY <1>1, <2>1, StoredStays DEF CapInv
<1>5. point'[s] \in {"tui", "failed"}
  BY <1>1 DEF CapInv, CapTyped
<1>6. Awaited(s)'
  BY <1>5 DEF Awaited
<1>7. Mounted(s)'
  <2>1. Mounts(Mount(OwnServers, Modulex), {Modulex})
    BY OwnServersFit, MountFits
  <2>2. /\ servers'[s] = Mount(OwnServers, Modulex) /\ floor'[s] = TRUE
        /\ use'[s] = "hotseat"
    BY <1>1 DEF CapInv, CapTyped
  <2>3. Mounts(servers[s], {Modulex})' <=> Mounts(servers'[s], {Modulex})
    BY DEF Mounts
  <2> QED
    BY <2>1, <2>2, <2>3 DEF Mounted
<1>8. ASSUME NEW t \in Sessions, t # s PROVE Awaited(t)' /\ Mounted(t)'
  BY <1>1, <1>2, <1>8, AwaitedStays, MountedStays DEF CapInv, CapTyped
<1> QED
  BY <1>3, <1>4, <1>6, <1>7, <1>8 DEF CapInv

LEMMA CapGoesOn == CapInv /\ [CapNext]_capVars => CapInv'
<1> SUFFICES ASSUME CapInv, [CapNext]_capVars PROVE CapInv'
  OBVIOUS
<1>1. ASSUME NEW s \in Sessions,
             \/ Answer(s) \/ TruncateManifest(s) \/ WriteManifest(s) \/ DieWriting(s)
             \/ ListExposed(s) \/ ResolveVenv(s) \/ HandOver(s) \/ Hotseat(s)
      PROVE  CapInv'
  BY <1>1, AnswerKeeps, TruncateKeeps, WriteKeeps, DieKeeps, ListKeeps,
     ResolveKeeps, HandOverKeeps, HotseatKeeps
<1>2. CASE UNCHANGED capVars
  <2>1. /\ use' = use /\ point' = point /\ manifest' = manifest /\ chosen' = chosen
        /\ unresolved' = unresolved /\ servers' = servers /\ floor' = floor
        /\ optedIn' = optedIn
    BY <1>2 DEF capVars
  <2>2. CapTyped'
    BY <2>1 DEF CapInv, CapTyped, Entry, Answered
  <2>3. Stored'
    BY <2>1 DEF CapInv, Stored, Configured, Offered, May, Loaded, Answered
  <2>4. ASSUME NEW s \in Sessions PROVE Awaited(s)'
    BY <2>1, <2>4 DEF CapInv, Awaited, May, Loaded
  <2>5. ASSUME NEW s \in Sessions PROVE Mounted(s)'
    BY <2>1, <2>5 DEF CapInv, Mounted, Mounts
  <2> QED
    BY <2>2, <2>3, <2>4, <2>5 DEF CapInv
<1> QED
  BY <1>1, <1>2 DEF CapNext

(* "Agent exposure is opt-in", for any capabilities, answers, manifests,   *)
(* servers of the operator's and number of processes that configure, start *)
(* sessions and die: what a session mounts beyond the operator's servers   *)
(* is what was opted in, each under a name of its own.                     *)
THEOREM MountsAreOptedIn == CapSpec => []MountedIsOptedIn
<1>1. CapInit => CapInv
  BY CapStarts
<1>2. CapInv /\ [CapNext]_capVars => CapInv'
  BY CapGoesOn
<1>3. CapInv => MountedIsOptedIn
  <2> SUFFICES ASSUME CapInv, NEW s \in Sessions, point[s] \in {"tui", "plain"},
                      NEW extra, Mounts(servers[s], extra),
                      use[s] = "hotseat" => floor[s] /\ extra = {Modulex},
                      use[s] # "hotseat" => extra = optedIn
               PROVE  /\ \A i \in DOMAIN OwnServers : servers[s][i] = OwnServers[i]
                      /\ \A i \in Len(OwnServers) + 1 .. Len(servers[s]),
                            j \in DOMAIN servers[s] :
                           servers[s][i].name = servers[s][j].name => i = j
                      /\ \A i \in Len(OwnServers) + 1 .. Len(servers[s]) :
                           IF use[s] = "hotseat"
                           THEN floor[s] /\ servers[s][i] = Modulex
                           ELSE servers[s][i] \in optedIn
    BY DEF CapInv, Mounted, MountedIsOptedIn
  <2> QED
    BY DEF Mounts
<1> QED
  BY <1>1, <1>2, <1>3, PTL DEF CapSpec
=============================================================================
