---------------------------- MODULE ScreenProofs ----------------------------
(***************************************************************************)
(* Proofs about what a key press and a resize of the screen come to.       *)
(*                                                                         *)
(* KeyDispatcher and KeyNames: for every set of keys, every configuration  *)
(* and every length of the repeat window.                                  *)
(*                                                                         *)
(* LayoutTree: for any number of panes, any nesting and any sizes.  What   *)
(* holds of all trees goes by TreeInduction, an inclusion of sets; what    *)
(* the recursive functions of the model return is shown from the function  *)
(* that satisfies their equation (WalkExists, RecursionExists).            *)
(***************************************************************************)
EXTENDS KeyDispatcher, KeyNames, LayoutTree,
        FiniteSetTheorems, SequenceTheorems, WellFoundedInduction, TLAPS

Outs == Actions \cup {"none", "pending", "forward", "swallow", "quit", "swap"}

LEMMA DefaultTableType ==
    ASSUME NEW p \in Combos
    PROVE  LET t == DefaultPrefixTable(p) IN
           /\ DOMAIN t \subseteq Combos
           /\ \A k \in DOMAIN t : t[k] \in Actions
           /\ p \in DOMAIN t /\ t[p] = "send-prefix"
BY DEF DefaultPrefixTable, Combos, Actions

LEMMA WithType ==
    ASSUME NEW f, DOMAIN f \subseteq Combos,
           \A k \in DOMAIN f : f[k] \in Actions,
           NEW x \in Combos, NEW v \in Actions
    PROVE  /\ DOMAIN With(f, x, v) \subseteq Combos
           /\ \A k \in DOMAIN With(f, x, v) : With(f, x, v)[k] \in Actions
BY DEF With

LEMMA WithoutType ==
    ASSUME NEW f, DOMAIN f \subseteq Combos,
           \A k \in DOMAIN f : f[k] \in Actions, NEW x
    PROVE  /\ DOMAIN Without(f, x) \subseteq Combos
           /\ \A k \in DOMAIN Without(f, x) : Without(f, x)[k] \in Actions
BY DEF Without

-----------------------------------------------------------------------------
(* The dispatcher's own state, apart from the tables it reads.             *)

TablesOK ==
    /\ DOMAIN root \subseteq Combos /\ DOMAIN prefixed \subseteq Combos
    /\ \A k \in DOMAIN root : root[k] \in Actions
    /\ \A k \in DOMAIN prefixed : prefixed[k] \in Actions
    /\ prefix \in Combos

DispatcherOK ==
    /\ current \in {"root", "prefix"}
    /\ left \in Closed .. RepeatTimeout
    /\ repeating \in BOOLEAN /\ (repeating => current = "prefix")
    /\ (left >= 0 => repeating)

KeyOK == key \in Keys \cup {"none"} /\ out \in Outs

LEMMA TypeParts == TypeOK <=> TablesOK /\ DispatcherOK /\ KeyOK
BY DEF TypeOK, TablesOK, DispatcherOK, KeyOK, Outs

LEMMA Join == ASSUME TablesOK', DispatcherOK', KeyOK' PROVE TypeOK'
BY DEF TypeOK, TablesOK, DispatcherOK, KeyOK, Outs

\* Arithmetic of the repeat window, on values rather than variables.
LEMMA Window ==
    /\ Closed \in Closed .. RepeatTimeout /\ ~(Closed >= 0)
    /\ RepeatTimeout \in Closed .. RepeatTimeout
    /\ \A n \in Closed .. RepeatTimeout :
          n >= 0 => n - 1 \in Closed .. RepeatTimeout /\ (n - 1 >= 0 => n >= 0)
BY KeysAssumption DEF Closed

LEMMA ResetType == ASSUME Reset PROVE DispatcherOK'
BY Window, Zenon DEF Reset, DispatcherOK

LEMMA OpenWindowType == ASSUME OpenWindow PROVE DispatcherOK'
BY Window, Zenon DEF OpenWindow, DispatcherOK

\* Whatever the key, on_key leaves the dispatcher in a legal state.
LEMMA OnKeyType ==
    ASSUME TypeOK, NEW k \in Combos, OnKey(k)
    PROVE  DispatcherOK' /\ out' \in Outs
<1>1. ASSUME RootKey(k) PROVE DispatcherOK' /\ out' \in Outs
  <2>1. CASE /\ current' = "prefix" /\ repeating' = FALSE /\ left' = Closed
             /\ Goes("pending")
    BY <2>1, Window, Zenon DEF DispatcherOK, Goes, Outs
  <2>2. CASE k \in DOMAIN root /\ Reset /\ Goes(root[k])
    BY <2>2, ResetType DEF Goes, TypeOK, Outs
  <2>3. CASE Reset /\ Goes("forward")
    BY <2>3, ResetType DEF Goes, Outs
  <2> QED BY <1>1, <2>1, <2>2, <2>3 DEF RootKey
<1>2. ASSUME RepeatKey(k) PROVE DispatcherOK' /\ out' \in Outs
  BY <1>1, <1>2, OpenWindowType DEF RepeatKey, Goes, TypeOK, Outs
<1>3. ASSUME PrefixKey(k) PROVE DispatcherOK' /\ out' \in Outs
  BY <1>3, ResetType, OpenWindowType DEF PrefixKey, Miss, Goes, TypeOK, Outs
<1>4. (current = "root" /\ RootKey(k)) \/ RepeatKey(k) \/ PrefixKey(k)
  BY DEF OnKey, TypeOK
<1> QED
  BY <1>1, <1>2, <1>3, <1>4

LEMMA PressType == ASSUME TypeOK, Press PROVE TypeOK'
<1>1. TablesOK'
  BY DEF Press, tables, TypeOK, TablesOK
<1>2. PICK k \in Keys : /\ key' = k
                        /\ IF Frontend = "cockpit" THEN CockpitKey(k)
                                                   ELSE CoworkKey(k)
  BY DEF Press
<1>3. CASE k \in Combos /\ OnKey(k)
  <2>1. DispatcherOK' /\ KeyOK'
    BY <1>2, <1>3, OnKeyType DEF KeyOK
  <2> QED BY <1>1, <2>1, Join
<1>4. CASE UNCHANGED Dispatcher /\ (Goes("quit") \/ Goes("swap") \/ Goes("forward"))
  <2>1. DispatcherOK'
    BY <1>4, TypeParts, Zenon DEF Dispatcher, DispatcherOK
  <2>2. KeyOK'
    BY <1>2, <1>4 DEF Goes, KeyOK, Outs
  <2> QED BY <1>1, <2>1, <2>2, Join
<1>5. CASE Reset /\ Goes("swallow")
  <2>1. DispatcherOK'
    BY <1>5, ResetType
  <2> QED
    BY <1>1, <1>2, <1>5, <2>1, Join DEF Goes, KeyOK, Outs
<1> QED
  BY <1>2, <1>3, <1>4, <1>5 DEF CockpitKey, CoworkKey

LEMMA WaitType == ASSUME TypeOK, Wait PROVE TypeOK'
<1>1. TablesOK' /\ KeyOK'
  BY TypeParts DEF Wait, Quiet, tables, TablesOK, KeyOK, Outs
<1>2. DispatcherOK'
  BY Window, Zenon DEF Wait, TypeOK, DispatcherOK
<1> QED BY <1>1, <1>2, Join

LEMMA ConfigureType == ASSUME TypeOK, Configure PROVE TypeOK'
<1>1. DispatcherOK' /\ KeyOK'
  BY TypeParts DEF Configure, Quiet, Dispatcher, DispatcherOK, KeyOK, Outs
<1>2. TablesOK'
  <2>1. CASE \E p \in ConfigKeys : SetPrefix(p) /\ UNCHANGED root
    <3>1. PICK p \in ConfigKeys : SetPrefix(p) /\ UNCHANGED root
      BY <2>1
    <3>2. p \in Combos /\ "send-prefix" \in Actions
      BY KeysAssumption DEF Actions
    <3>3. /\ DOMAIN Without(prefixed, prefix) \subseteq Combos
          /\ \A k \in DOMAIN Without(prefixed, prefix) :
                Without(prefixed, prefix)[k] \in Actions
      BY WithoutType DEF TypeOK
    <3>4. /\ DOMAIN prefixed' \subseteq Combos
          /\ \A k \in DOMAIN prefixed' : prefixed'[k] \in Actions
      BY <3>1, <3>2, <3>3, WithType DEF SetPrefix
    <3> QED BY <3>1, <3>2, <3>4 DEF SetPrefix, TypeOK, TablesOK
  <2>2. CASE \E k \in ConfigKeys \ {prefix}, a \in Actions : Bind(k, a)
    <3>1. PICK k \in ConfigKeys, a \in Actions : Bind(k, a)
      BY <2>2
    <3>2. k \in Combos
      BY KeysAssumption
    <3>3. CASE root' = With(root, k, a) /\ UNCHANGED <<prefixed, prefix>>
      BY <3>2, <3>3, WithType DEF TypeOK, TablesOK
    <3>4. CASE prefixed' = With(prefixed, k, a) /\ UNCHANGED <<root, prefix>>
      BY <3>2, <3>4, WithType DEF TypeOK, TablesOK
    <3> QED BY <3>1, <3>3, <3>4 DEF Bind
  <2>3. CASE \E k \in ConfigKeys \ {prefix} : Unbind(k)
    <3>1. PICK k \in ConfigKeys : Unbind(k)
      BY <2>3
    <3>2. CASE root' = Without(root, k) /\ UNCHANGED <<prefixed, prefix>>
      BY <3>2, WithoutType DEF TypeOK, TablesOK
    <3>3. CASE prefixed' = Without(prefixed, k) /\ UNCHANGED <<root, prefix>>
      BY <3>3, WithoutType DEF TypeOK, TablesOK
    <3> QED BY <3>1, <3>2, <3>3 DEF Unbind
  <2> QED BY <2>1, <2>2, <2>3 DEF Configure
<1> QED BY <1>1, <1>2, Join

-----------------------------------------------------------------------------
(* The theorems.                                                           *)

LEMMA InitType == ASSUME Init PROVE TypeOK
<1>1. prefixed = DefaultPrefixTable(DefaultPrefix) /\ DefaultPrefix \in Combos
  BY DEF Init, Combos
<1>2. TablesOK
  BY <1>1, DefaultTableType DEF Init, TablesOK
<1>3. DispatcherOK /\ KeyOK
  BY Window DEF Init, DispatcherOK, KeyOK, Outs
<1> QED BY <1>2, <1>3, TypeParts

\* The variables keep their shape, and a repeat window is open only while the
\* Prefix table is in force: every way through on_key, disarm and the
\* configuration leaves `current`, `repeating` and `repeat_deadline` agreed.
THEOREM TypeCorrect == Spec => []TypeOK
<1>1. ASSUME TypeOK, [Next]_vars PROVE TypeOK'
  <2>1. CASE Press BY <1>1, <2>1, PressType
  <2>2. CASE Wait BY <1>1, <2>2, WaitType
  <2>3. CASE Configure BY <1>1, <2>3, ConfigureType
  <2>4. CASE UNCHANGED vars BY <1>1, <2>4 DEF vars, TypeOK
  <2> QED BY <1>1, <2>1, <2>2, <2>3, <2>4 DEF Next
<1> QED BY InitType, <1>1, PTL DEF Spec

\* Pressing the prefix twice types it, however set_prefix, bind and unbind
\* were called before: the literal-prefix binding is always on the prefix.
THEOREM LiteralPrefixAlways == Spec => []LiteralPrefixReachable
<1>1. Init => LiteralPrefixReachable
  BY DefaultTableType DEF Init, LiteralPrefixReachable, Combos
<1>2. ASSUME LiteralPrefixReachable, [Next]_vars PROVE LiteralPrefixReachable'
  <2>1. CASE Press \/ Wait \/ UNCHANGED vars
    BY <1>2, <2>1 DEF Press, Wait, vars, tables, LiteralPrefixReachable
  <2>2. CASE \E p \in ConfigKeys : SetPrefix(p)
    BY <2>2 DEF SetPrefix, With, LiteralPrefixReachable
  <2>3. CASE \E k \in ConfigKeys \ {prefix}, a \in Actions : Bind(k, a)
    BY <1>2, <2>3 DEF Bind, With, LiteralPrefixReachable
  <2>4. CASE \E k \in ConfigKeys \ {prefix} : Unbind(k)
    BY <1>2, <2>4 DEF Unbind, Without, LiteralPrefixReachable
  <2> QED BY <1>2, <2>1, <2>2, <2>3, <2>4 DEF Next, Configure
<1> QED BY <1>1, <1>2, PTL DEF Spec

\* The cockpit never hands the key after a bare prefix to a pane, for any
\* bindings: the rule keys.rs calls the single most important one.  (The
\* cowork loop breaks it, for a key without a combination.)
THEOREM CockpitHoldsPostPrefixKey ==
    ASSUME Frontend = "cockpit"
    PROVE  Spec => PostPrefixKeyIsHeld
<1>1. ASSUME TypeOK, [Next]_vars
      PROVE  [Fresh => out' # "forward"]_vars
  <2> SUFFICES ASSUME Next, Fresh PROVE out' # "forward"
    BY <1>1
  <2>1. CASE Wait \/ Configure
    BY <2>1 DEF Wait, Configure, Quiet
  <2>2. CASE Press
    <3>1. PICK k \in Keys : CockpitKey(k)
      BY <2>2 DEF Press
    <3>2. Armed
      BY DEF Fresh, Armed
    <3>3. CASE OnKey(k)
      <4>1. PrefixKey(k)
        BY <3>3 DEF Fresh, OnKey
      <4>2. /\ \A a \in Actions : a # "forward"
            /\ k \in DOMAIN prefixed => prefixed[k] \in Actions
            /\ k \in DOMAIN root => root[k] \in Actions
        BY <1>1 DEF TypeOK, Actions
      <4> QED BY <4>1, <4>2 DEF PrefixKey, Miss, Goes
    <3>4. CASE k \in Wordless /\ Goes("swallow")
      BY <3>4 DEF Goes
    <3> QED BY <3>1, <3>2, <3>3, <3>4 DEF CockpitKey
  <2> QED BY <2>1, <2>2 DEF Next
<1> QED BY TypeCorrect, <1>1, PTL DEF Spec, PostPrefixKeyIsHeld

\* In the cockpit a sequence ends with its key: a later keystroke is not
\* taken for a command, unless the key was a move.
THEOREM CockpitSequenceEnds ==
    ASSUME Frontend = "cockpit"
    PROVE  Spec => SequenceEnds
<1> DEFINE Ends == current' = "root" \/ (repeating' /\ out' = "move")
<1>1. ASSUME TypeOK, [Next]_vars
      PROVE  [Fresh /\ key' # "none" => Ends]_vars
  <2> SUFFICES ASSUME Next, Fresh, key' # "none" PROVE Ends
    BY <1>1
  <2>1. ~Wait /\ ~Configure
    BY DEF Wait, Configure, Quiet
  <2>2. PICK k \in Keys : CockpitKey(k)
    BY <2>1 DEF Next, Press
  <2>3. CASE OnKey(k)
    <3>1. PrefixKey(k)
      BY <2>3 DEF Fresh, OnKey
    <3> QED BY <3>1 DEF PrefixKey, Miss, Reset, OpenWindow, Repeats, Goes
  <2>4. CASE Reset
    BY <2>4 DEF Reset
  <2> QED BY <2>2, <2>3, <2>4 DEF CockpitKey, Fresh, Armed
<1> QED BY TypeCorrect, <1>1, PTL DEF Spec, SequenceEnds

\* Behind either front end, a Ctrl+Q that does not quit puts the Root table
\* back in force, where the next one quits, unless the configuration gave
\* Ctrl+Q to a move or to the prefix.
THEOREM SecondQuitAlwaysLeaves == Spec => SecondQuitLeaves
<1> DEFINE Free == /\ key' = QuitKey /\ QuitKey # prefix
                   /\ (QuitKey \in DOMAIN prefixed => ~Repeats(prefixed[QuitKey]))
           QuitsNext == current' = "root" /\ (current = "root" => out' = "quit")
<1>1. ASSUME TypeOK, [Next]_vars
      PROVE  [Free => QuitsNext]_vars
  <2> SUFFICES ASSUME Next, Free PROVE QuitsNext
    BY <1>1
  <2>1. QuitKey \in Combos /\ QuitKey \notin Wordless /\ QuitKey # "none"
        /\ QuitKey # SwapKey
    BY KeysAssumption DEF Keys, Combos
  <2>2. Press /\ (CockpitKey(QuitKey) \/ CoworkKey(QuitKey))
    BY <2>1 DEF Next, Press, Wait, Configure, Quiet
  <2>3. CASE ~Armed
    <3>1. current = "root"
      BY <1>1, <2>3 DEF Armed, TypeOK
    <3> QED BY <2>1, <2>2, <2>3, <3>1 DEF CockpitKey, CoworkKey, Goes, Dispatcher
  <2>4. CASE Armed
    <3>1. OnKey(QuitKey)
      BY <2>1, <2>2, <2>4 DEF CockpitKey, CoworkKey
    <3>2. ASSUME RootKey(QuitKey) PROVE current' = "root"
      BY <3>2 DEF RootKey, Reset
    <3>3. CASE RepeatKey(QuitKey)
      BY <2>4, <3>2, <3>3 DEF RepeatKey, Armed
    <3>4. CASE PrefixKey(QuitKey)
      BY <2>4, <3>4 DEF PrefixKey, Miss, Reset, Armed
    <3> QED BY <1>1, <2>4, <3>1, <3>3, <3>4 DEF OnKey, Armed, TypeOK
  <2> QED BY <2>3, <2>4
<1> QED BY TypeCorrect, <1>1, PTL DEF Spec, SecondQuitLeaves

\* A closed repeat window is closed, though nothing but the next key looks at
\* it: only a Root binding makes that key a move.
THEOREM NoLateMove == Spec => NoMoveAfterTheWindow
<1> DEFINE Late == repeating /\ left < 0 /\ out' = "move"
<1>1. ASSUME TypeOK, [Next]_vars
      PROVE  [Late => key' \in DOMAIN root]_vars
  <2> SUFFICES ASSUME Next, Late PROVE key' \in DOMAIN root
    BY <1>1
  <2>1. ~Wait /\ ~Configure
    BY DEF Wait, Configure, Quiet
  <2>2. PICK k \in Keys : key' = k /\ (CockpitKey(k) \/ CoworkKey(k))
    BY <2>1 DEF Next, Press
  <2>3. OnKey(k)
    BY <2>2 DEF CockpitKey, CoworkKey, Goes
  <2>4. RepeatKey(k)
    BY <1>1, <2>3 DEF OnKey, TypeOK
  <2>5. ~(left >= 0)
    BY <1>1, KeysAssumption DEF TypeOK, Closed
  <2>6. RootKey(k)
    BY <2>4, <2>5 DEF RepeatKey
  <2> QED BY <2>2, <2>6 DEF RootKey, Goes
<1> QED BY TypeCorrect, <1>1, PTL DEF Spec, NoMoveAfterTheWindow
-----------------------------------------------------------------------------
(* The names of the keys: what a combination is told apart by is no more   *)
(* than what a key press sends.                                            *)

(* Folding the case twice is folding it once.                              *)
LEMMA CaseFolds ==
    ASSUME NEW c
    PROVE  /\ FoldCase(LowerCase(c)) = FoldCase(c)
           /\ LowerCase(c) \in Letters <=> c \in Letters
           /\ c \notin Letters => LowerCase(c) = c
<1>1. CASE \E l \in Lower : Upper[l] = c
  <2> DEFINE low == CHOOSE l \in Lower : Upper[l] = c
  <2>1. low \in Lower /\ Upper[low] = c /\ LowerCase(c) = low
    BY <1>1 DEF LowerCase
  <2> HIDE DEF low
  <2>2. c \notin Lower
    BY <2>1, CasesAssumption
  <2> QED
    BY <2>1, <2>2 DEF FoldCase, Letters
<1>2. CASE ~ \E l \in Lower : Upper[l] = c
  BY <1>2 DEF LowerCase
<1> QED
  BY <1>1, <1>2

(* Normalising a key does not change what it sends, and neither does shift. *)
LEMMA NormalizedSendsTheSame ==
    ASSUME NEW e \in Events
    PROVE  /\ Encode(Normalized(e)) = Encode(e)
           /\ PrefixBytes(Normalized(e)) \in {Encode(e), Nothing}
<1>1. CASE e.code \in Chars /\ "C" \in e.mods
  <2> DEFINE low == LowerCase(e.code)
  <2>1. /\ FoldCase(low) = FoldCase(e.code)
        /\ low \in Letters <=> e.code \in Letters
        /\ e.code \notin Letters => low = e.code
    BY CaseFolds
  <2>2. low \in Chars /\ (low \in Letters \cup Punctuation <=> e.code \in Letters \cup Punctuation)
    BY <1>1, <2>1 DEF Chars
  <2>3. Normalized(e) = [code |-> low, mods |-> e.mods \ {"S"}]
    BY <1>1 DEF Normalized
  <2> HIDE DEF low
  <2>4. Encode(Normalized(e)) = Encode(e)
    BY <1>1, <2>1, <2>2, <2>3 DEF Encode
  <2>5. PrefixBytes(Normalized(e)) = Encode([code |-> low, mods |-> e.mods \ {"S"}])
    <3>1. [Normalized(e) EXCEPT !.mods = @ \ {"S"}] = [code |-> low, mods |-> e.mods \ {"S"}]
      BY <2>3
    <3> QED
      BY <2>2, <2>3, <3>1 DEF PrefixBytes
  <2> QED
    BY <2>3, <2>4, <2>5
<1>2. CASE e.code \in Chars /\ "C" \notin e.mods
  <2>1. Normalized(e) = [code |-> e.code, mods |-> e.mods \ {"S"}]
    BY <1>2 DEF Normalized
  <2>2. Encode(Normalized(e)) = Encode(e)
    BY <1>2, <2>1 DEF Encode
  <2>3. [Normalized(e) EXCEPT !.mods = @ \ {"S"}] = Normalized(e)
    BY <2>1
  <2> QED
    BY <1>2, <2>1, <2>2, <2>3 DEF PrefixBytes
<1>3. CASE e.code \notin Chars
  <2>1. Normalized(e) = e
    BY <1>3 DEF Normalized
  <2> DEFINE shiftless == [e EXCEPT !.mods = @ \ {"S"}]
  <2>2. shiftless.code = e.code
    BY DEF Events
  <2> HIDE DEF shiftless
  <2>3. Encode(shiftless) = Encode(e)
    BY <1>3, <2>2 DEF Encode
  <2> QED
    BY <2>1, <2>3 DEF PrefixBytes, shiftless
<1> QED
  BY <1>1, <1>2, <1>3

(* For every alphabet and whichever way the prefix is named: the key that  *)
(* is the prefix, pressed twice in whichever case the terminal reports it, *)
(* reaches the pane of the cockpit as that key, and that of cowork as that *)
(* key or not at all (prefix_bytes, combo_to_crossterm).                   *)
THEOREM LiteralIsAlwaysTheKey == NamesSpec => []LiteralIsTheKey
<1> DEFINE Pressed ==
      event # NoKey =>
          /\ combo # NoKey /\ event \in Events /\ ToKeyCombo(event) = combo
          /\ literal = [cowork |-> PrefixBytes(combo), cockpit |-> ComboToCrossterm(combo)]
<1>1. NamesInit => Pressed
  BY DEF NamesInit
<1>2. Pressed /\ [NamesNext]_namesVars => Pressed'
  <2> SUFFICES ASSUME Pressed, [NamesNext]_namesVars PROVE Pressed'
    OBVIOUS
  <2>1. CASE SetPrefixFrom
    BY <2>1 DEF SetPrefixFrom
  <2>2. CASE PressTwice
    BY <2>2 DEF PressTwice
  <2>3. CASE UNCHANGED namesVars
    BY <2>3 DEF namesVars
  <2> QED
    BY <2>1, <2>2, <2>3 DEF NamesNext
<1>3. Pressed => LiteralIsTheKey
  <2> SUFFICES ASSUME Pressed, event # NoKey
               PROVE  /\ literal.cockpit = Encode(event)
                      /\ literal.cowork \in {Encode(event), Nothing}
    BY DEF LiteralIsTheKey
  <2>1. combo = Normalized(event)
    BY DEF ToKeyCombo
  <2> QED
    BY <2>1, NormalizedSendsTheSame DEF ComboToCrossterm
<1> QED
  BY <1>1, <1>2, <1>3, PTL DEF NamesSpec

-----------------------------------------------------------------------------
(* Cells.                                                                  *)

\* Induction over the naturals, as an inclusion of sets.
LEMMA Climb ==
    ASSUME NEW T, 0 \in T, \A n \in Nat : n \in T => n + 1 \in T
    PROVE  Nat \subseteq T
<1> SUFFICES ASSUME Nat \ T # {} PROVE FALSE
  OBVIOUS
<1>1. PICK m \in Nat \ T : \A k \in Nat \ T : ~ (<<k, m>> \in OpToRel(<, Nat))
  <2> DEFINE U == Nat \ T
  <2>1. U \subseteq Nat /\ U # {}
    OBVIOUS
  <2> HIDE DEF U
  <2>2. \E m \in U : \A k \in U : ~ (<<k, m>> \in OpToRel(<, Nat))
    BY <2>1, NatLessThanWellFounded, WFMin
  <2> QED
    BY <2>2 DEF U
<1>2. \A k \in Nat \ T : ~ (k < m)
  BY <1>1 DEF OpToRel
<1>3. m # 0 /\ m - 1 \in Nat
  OBVIOUS
<1>4. m - 1 \in T
  BY <1>2, <1>3
<1>5. (m - 1) + 1 \in T
  BY <1>3, <1>4
<1> QED
  BY <1>3, <1>5

\* The recursive function CellsTo is there.
LEMMA CellsToIs ==
    \A n \in Nat :
        CellsTo[n] = Leaves \cup (IF n = 0 THEN {} ELSE SplitsOver(CellsTo[n - 1]))
<1> DEFINE Above(S) == Leaves \cup SplitsOver(S)
           Rec(f) == [n \in Nat |->
                        Leaves \cup (IF n = 0 THEN {} ELSE SplitsOver(f[n - 1]))]
           Is(f, n) == f[0] = Leaves /\ \A i \in 1 .. n : f[i] = Above(f[i - 1])
           T == {n \in Nat : \E f : DOMAIN f = 0 .. n /\ Is(f, n)}
<1> HIDE DEF Above
<1>1. 0 \in T
  <2> DEFINE f == [i \in 0 .. 0 |-> Leaves]
  <2>1. DOMAIN f = 0 .. 0 /\ f[0] = Leaves /\ 1 .. 0 = {}
    OBVIOUS
  <2> HIDE DEF f
  <2> QED
    BY <2>1
<1>2. ASSUME NEW n \in Nat, n \in T PROVE n + 1 \in T
  <2>1. PICK f : DOMAIN f = 0 .. n /\ Is(f, n)
    BY <1>2
  <2> DEFINE g == [i \in 0 .. n + 1 |-> IF i <= n THEN f[i] ELSE Above(f[n])]
  <2>2. g[0] = Leaves
    BY <2>1
  <2>3. ASSUME NEW i \in 1 .. n + 1 PROVE g[i] = Above(g[i - 1])
    <3>1. g[i - 1] = f[i - 1]
      OBVIOUS
    <3>2. CASE i <= n
      BY <2>1, <3>1, <3>2
    <3>3. CASE i = n + 1
      BY <3>1, <3>3
    <3> QED
      BY <3>2, <3>3
  <2>4. DOMAIN g = 0 .. n + 1
    OBVIOUS
  <2> HIDE DEF g
  <2> QED
    BY <2>2, <2>3, <2>4
<1>3. Nat \subseteq T
  <2> HIDE DEF T
  <2> QED
    BY <1>1, <1>2, Climb
<1> DEFINE Some(n) == CHOOSE f : DOMAIN f = 0 .. n /\ Is(f, n)
           h == [n \in Nat |-> Some(n)[n]]
<1>4. ASSUME NEW n \in Nat PROVE DOMAIN Some(n) = 0 .. n /\ Is(Some(n), n)
  <2>1. \E f : DOMAIN f = 0 .. n /\ Is(f, n)
    BY <1>3
  <2> HIDE DEF Is
  <2> QED
    BY <2>1
<1> HIDE DEF Some
\* What the first ones are does not depend on how many there are.
<1>5. ASSUME NEW m \in Nat, NEW n \in Nat, m <= n PROVE Some(n)[m] = Some(m)[m]
  <2> DEFINE S == {k \in Nat : k <= m => Some(n)[k] = Some(m)[k]}
  <2>1. 0 \in S
    BY <1>4
  <2>2. ASSUME NEW k \in Nat, k \in S PROVE k + 1 \in S
    <3> SUFFICES ASSUME k + 1 <= m PROVE Some(n)[k + 1] = Some(m)[k + 1]
      OBVIOUS
    <3>1. Some(n)[k] = Some(m)[k]
      BY <2>2
    <3>2. k + 1 \in 1 .. n /\ k + 1 \in 1 .. m /\ (k + 1) - 1 = k
      BY <1>5
    <3>3. Some(n)[k + 1] = Above(Some(n)[k]) /\ Some(m)[k + 1] = Above(Some(m)[k])
      BY <1>4, <3>2
    <3> QED
      BY <3>1, <3>3
  <2>3. Nat \subseteq S
    <3> HIDE DEF S
    <3> QED
      BY <2>1, <2>2, Climb
  <2> QED
    BY <2>3
<1>6. h = Rec(h)
  <2> SUFFICES ASSUME NEW n \in Nat
               PROVE  Some(n)[n] =
                        Leaves \cup (IF n = 0 THEN {} ELSE SplitsOver(Some(n - 1)[n - 1]))
    OBVIOUS
  <2>1. CASE n = 0
    BY <1>4, <2>1
  <2>2. CASE n # 0
    <3>1. n - 1 \in Nat /\ n \in 1 .. n /\ n - 1 <= n
      BY <2>2
    <3>2. Some(n)[n] = Above(Some(n)[n - 1])
      BY <1>4, <3>1
    <3>3. Some(n)[n - 1] = Some(n - 1)[n - 1]
      BY <1>5, <3>1
    <3> QED
      BY <2>2, <3>2, <3>3 DEF Above
  <2> QED
    BY <2>1, <2>2
<1> HIDE DEF h
<1>7. CellsTo = CHOOSE f : f = Rec(f)
  BY DEF CellsTo
<1>8. CellsTo = Rec(CellsTo)
  <2> HIDE DEF Rec
  <2> QED
    BY <1>6, <1>7
<1> QED
  BY <1>8

AllCells == UNION {CellsTo[n] : n \in Nat}

\* A higher bound on the height admits more trees.
LEMMA CellsGrow ==
    ASSUME NEW m \in Nat, NEW n \in Nat, m <= n
    PROVE  CellsTo[m] \subseteq CellsTo[n]
<1> DEFINE T == {k \in Nat : CellsTo[k] \subseteq CellsTo[k + 1]}
<1>1. 0 \in T
  BY CellsToIs
<1>2. ASSUME NEW k \in Nat, k \in T PROVE k + 1 \in T
  <2>1. CellsTo[k] \subseteq CellsTo[k + 1]
    BY <1>2
  <2>2. SplitsOver(CellsTo[k]) \subseteq SplitsOver(CellsTo[k + 1])
    BY <2>1 DEF SplitsOver
  <2>3. /\ CellsTo[k + 1] = Leaves \cup SplitsOver(CellsTo[k])
        /\ CellsTo[(k + 1) + 1] = Leaves \cup SplitsOver(CellsTo[k + 1])
    <3>1. /\ k + 1 \in Nat /\ (k + 1) + 1 \in Nat /\ k + 1 # 0 /\ (k + 1) + 1 # 0
          /\ (k + 1) - 1 = k /\ ((k + 1) + 1) - 1 = k + 1
      OBVIOUS
    <3> QED
      BY <3>1, CellsToIs
  <2> QED
    BY <2>2, <2>3
<1>3. Nat \subseteq T
  <2> HIDE DEF T
  <2> QED
    BY <1>1, <1>2, Climb
<1> DEFINE S == {k \in Nat : CellsTo[m] \subseteq CellsTo[m + k]}
<1>4. 0 \in S
  OBVIOUS
<1>5. ASSUME NEW k \in Nat, k \in S PROVE k + 1 \in S
  <2>1. CellsTo[m + k] \subseteq CellsTo[(m + k) + 1]
    BY <1>3
  <2>2. (m + k) + 1 = m + (k + 1)
    OBVIOUS
  <2> QED
    BY <1>5, <2>1, <2>2
<1>6. Nat \subseteq S
  <2> HIDE DEF S
  <2> QED
    BY <1>4, <1>5, Climb
<1>7. n - m \in S /\ m + (n - m) = n
  BY <1>6
<1> QED
  BY <1>7

\* Finitely many cells are below one height.
LEMMA SomeHeight ==
    ASSUME NEW kids \in Seq(AllCells)
    PROVE  \E n \in Nat : kids \in Seq(CellsTo[n])
<1>1. Len(kids) \in Nat /\ DOMAIN kids = 1 .. Len(kids)
  OBVIOUS
<1> DEFINE Below(k, n) == \A i \in 1 .. k : kids[i] \in CellsTo[n]
           T == {k \in Nat : k <= Len(kids) => \E n \in Nat : Below(k, n)}
<1>2. 0 \in T
  <2>1. Below(0, 0)
    OBVIOUS
  <2> QED
    BY <2>1
<1>3. ASSUME NEW k \in Nat, k \in T PROVE k + 1 \in T
  <2> SUFFICES ASSUME k + 1 <= Len(kids) PROVE \E n \in Nat : Below(k + 1, n)
    OBVIOUS
  <2>1. PICK n \in Nat : Below(k, n)
    BY <1>1, <1>3
  <2>2. PICK m \in Nat : kids[k + 1] \in CellsTo[m]
    <3>1. kids[k + 1] \in AllCells
      BY <1>1
    <3> QED
      BY <3>1 DEF AllCells
  <2> DEFINE top == IF m <= n THEN n ELSE m
  <2>3. top \in Nat /\ m <= top /\ n <= top
    OBVIOUS
  <2> HIDE DEF top
  <2>4. CellsTo[n] \subseteq CellsTo[top] /\ CellsTo[m] \subseteq CellsTo[top]
    BY <2>3, CellsGrow
  <2>5. ASSUME NEW i \in 1 .. k + 1 PROVE kids[i] \in CellsTo[top]
    <3>1. i \in 1 .. k \/ i = k + 1
      OBVIOUS
    <3> QED
      BY <2>1, <2>2, <2>4, <3>1
  <2> QED
    BY <2>3, <2>5
<1>4. Nat \subseteq T
  <2> HIDE DEF T
  <2> QED
    BY <1>2, <1>3, Climb
<1>5. PICK n \in Nat : Below(Len(kids), n)
  <2> DEFINE size == Len(kids)
  <2>1. size \in Nat /\ size <= Len(kids)
    BY <1>1
  <2>2. size \in T
    <3> HIDE DEF T, size
    <3> QED
      BY <1>4, <2>1
  <2> HIDE DEF Below, size
  <2>3. \E n \in Nat : Below(size, n)
    BY <2>1, <2>2
  <2> QED
    BY <2>3 DEF size
<1>6. kids \in Seq(CellsTo[n])
  BY <1>1, <1>5
<1> QED
  BY <1>6

\* A cell is a leaf or a split over cells.
LEMMA AllCellsAre == AllCells = Leaves \cup SplitsOver(AllCells)
<1>1. ASSUME NEW c \in AllCells PROVE c \in Leaves \cup SplitsOver(AllCells)
  <2>1. PICK n \in Nat : c \in CellsTo[n]
    BY DEF AllCells
  <2>2. CASE n = 0
    BY <2>1, <2>2, CellsToIs
  <2>3. CASE n # 0
    <3>1. n - 1 \in Nat /\ c \in Leaves \cup SplitsOver(CellsTo[n - 1])
      BY <2>1, <2>3, CellsToIs
    <3>2. CellsTo[n - 1] \subseteq AllCells
      BY <3>1 DEF AllCells
    <3>3. SplitsOver(CellsTo[n - 1]) \subseteq SplitsOver(AllCells)
      BY <3>2 DEF SplitsOver
    <3> QED
      BY <3>1, <3>3
  <2> QED
    BY <2>2, <2>3
<1>2. Leaves \subseteq AllCells
  <2>1. Leaves \subseteq CellsTo[0] /\ 0 \in Nat
    BY CellsToIs
  <2> QED
    BY <2>1 DEF AllCells
<1>3. ASSUME NEW c \in SplitsOver(AllCells) PROVE c \in AllCells
  <2>1. c.kids \in Seq(AllCells)
    BY DEF SplitsOver
  <2>2. PICK n \in Nat : c.kids \in Seq(CellsTo[n])
    BY <2>1, SomeHeight
  <2>3. c \in SplitsOver(CellsTo[n])
    BY <2>2 DEF SplitsOver
  <2>4. c \in CellsTo[n + 1] /\ n + 1 \in Nat
    <3>1. n + 1 \in Nat /\ n + 1 # 0 /\ (n + 1) - 1 = n
      OBVIOUS
    <3>2. CellsTo[n + 1] = Leaves \cup SplitsOver(CellsTo[n])
      BY <3>1, CellsToIs
    <3> QED
      BY <2>3, <3>1, <3>2
  <2> QED
    BY <2>4 DEF AllCells
<1> QED
  BY <1>1, <1>2, <1>3

\* Induction over trees.
LEMMA TreeInduction ==
    ASSUME NEW T, Leaves \subseteq T,
           \A c \in SplitsOver(AllCells) :
                (\A i \in DOMAIN c.kids : c.kids[i] \in T) => c \in T
    PROVE  AllCells \subseteq T
<1> DEFINE S == {n \in Nat : CellsTo[n] \subseteq T}
<1>1. 0 \in S
  BY CellsToIs
<1>2. ASSUME NEW n \in Nat, n \in S PROVE n + 1 \in S
  <2>1. n + 1 \in Nat /\ n + 1 # 0 /\ (n + 1) - 1 = n
    OBVIOUS
  <2>2. CellsTo[n + 1] = Leaves \cup SplitsOver(CellsTo[n])
    BY <2>1, CellsToIs
  <2>3. ASSUME NEW c \in SplitsOver(CellsTo[n]) PROVE c \in T
    <3>1. c.kids \in Seq(CellsTo[n]) /\ CellsTo[n] \subseteq AllCells /\ CellsTo[n] \subseteq T
      BY <1>2 DEF SplitsOver, AllCells
    <3>2. c \in SplitsOver(AllCells)
      BY <3>1 DEF SplitsOver
    <3>3. \A i \in DOMAIN c.kids : c.kids[i] \in T
      BY <3>1
    <3> QED
      BY <3>2, <3>3
  <2> QED
    BY <2>1, <2>2, <2>3
<1>3. Nat \subseteq S
  <2> HIDE DEF S
  <2> QED
    BY <1>1, <1>2, Climb
<1> QED
  BY <1>3 DEF AllCells

\* What a walk over a tree makes of it, from what it makes of the children: base
\* for a leaf, comb for a split.
Walked(F, base, comb, c) ==
    IF IsLeaf(c) THEN base[c] ELSE comb[c, [i \in DOMAIN c.kids |-> F[c.kids[i]]]]

Walks(F, S, V, base, comb) ==
    F \in [S -> V] /\ \A c \in S : F[c] = Walked(F, base, comb, c)

\* A leaf is told from a split by its fields.
LEMMA LeafOrSplit ==
    /\ \A c \in Leaves : IsLeaf(c) /\ c.pane \in Nat /\ c.w \in Nat /\ c.h \in Nat
    /\ \A S : \A c \in SplitsOver(S) :
          /\ ~ IsLeaf(c) /\ c.axis \in Axes /\ c.kids \in Seq(S) /\ c.w \in Nat /\ c.h \in Nat
BY DEF Leaves, SplitsOver, IsLeaf

\* Such a walk is there for the trees of any height.
LEMMA WalkExists ==
    ASSUME NEW V, NEW base \in [Leaves -> V],
           NEW comb \in [SplitsOver(AllCells) \X Seq(V) -> V], NEW m \in Nat
    PROVE  \E F : Walks(F, CellsTo[m], V, base, comb)
<1> DEFINE Good(n) == \E F \in [CellsTo[n] -> V] :
                         \A c \in CellsTo[n] : F[c] = Walked(F, base, comb, c)
           T == {n \in Nat : Good(n)}
<1>1. 0 \in T
  <2>1. CellsTo[0] = Leaves
    BY CellsToIs
  <2>2. base \in [CellsTo[0] -> V] /\ \A c \in CellsTo[0] : base[c] = Walked(base, base, comb, c)
    BY <2>1, LeafOrSplit DEF Walked
  <2> QED
    BY <2>2
<1>2. ASSUME NEW n \in Nat, n \in T PROVE n + 1 \in T
  <2>1. PICK F \in [CellsTo[n] -> V] : \A c \in CellsTo[n] : F[c] = Walked(F, base, comb, c)
    BY <1>2
  <2>2. CellsTo[n + 1] = Leaves \cup SplitsOver(CellsTo[n]) /\ n + 1 \in Nat
    <3>1. n + 1 \in Nat /\ n + 1 # 0 /\ (n + 1) - 1 = n
      OBVIOUS
    <3> QED
      BY <3>1, CellsToIs
  <2>3. CellsTo[n] \subseteq CellsTo[n + 1] /\ CellsTo[n] \subseteq AllCells
    BY <2>2, CellsGrow DEF AllCells
  <2> DEFINE G == [c \in CellsTo[n + 1] |-> Walked(F, base, comb, c)]
  <2>4. ASSUME NEW c \in SplitsOver(CellsTo[n])
        PROVE  /\ \A i \in DOMAIN c.kids : c.kids[i] \in CellsTo[n]
               /\ c \in SplitsOver(AllCells)
               /\ [i \in DOMAIN c.kids |-> F[c.kids[i]]] \in Seq(V)
    <3>1. c.kids \in Seq(CellsTo[n])
      BY LeafOrSplit
    <3>2. \A i \in DOMAIN c.kids : c.kids[i] \in CellsTo[n]
      BY <3>1
    <3>3. c \in SplitsOver(AllCells)
      BY <2>3 DEF SplitsOver
    <3>4. [i \in 1 .. Len(c.kids) |-> F[c.kids[i]]] \in Seq(V)
      BY <3>1, <3>2
    <3> QED
      BY <3>1, <3>2, <3>3, <3>4
  <2>5. ASSUME NEW c \in CellsTo[n + 1] PROVE Walked(F, base, comb, c) \in V
    <3>1. CASE c \in Leaves
      BY <3>1, LeafOrSplit DEF Walked
    <3>2. CASE c \in SplitsOver(CellsTo[n])
      <4> DEFINE made == [i \in DOMAIN c.kids |-> F[c.kids[i]]]
      <4>1. ~ IsLeaf(c) /\ c \in SplitsOver(AllCells) /\ made \in Seq(V)
        BY <2>4, <3>2, LeafOrSplit
      <4>2. Walked(F, base, comb, c) = comb[c, made]
        BY <4>1 DEF Walked
      <4> HIDE DEF made
      <4> QED
        BY <4>1, <4>2
    <3> QED
      BY <2>2, <3>1, <3>2
  <2>6. G \in [CellsTo[n + 1] -> V]
    BY <2>5
  <2>7. \A c \in CellsTo[n] : G[c] = F[c]
    BY <2>1, <2>3
  <2>8. ASSUME NEW c \in CellsTo[n + 1] PROVE G[c] = Walked(G, base, comb, c)
    <3>1. G[c] = Walked(F, base, comb, c)
      OBVIOUS
    <3> HIDE DEF G
    <3>2. CASE c \in Leaves
      BY <3>1, <3>2, LeafOrSplit DEF Walked
    <3>3. CASE c \in SplitsOver(CellsTo[n])
      <4>1. \A i \in DOMAIN c.kids : F[c.kids[i]] = G[c.kids[i]]
        BY <2>4, <2>7, <3>3
      <4>2. [i \in DOMAIN c.kids |-> F[c.kids[i]]] = [i \in DOMAIN c.kids |-> G[c.kids[i]]]
        BY <4>1
      <4> QED
        BY <3>1, <4>2 DEF Walked
    <3> QED
      BY <2>2, <3>2, <3>3
  <2> HIDE DEF G
  <2> QED
    BY <2>2, <2>6, <2>8
<1>3. Nat \subseteq T
  <2> HIDE DEF T
  <2> QED
    BY <1>1, <1>2, Climb
<1> QED
  BY <1>3 DEF Walks

\* The cells the operators are defined on, and their children.
LEMMA CellsAre ==
    /\ Cells \subseteq AllCells /\ Leaves \subseteq Cells
    /\ \A c \in Cells : c \in Leaves \/ c \in SplitsOver(AllCells)
    /\ \A c \in Cells : ~ IsLeaf(c) =>
          /\ c.kids \in Seq(Cells) /\ \A i \in DOMAIN c.kids : c.kids[i] \in Cells
<1>1. MaxPanes \in Nat /\ MaxPanes # 0 /\ MaxPanes - 1 \in Nat
  BY BoundsAssumption
<1>2. Cells = Leaves \cup SplitsOver(CellsTo[MaxPanes - 1])
  BY <1>1, CellsToIs DEF Cells
<1>3. CellsTo[MaxPanes - 1] \subseteq Cells /\ CellsTo[MaxPanes - 1] \subseteq AllCells
  BY <1>1, CellsGrow DEF Cells, AllCells
<1>4. \A c \in SplitsOver(CellsTo[MaxPanes - 1]) :
         /\ c \in SplitsOver(AllCells)
         /\ c.kids \in Seq(Cells) /\ \A i \in DOMAIN c.kids : c.kids[i] \in Cells
  BY <1>3 DEF SplitsOver
<1>5. Cells \subseteq AllCells
  BY <1>1 DEF Cells, AllCells
<1> QED
  BY <1>2, <1>4, <1>5, LeafOrSplit

-----------------------------------------------------------------------------
(* Recursion over a range, and sums.                                       *)

Recurs(f, V, a, n, step) ==
    /\ f \in [0 .. n -> V] /\ f[0] = a
    /\ \A i \in 1 .. n : f[i] = step[i, f[i - 1]]

\* A function that takes step after step from a first value is there.
LEMMA RecursionExists ==
    ASSUME NEW V, NEW a \in V, NEW n \in Nat, NEW step \in [(1 .. n) \X V -> V]
    PROVE  \E f : Recurs(f, V, a, n, step)
<1> DEFINE Next1(i, v) == step[i, v]
           Good(k) == \E f \in [0 .. k -> V] :
                         f[0] = a /\ \A i \in 1 .. k : f[i] = Next1(i, f[i - 1])
           T == {k \in Nat : k <= n => Good(k)}
<1>1. \A i \in 1 .. n, v \in V : Next1(i, v) \in V
  OBVIOUS
<1> HIDE DEF Next1
<1>2. Good(0)
  <2> DEFINE f == [i \in 0 .. 0 |-> a]
  <2>1. f \in [0 .. 0 -> V] /\ f[0] = a /\ 1 .. 0 = {}
    OBVIOUS
  <2> HIDE DEF f
  <2> QED
    BY <2>1
<1>3. ASSUME NEW k \in Nat, k + 1 <= n, Good(k) PROVE Good(k + 1)
  <2>1. PICK f \in [0 .. k -> V] : f[0] = a /\ \A i \in 1 .. k : f[i] = Next1(i, f[i - 1])
    BY <1>3
  <2> DEFINE new == Next1(k + 1, f[k])
             g == [i \in 0 .. k + 1 |-> IF i <= k THEN f[i] ELSE new]
  <2>2. new \in V
    <3>1. k + 1 \in 1 .. n /\ f[k] \in V
      BY <1>3, <2>1
    <3> QED
      BY <1>1, <3>1
  <2>3. g \in [0 .. k + 1 -> V] /\ g[0] = a
    <3> HIDE DEF new
    <3> QED
      BY <2>1, <2>2
  <2>4. ASSUME NEW i \in 1 .. k + 1 PROVE g[i] = Next1(i, g[i - 1])
    <3>1. g[i - 1] = f[i - 1]
      OBVIOUS
    <3>2. CASE i <= k
      <4>1. g[i] = f[i] /\ i \in 1 .. k
        BY <3>2
      <4> HIDE DEF g
      <4> QED
        BY <2>1, <3>1, <4>1
    <3>3. CASE i = k + 1
      <4>1. g[i] = new /\ i - 1 = k
        BY <3>3
      <4> HIDE DEF g
      <4> QED
        BY <3>1, <3>3, <4>1
    <3> QED
      BY <3>2, <3>3
  <2> HIDE DEF g
  <2> QED
    BY <2>3, <2>4
<1> HIDE DEF Good
<1>4. Nat \subseteq T
  <2>1. 0 \in T
    BY <1>2
  <2>2. ASSUME NEW k \in Nat, k \in T PROVE k + 1 \in T
    <3> SUFFICES ASSUME k + 1 <= n PROVE Good(k + 1)
      OBVIOUS
    <3>1. Good(k)
      BY <2>2
    <3> QED
      BY <1>3, <3>1
  <2> HIDE DEF T
  <2> QED
    BY <2>1, <2>2, Climb
<1>5. Good(n)
  BY <1>4
<1> QED
  BY <1>5 DEF Good, Next1, Recurs

\* SumTo adds one element after the other.
LEMMA SumIs ==
    ASSUME NEW s \in Seq(Nat)
    PROVE  /\ SumTo(s, 0) = 0
           /\ \A k \in 1 .. Len(s) : SumTo(s, k) = SumTo(s, k - 1) + s[k]
           /\ \A k \in 0 .. Len(s) : SumTo(s, k) \in Nat
<1> DEFINE n == Len(s)
           step == [x \in (1 .. n) \X Nat |-> x[2] + s[x[1]]]
           Rec(f) == [i \in 0 .. n |-> IF i = 0 THEN 0 ELSE f[i - 1] + s[i]]
<1>1. n \in Nat /\ \A k \in 1 .. n : s[k] \in Nat
  OBVIOUS
<1>2. step \in [(1 .. n) \X Nat -> Nat]
  BY <1>1
<1>3. \A k \in 1 .. n, v \in Nat : step[k, v] = v + s[k]
  OBVIOUS
<1> HIDE DEF step
<1>4. PICK f : Recurs(f, Nat, 0, n, step)
  BY <1>1, <1>2, RecursionExists
<1>5. f = Rec(f)
  <2>1. ASSUME NEW i \in 1 .. n PROVE f[i] = f[i - 1] + s[i]
    <3>1. f[i - 1] \in Nat
      <4>1. i - 1 \in 0 .. n
        BY <1>1
      <4>2. f \in [0 .. n -> Nat]
        BY <1>4 DEF Recurs
      <4> HIDE DEF n
      <4> QED
        BY <4>1, <4>2
    <3>2. f[i] = step[i, f[i - 1]]
      BY <1>4 DEF Recurs
    <3>3. step[i, f[i - 1]] = f[i - 1] + s[i]
      <4> HIDE DEF n
      <4> QED
        BY <1>3, <3>1
    <3> QED
      BY <3>2, <3>3
  <2>2. f \in [0 .. n -> Nat] /\ f[0] = 0
    BY <1>4 DEF Recurs
  <2>3. \A i \in 0 .. n : f[i] = IF i = 0 THEN 0 ELSE f[i - 1] + s[i]
    BY <1>1, <2>1, <2>2
  <2> HIDE DEF n
  <2> QED
    BY <2>2, <2>3
<1> DEFINE sums == CHOOSE h : h = Rec(h)
<1>6. sums = Rec(sums)
  <2> HIDE DEF Rec
  <2> QED
    BY <1>5
<1>7. \A k : SumTo(s, k) = sums[k]
  BY DEF SumTo
<1> HIDE DEF sums
<1>8. sums[0] = 0 /\ \A k \in 1 .. n : sums[k] = sums[k - 1] + s[k]
  BY <1>1, <1>6
<1> DEFINE T == {k \in Nat : k <= n => sums[k] \in Nat}
<1>9. Nat \subseteq T
  <2>1. 0 \in T
    BY <1>8
  <2>2. ASSUME NEW k \in Nat, k \in T PROVE k + 1 \in T
    <3> SUFFICES ASSUME k + 1 <= n PROVE sums[k + 1] \in Nat
      OBVIOUS
    <3>1. k + 1 \in 1 .. n /\ (k + 1) - 1 = k /\ sums[k] \in Nat /\ s[k + 1] \in Nat
      BY <1>1, <2>2
    <3>2. sums[k + 1] = sums[(k + 1) - 1] + s[k + 1]
      BY <1>8, <3>1
    <3> QED
      BY <3>1, <3>2
  <2> HIDE DEF T
  <2> QED
    BY <2>1, <2>2, Climb
<1>10. \A k \in 0 .. n : sums[k] \in Nat
  BY <1>1, <1>9
<1> QED
  BY <1>1, <1>7, <1>8, <1>10

\* Sums of the same numbers, of larger ones, and with one of them changed.
LEMMA SumsAgree ==
    ASSUME NEW s \in Seq(Nat), NEW t \in Seq(Nat), NEW k \in Nat,
           k <= Len(s), k <= Len(t), \A i \in 1 .. k : s[i] = t[i]
    PROVE  SumTo(s, k) = SumTo(t, k)
<1> DEFINE T == {j \in Nat : j <= k => SumTo(s, j) = SumTo(t, j)}
<1>1. 0 \in T
  BY SumIs
<1>2. ASSUME NEW j \in Nat, j \in T PROVE j + 1 \in T
  <2> SUFFICES ASSUME j + 1 <= k PROVE SumTo(s, j + 1) = SumTo(t, j + 1)
    OBVIOUS
  <2>1. /\ j + 1 \in 1 .. Len(s) /\ j + 1 \in 1 .. Len(t) /\ (j + 1) - 1 = j
        /\ SumTo(s, j) = SumTo(t, j) /\ s[j + 1] = t[j + 1]
    BY <1>2
  <2>2. /\ SumTo(s, j + 1) = SumTo(s, j) + s[j + 1]
        /\ SumTo(t, j + 1) = SumTo(t, j) + t[j + 1]
    BY <2>1, SumIs
  <2> QED
    BY <2>1, <2>2
<1>3. Nat \subseteq T
  <2> HIDE DEF T
  <2> QED
    BY <1>1, <1>2, Climb
<1> QED
  BY <1>3

\* One more in one place is one more in all.
LEMMA SumOfOneMore ==
    ASSUME NEW s \in Seq(Nat), NEW t \in Seq(Nat), Len(t) = Len(s), NEW j \in 1 .. Len(s),
           \A i \in 1 .. Len(s) : i # j => t[i] = s[i], t[j] = s[j] + 1
    PROVE  Total(t) = Total(s) + 1
<1> DEFINE n == Len(s)
           T == {k \in Nat : k <= n => SumTo(t, k) = SumTo(s, k) + (IF k < j THEN 0 ELSE 1)}
<1>1. n \in Nat /\ \A k \in 0 .. n : SumTo(s, k) \in Nat /\ SumTo(t, k) \in Nat
  BY SumIs
<1>2. 0 \in T
  BY SumIs
<1>3. ASSUME NEW k \in Nat, k \in T PROVE k + 1 \in T
  <2> SUFFICES ASSUME k + 1 <= n
               PROVE  SumTo(t, k + 1) = SumTo(s, k + 1) + (IF k + 1 < j THEN 0 ELSE 1)
    OBVIOUS
  <2> DEFINE m == k + 1
  <2>1. m \in 1 .. Len(s) /\ m \in 1 .. Len(t) /\ m - 1 = k
    OBVIOUS
  <2>2. /\ SumTo(s, m) = SumTo(s, k) + s[m]
        /\ SumTo(t, m) = SumTo(t, k) + t[m]
    <3> HIDE DEF m
    <3> QED
      BY <2>1, SumIs
  <2>3. SumTo(t, k) = SumTo(s, k) + (IF k < j THEN 0 ELSE 1) /\ SumTo(s, k) \in Nat
    BY <1>1, <1>3
  <2>4. s[m] \in Nat /\ t[m] = s[m] + (IF m = j THEN 1 ELSE 0)
    BY <2>1
  <2> QED
    BY <2>2, <2>3, <2>4
<1>4. Nat \subseteq T
  <2> HIDE DEF T
  <2> QED
    BY <1>2, <1>3, Climb
<1>5. SumTo(t, n) = SumTo(s, n) + 1
  BY <1>1, <1>4
<1> QED
  BY <1>5 DEF Total

\* One positive element makes the sum positive.
LEMMA SumIsPositive ==
    ASSUME NEW s \in Seq(Nat), NEW j \in 1 .. Len(s), s[j] > 0
    PROVE  Total(s) > 0
<1> DEFINE n == Len(s)
           T == {k \in Nat : k <= n /\ j <= k => SumTo(s, k) > 0}
<1>1. 0 \in T
  OBVIOUS
<1>2. ASSUME NEW k \in Nat, k \in T PROVE k + 1 \in T
  <2> SUFFICES ASSUME k + 1 <= n, j <= k + 1 PROVE SumTo(s, k + 1) > 0
    OBVIOUS
  <2>1. /\ k + 1 \in 1 .. Len(s) /\ (k + 1) - 1 = k /\ s[k + 1] \in Nat /\ k \in 0 .. Len(s)
    OBVIOUS
  <2>2. SumTo(s, k + 1) = SumTo(s, k) + s[k + 1] /\ SumTo(s, k) \in Nat
    BY <2>1, SumIs
  <2>3. j <= k => SumTo(s, k) > 0
    BY <1>2
  <2> QED
    BY <2>1, <2>2, <2>3
<1>3. Nat \subseteq T
  <2> HIDE DEF T
  <2> QED
    BY <1>1, <1>2, Climb
<1> QED
  BY <1>3 DEF Total

-----------------------------------------------------------------------------
(* distribute().                                                           *)

\* Sizes shared out evenly, none under the floor.
LEMMA EvenlyIs ==
    ASSUME NEW n \in Nat, NEW target \in Nat
    PROVE  /\ Evenly(n, target) \in Seq(Nat) /\ Len(Evenly(n, target)) = n
           /\ \A i \in 1 .. n : Evenly(n, target)[i] >= PaneMin
<1>1. ASSUME NEW i \in 1 .. n
      PROVE  LET e == (target \div n) + (IF i <= target % n THEN 1 ELSE 0)
             IN Larger(e, PaneMin) \in Nat /\ Larger(e, PaneMin) >= PaneMin
  <2>1. target \div n \in Nat
    BY n > 0
  <2> QED
    BY <2>1 DEF Larger, PaneMin
<1> QED
  BY <1>1 DEF Evenly

\* What a turn keeps, whether there is too much room or too little.
LEMMA TurnIs ==
    ASSUME NEW given \in Seq(Nat), NEW target \in Nat, NEW i \in 1 .. Len(given)
    PROVE  /\ Turn(given, target, i) \in Seq(Nat)
           /\ Len(Turn(given, target, i)) = Len(given)
           /\ (\A j \in 1 .. Len(given) : given[j] >= PaneMin) =>
                 \A j \in 1 .. Len(given) : Turn(given, target, i)[j] >= PaneMin
           /\ Total(given) < target =>
                 /\ \A j \in 1 .. Len(given) : Turn(given, target, i)[j] >= given[j]
                 /\ Total(Turn(given, target, i)) = Total(given) + 1
           /\ Total(given) = target => Turn(given, target, i) = given
<1>1. Len(given) \in Nat /\ DOMAIN given = 1 .. Len(given) /\ \A j \in 1 .. Len(given) : given[j] \in Nat
  OBVIOUS
<1>2. Total(given) \in Nat
  BY <1>1, SumIs DEF Total
<1> DEFINE more == [given EXCEPT ![i] = @ + 1]
           less == [given EXCEPT ![i] = @ - 1]
<1>3. /\ more \in Seq(Nat) /\ Len(more) = Len(given)
      /\ \A j \in 1 .. Len(given) : more[j] = given[j] + (IF j = i THEN 1 ELSE 0)
  BY <1>1
<1>4. Total(more) = Total(given) + 1
  <2> HIDE DEF more
  <2>1. (\A j \in 1 .. Len(given) : j # i => more[j] = given[j]) /\ more[i] = given[i] + 1
    BY <1>1, <1>3
  <2> QED
    BY <1>3, <2>1, SumOfOneMore
<1>5. given[i] > PaneMin =>
        /\ less \in Seq(Nat) /\ Len(less) = Len(given)
        /\ \A j \in 1 .. Len(given) : less[j] = given[j] - (IF j = i THEN 1 ELSE 0)
  BY <1>1 DEF PaneMin
<1> DEFINE result == Turn(given, target, i)
<1>6. CASE Total(given) < target
  <2>1. result = more
    BY <1>6 DEF Turn
  <2> HIDE DEF more, result
  <2>2. \A j \in 1 .. Len(given) : result[j] >= given[j]
    BY <1>1, <1>3, <2>1
  <2>3. (\A j \in 1 .. Len(given) : given[j] >= PaneMin) =>
           \A j \in 1 .. Len(given) : result[j] >= PaneMin
    BY <1>1, <1>3, <2>1 DEF PaneMin
  <2> QED
    BY <1>2, <1>3, <1>4, <1>6, <2>1, <2>2, <2>3 DEF result
<1>7. CASE Total(given) > target /\ given[i] > PaneMin
  <2>1. result = less
    BY <1>2, <1>7 DEF Turn
  <2> HIDE DEF less, result
  <2>2. (\A j \in 1 .. Len(given) : given[j] >= PaneMin) =>
           \A j \in 1 .. Len(given) : result[j] >= PaneMin
    <3>1. ASSUME NEW j \in 1 .. Len(given), given[j] >= PaneMin PROVE result[j] >= PaneMin
      <4>1. result[j] = given[j] - (IF j = i THEN 1 ELSE 0) /\ given[j] \in Nat
        BY <1>1, <1>5, <1>7, <2>1
      <4>2. j = i => given[j] > PaneMin
        BY <1>7
      <4> QED
        BY <3>1, <4>1, <4>2 DEF PaneMin
    <3> QED
      BY <3>1
  <2> QED
    BY <1>2, <1>5, <1>7, <2>1, <2>2 DEF result
<1>8. CASE ~ (Total(given) < target) /\ ~ (Total(given) > target /\ given[i] > PaneMin)
  BY <1>2, <1>8 DEF Turn
<1> QED
  BY <1>6, <1>7, <1>8

\* The children are given the room, whichever way; each keeps the floor if it
\* had it, and if there is room for all of them, none loses a cell and nothing
\* is left over.
LEMMA NudgeIs ==
    ASSUME NEW cur \in Seq(Nat), NEW target \in Nat, Len(cur) > 0
    PROVE  /\ Nudge(cur, target) \in Seq(Nat) /\ Len(Nudge(cur, target)) = Len(cur)
           /\ (\A j \in 1 .. Len(cur) : cur[j] >= PaneMin) =>
                 \A j \in 1 .. Len(cur) : Nudge(cur, target)[j] >= PaneMin
           /\ Total(cur) <= target =>
                 /\ \A j \in 1 .. Len(cur) : Nudge(cur, target)[j] >= cur[j]
                 /\ Total(Nudge(cur, target)) = target
<1> DEFINE n == Len(cur)
           turns == Turns(target - Total(cur), n)
           child(t) == ((t - 1) % n) + 1
           V == {s \in Seq(Nat) : Len(s) = n}
           step == [x \in (1 .. turns) \X V |-> Turn(x[2], target, child(x[1]))]
           Rec(f) == [t \in 0 .. turns |->
                        IF t = 0 THEN cur ELSE Turn(f[t - 1], target, child(t))]
<1>1. n \in Nat /\ n > 0 /\ Total(cur) \in Nat
  BY SumIs DEF Total
<1>2. turns \in Nat /\ (Total(cur) <= target => turns >= target - Total(cur))
  BY <1>1 DEF Turns, Magnitude
<1>3. \A t \in 1 .. turns : child(t) \in 1 .. n
  BY <1>1, <1>2
<1> HIDE DEF turns, child
<1>4. \A t \in 1 .. turns, s \in V : Turn(s, target, child(t)) \in V
  BY <1>3, TurnIs
<1>5. step \in [(1 .. turns) \X V -> V] /\ cur \in V
  BY <1>4
<1>6. \A t \in 1 .. turns, s \in V : step[t, s] = Turn(s, target, child(t))
  OBVIOUS
<1> HIDE DEF step, V
<1>7. PICK f : Recurs(f, V, cur, turns, step)
  BY <1>2, <1>5, RecursionExists
<1>8. f \in [0 .. turns -> V] /\ f[0] = cur
  BY <1>7 DEF Recurs
<1>9. ASSUME NEW t \in 1 .. turns PROVE f[t - 1] \in V /\ f[t] = Turn(f[t - 1], target, child(t))
  <2>1. f[t - 1] \in V
    BY <1>2, <1>8
  <2>2. f[t] = step[t, f[t - 1]]
    BY <1>7 DEF Recurs
  <2> QED
    BY <1>6, <2>1, <2>2
<1>10. f = Rec(f)
  <2>1. \A t \in 0 .. turns : f[t] = IF t = 0 THEN cur ELSE Turn(f[t - 1], target, child(t))
    BY <1>2, <1>8, <1>9
  <2> QED
    BY <1>8, <2>1
<1> DEFINE given == CHOOSE h : h = Rec(h)
<1>11. given = Rec(given)
  <2> HIDE DEF Rec
  <2> QED
    BY <1>10
<1>12. Nudge(cur, target) = given[turns]
  BY DEF Nudge, turns, child
<1> HIDE DEF given
<1>13. given[0] = cur /\ \A t \in 1 .. turns : given[t] = Turn(given[t - 1], target, child(t))
  BY <1>2, <1>11
<1> DEFINE floored(s) == (\A j \in 1 .. n : cur[j] >= PaneMin) => \A j \in 1 .. n : s[j] >= PaneMin
           grown(s, t) ==
              Total(cur) <= target =>
                 /\ \A j \in 1 .. n : s[j] >= cur[j]
                 /\ Total(s) = IF Total(cur) + t <= target THEN Total(cur) + t ELSE target
           T == {t \in Nat : t <= turns => given[t] \in V /\ floored(given[t]) /\ grown(given[t], t)}
<1>14. 0 \in T
  <2>1. \A j \in 1 .. n : cur[j] >= cur[j]
    OBVIOUS
  <2> QED
    BY <1>1, <1>5, <1>13, <2>1
<1>15. ASSUME NEW t \in Nat, t \in T PROVE t + 1 \in T
  <2> SUFFICES ASSUME t + 1 <= turns
               PROVE  given[t + 1] \in V /\ floored(given[t + 1]) /\ grown(given[t + 1], t + 1)
    OBVIOUS
  <2> DEFINE s == given[t]
             i == child(t + 1)
  <2>1. s \in V /\ floored(s) /\ grown(s, t)
    BY <1>2, <1>15
  <2>2. t + 1 \in 1 .. turns /\ (t + 1) - 1 = t
    BY <1>2
  <2>3. given[t + 1] = Turn(s, target, i) /\ i \in 1 .. n
    BY <1>3, <1>13, <2>2
  <2>4. s \in Seq(Nat) /\ Len(s) = n /\ Total(s) \in Nat /\ \A j \in 1 .. n : s[j] \in Nat
    <3>1. s \in Seq(Nat) /\ Len(s) = n
      BY <2>1 DEF V
    <3> HIDE DEF s
    <3>2. Len(s) \in 0 .. Len(s) /\ \A j \in 1 .. n : s[j] \in Nat
      BY <3>1
    <3>3. Total(s) \in Nat
      BY <3>1, <3>2, SumIs DEF Total
    <3> QED
      BY <3>1, <3>2, <3>3
  <2> HIDE DEF s, i
  <2> DEFINE r == Turn(s, target, i)
  <2>5. /\ r \in V
        /\ (\A j \in 1 .. n : s[j] >= PaneMin) => \A j \in 1 .. n : r[j] >= PaneMin
        /\ Total(s) < target => (\A j \in 1 .. n : r[j] >= s[j]) /\ Total(r) = Total(s) + 1
        /\ Total(s) = target => r = s
    BY <2>3, <2>4, TurnIs DEF V
  <2>6. \A j \in 1 .. n : r[j] \in Nat /\ cur[j] \in Nat
    BY <2>5 DEF V
  <2> HIDE DEF r
  <2>7. grown(r, t + 1)
    <3> SUFFICES ASSUME Total(cur) <= target
                 PROVE  /\ \A j \in 1 .. n : r[j] >= cur[j]
                        /\ Total(r) = IF Total(cur) + (t + 1) <= target
                                      THEN Total(cur) + (t + 1) ELSE target
      OBVIOUS
    <3>1. /\ \A j \in 1 .. n : s[j] >= cur[j]
          /\ Total(s) = IF Total(cur) + t <= target THEN Total(cur) + t ELSE target
      BY <2>1
    <3>2. CASE Total(s) < target
      <4>1. (\A j \in 1 .. n : r[j] >= s[j]) /\ Total(r) = Total(s) + 1
        BY <2>5, <3>2
      <4>2. \A j \in 1 .. n : r[j] >= cur[j]
        <5> SUFFICES ASSUME NEW j \in 1 .. n PROVE r[j] >= cur[j]
          OBVIOUS
        <5>1. r[j] >= s[j] /\ s[j] >= cur[j] /\ r[j] \in Nat /\ s[j] \in Nat /\ cur[j] \in Nat
          BY <2>4, <2>6, <3>1, <4>1
        <5> QED
          BY <5>1
      <4>3. Total(s) = Total(cur) + t
        BY <3>1, <3>2
      <4> QED
        BY <1>1, <3>2, <4>1, <4>2, <4>3
    <3>3. CASE Total(s) = target
      <4>1. r = s
        BY <2>5, <3>3
      <4> QED
        BY <1>1, <3>1, <3>3, <4>1
    <3>4. Total(s) < target \/ Total(s) = target
      BY <1>1, <3>1
    <3> QED
      BY <3>2, <3>3, <3>4
  <2>8. floored(r)
    BY <2>1, <2>5
  <2> QED
    BY <2>3, <2>5, <2>7, <2>8 DEF r
<1>16. Nat \subseteq T
  <2> HIDE DEF T
  <2> QED
    BY <1>14, <1>15, Climb
<1>17. given[turns] \in V /\ floored(given[turns]) /\ grown(given[turns], turns)
  <2>1. turns \in T /\ turns <= turns
    BY <1>2, <1>16
  <2> HIDE DEF floored, grown
  <2> QED
    BY <2>1
<1> DEFINE end == given[turns]
<1> HIDE DEF end
<1>18. end \in Seq(Nat) /\ Len(end) = n /\ floored(end) /\ grown(end, turns)
  BY <1>17 DEF V, end
<1>19. Total(cur) <= target => Total(end) = target
  <2> SUFFICES ASSUME Total(cur) <= target PROVE Total(end) = target
    OBVIOUS
  <2>1. Total(end) = IF Total(cur) + turns <= target THEN Total(cur) + turns ELSE target
    BY <1>18
  <2>2. turns >= target - Total(cur) /\ turns \in Nat
    BY <1>2
  <2> QED
    BY <1>1, <2>1, <2>2
<1> QED
  BY <1>12, <1>18, <1>19 DEF end

-----------------------------------------------------------------------------
(* The parts of a cell, and what the walks over a tree return.             *)

\* A cell is a leaf, or a split of cells.
LEMMA CellIs ==
    ASSUME NEW c \in AllCells
    PROVE  /\ IsLeaf(c) => c \in Leaves
           /\ ~ IsLeaf(c) =>
                 /\ c \in SplitsOver(AllCells)
                 /\ c.axis \in Axes /\ c.kids \in Seq(AllCells)
                 /\ Len(c.kids) \in Nat /\ DOMAIN c.kids = 1 .. Len(c.kids)
                 /\ \A i \in DOMAIN c.kids : c.kids[i] \in AllCells
           /\ c.w \in Nat /\ c.h \in Nat
<1>1. c \in Leaves \/ c \in SplitsOver(AllCells)
  BY AllCellsAre
<1>2. \A s \in Seq(AllCells) :
         Len(s) \in Nat /\ DOMAIN s = 1 .. Len(s) /\ \A i \in DOMAIN s : s[i] \in AllCells
  OBVIOUS
<1>3. CASE c \in Leaves
  BY <1>3, LeafOrSplit
<1>4. CASE c \in SplitsOver(AllCells)
  <2>1. ~ IsLeaf(c) /\ c.axis \in Axes /\ c.kids \in Seq(AllCells) /\ c.w \in Nat /\ c.h \in Nat
    BY <1>4, LeafOrSplit
  <2> QED
    BY <1>2, <1>4, <2>1
<1> QED
  BY <1>1, <1>3, <1>4

KidsWithin(U) == \A e \in U : ~ IsLeaf(e) => \A i \in DOMAIN e.kids : e.kids[i] \in U

\* The parts of a cell of any height: what is reached from it.
AllParts(c) == {d \in AllCells : \A U \in SUBSET AllCells : KidsWithin(U) /\ c \in U => d \in U}

\* The parts of a cell: the cell itself, and those of its children.
LEMMA AllPartsAre ==
    ASSUME NEW c \in AllCells
    PROVE  /\ c \in AllParts(c) /\ AllParts(c) \subseteq AllCells /\ KidsWithin(AllParts(c))
           /\ IsLeaf(c) => AllParts(c) = {c}
           /\ ~ IsLeaf(c) =>
                 AllParts(c) = {c} \cup UNION {AllParts(c.kids[i]) : i \in DOMAIN c.kids}
<1>1. \A a \in AllCells : a \in AllParts(a) /\ AllParts(a) \subseteq AllCells
  BY DEF AllParts
<1>2. ASSUME NEW a \in AllCells PROVE KidsWithin(AllParts(a))
  <2> SUFFICES ASSUME NEW e \in AllParts(a), ~ IsLeaf(e), NEW i \in DOMAIN e.kids
               PROVE  e.kids[i] \in AllParts(a)
    BY DEF KidsWithin
  <2>1. e \in AllCells /\ e.kids[i] \in AllCells
    BY CellIs DEF AllParts
  <2>2. ASSUME NEW U \in SUBSET AllCells, KidsWithin(U), a \in U PROVE e.kids[i] \in U
    <3>1. e \in U
      BY <2>2 DEF AllParts
    <3> QED
      BY <2>2, <3>1 DEF KidsWithin
  <2> QED
    BY <2>1, <2>2 DEF AllParts
<1>3. ASSUME NEW U \in SUBSET AllCells, KidsWithin(U), c \in U PROVE AllParts(c) \subseteq U
  BY <1>3 DEF AllParts
<1>4. CASE IsLeaf(c)
  <2>1. KidsWithin({c})
    BY <1>4 DEF KidsWithin
  <2> QED
    BY <1>1, <1>2, <1>3, <1>4, <2>1
<1>5. CASE ~ IsLeaf(c)
  <2> DEFINE U == {c} \cup UNION {AllParts(c.kids[i]) : i \in DOMAIN c.kids}
  <2>1. \A i \in DOMAIN c.kids : c.kids[i] \in AllCells
    BY <1>5, CellIs
  <2>2. U \in SUBSET AllCells /\ c \in U
    BY <1>1, <2>1
  <2>3. KidsWithin(U)
    <3> SUFFICES ASSUME NEW e \in U, ~ IsLeaf(e), NEW j \in DOMAIN e.kids
                 PROVE  e.kids[j] \in U
      BY DEF KidsWithin
    <3>1. CASE e = c
      BY <1>1, <2>1, <3>1
    <3>2. CASE e # c
      <4>1. PICK i \in DOMAIN c.kids : e \in AllParts(c.kids[i])
        BY <3>2
      <4>2. e.kids[j] \in AllParts(c.kids[i])
        BY <1>2, <2>1, <4>1 DEF KidsWithin
      <4> QED
        BY <4>2
    <3> QED
      BY <3>1, <3>2
  <2>4. ASSUME NEW i \in DOMAIN c.kids PROVE AllParts(c.kids[i]) \subseteq AllParts(c)
    <3> SUFFICES ASSUME NEW d \in AllParts(c.kids[i]) PROVE d \in AllParts(c)
      OBVIOUS
    <3>1. ASSUME NEW V \in SUBSET AllCells, KidsWithin(V), c \in V PROVE d \in V
      <4>1. c.kids[i] \in V
        BY <1>5, <3>1 DEF KidsWithin
      <4> QED
        BY <3>1, <4>1 DEF AllParts
    <3> QED
      BY <3>1 DEF AllParts
  <2>5. AllParts(c) \subseteq U
    BY <1>3, <2>2, <2>3
  <2>6. U \subseteq AllParts(c)
    BY <1>1, <2>4
  <2>7. AllParts(c) = U
    BY <2>5, <2>6
  <2> QED
    BY <1>1, <1>2, <1>5, <2>7
<1> QED
  BY <1>4, <1>5

\* A part of a part is a part.
LEMMA PartsWithin ==
    ASSUME NEW c \in AllCells, NEW d \in AllParts(c)
    PROVE  /\ d \in AllCells /\ AllParts(d) \subseteq AllParts(c)
           /\ ~ IsLeaf(d) => \A i \in DOMAIN d.kids : d.kids[i] \in AllParts(c)
<1>1. AllParts(c) \in SUBSET AllCells /\ KidsWithin(AllParts(c))
  BY AllPartsAre
<1> QED
  BY <1>1 DEF AllParts, KidsWithin

\* The children of a cell that the operators are defined on.
LEMMA PartsIs ==
    ASSUME NEW c \in Cells
    PROVE  Parts(c) = AllParts(c)
<1> DEFINE Rec(f) == [d \in Cells |-> IF IsLeaf(d) THEN {d}
                         ELSE {d} \cup UNION {f[d.kids[i]] : i \in DOMAIN d.kids}]
           F == [d \in Cells |-> AllParts(d)]
<1>1. F = Rec(F)
  <2> SUFFICES ASSUME NEW d \in Cells
               PROVE  F[d] = IF IsLeaf(d) THEN {d}
                             ELSE {d} \cup UNION {F[d.kids[i]] : i \in DOMAIN d.kids}
    OBVIOUS
  <2>1. d \in AllCells /\ (~ IsLeaf(d) => \A i \in DOMAIN d.kids : d.kids[i] \in Cells)
    BY CellsAre
  <2>2. ~ IsLeaf(d) => {F[d.kids[i]] : i \in DOMAIN d.kids}
                         = {AllParts(d.kids[i]) : i \in DOMAIN d.kids}
    BY <2>1
  <2>3. F[d] = AllParts(d)
    OBVIOUS
  <2> HIDE DEF F
  <2> QED
    BY <2>1, <2>2, <2>3, AllPartsAre
<1> DEFINE P == CHOOSE h : h = Rec(h)
<1>2. P = Rec(P)
  <2> HIDE DEF Rec
  <2> QED
    BY <1>1
<1>3. \A d : Parts(d) = P[d]
  BY DEF Parts
<1> HIDE DEF P
<1>4. \A d \in Cells : P[d] = IF IsLeaf(d) THEN {d}
                              ELSE {d} \cup UNION {P[d.kids[i]] : i \in DOMAIN d.kids}
  BY <1>2
<1> DEFINE T == {d \in AllCells : d \in Cells => P[d] = AllParts(d)}
<1>5. Leaves \subseteq T
  BY <1>4, AllPartsAre, AllCellsAre, LeafOrSplit
<1>6. ASSUME NEW d \in SplitsOver(AllCells), \A i \in DOMAIN d.kids : d.kids[i] \in T
      PROVE  d \in T
  <2>1. d \in AllCells /\ ~ IsLeaf(d)
    BY AllCellsAre, LeafOrSplit
  <2> SUFFICES ASSUME d \in Cells PROVE P[d] = AllParts(d)
    BY <2>1
  <2>2. \A i \in DOMAIN d.kids : P[d.kids[i]] = AllParts(d.kids[i])
    BY <1>6, <2>1, CellsAre
  <2>3. {P[d.kids[i]] : i \in DOMAIN d.kids} = {AllParts(d.kids[i]) : i \in DOMAIN d.kids}
    BY <2>2
  <2> QED
    BY <1>4, <2>1, <2>3, AllPartsAre
<1>7. AllCells \subseteq T
  <2> HIDE DEF T
  <2> QED
    BY <1>5, <1>6, TreeInduction
<1> QED
  BY <1>3, <1>7, CellsAre

\* What Put makes of a cell.
LEMMA PutIs ==
    ASSUME NEW old \in AllCells, NEW new \in AllCells, NEW c \in Cells
    PROVE  /\ c = old => Put(c, old, new) = new
           /\ c # old /\ IsLeaf(c) => Put(c, old, new) = c
           /\ c # old /\ ~ IsLeaf(c) =>
                 Put(c, old, new) =
                    [c EXCEPT !.kids = [i \in DOMAIN c.kids |-> Put(c.kids[i], old, new)]]
<1> DEFINE base == [d \in Leaves |-> IF d = old THEN new ELSE d]
           comb == [x \in SplitsOver(AllCells) \X Seq(AllCells) |->
                       IF x[1] = old THEN new ELSE [x[1] EXCEPT !.kids = x[2]]]
           Rec(f) == [d \in Cells |-> IF d = old THEN new ELSE IF IsLeaf(d) THEN d
                         ELSE [d EXCEPT !.kids = [i \in DOMAIN d.kids |-> f[d.kids[i]]]]]
<1>1. base \in [Leaves -> AllCells]
  BY AllCellsAre
<1>2. comb \in [SplitsOver(AllCells) \X Seq(AllCells) -> AllCells]
  <2>1. ASSUME NEW d \in SplitsOver(AllCells), NEW vs \in Seq(AllCells)
        PROVE  [d EXCEPT !.kids = vs] \in AllCells
    <3>1. [d EXCEPT !.kids = vs] \in SplitsOver(AllCells)
      BY DEF SplitsOver
    <3> QED
      BY <3>1, AllCellsAre
  <2> QED
    BY <2>1
<1>3. /\ \A d \in Leaves : base[d] = IF d = old THEN new ELSE d
      /\ \A d \in SplitsOver(AllCells), vs \in Seq(AllCells) :
            comb[d, vs] = IF d = old THEN new ELSE [d EXCEPT !.kids = vs]
  OBVIOUS
<1> HIDE DEF base, comb
<1>4. PICK F : F \in [Cells -> AllCells] /\ \A d \in Cells : F[d] = Walked(F, base, comb, d)
  <2>1. MaxPanes \in Nat
    BY BoundsAssumption
  <2>2. \E F : Walks(F, CellsTo[MaxPanes], AllCells, base, comb)
    BY <1>1, <1>2, <2>1, WalkExists
  <2> QED
    BY <2>2 DEF Walks, Cells
<1>5. F = Rec(F)
  <2> SUFFICES ASSUME NEW d \in Cells
               PROVE  F[d] = IF d = old THEN new ELSE IF IsLeaf(d) THEN d
                             ELSE [d EXCEPT !.kids = [i \in DOMAIN d.kids |-> F[d.kids[i]]]]
    BY <1>4
  <2>1. d \in AllCells
    BY CellsAre
  <2>2. CASE IsLeaf(d)
    BY <1>3, <1>4, <2>1, <2>2, CellIs DEF Walked
  <2>3. CASE ~ IsLeaf(d)
    <3> DEFINE vs == [i \in DOMAIN d.kids |-> F[d.kids[i]]]
    <3>1. d \in SplitsOver(AllCells) /\ \A i \in DOMAIN d.kids : d.kids[i] \in Cells
      BY <2>1, <2>3, CellIs, CellsAre
    <3>2. vs \in Seq(AllCells)
      <4>1. Len(d.kids) \in Nat /\ DOMAIN d.kids = 1 .. Len(d.kids)
        BY <2>1, <2>3, CellIs
      <4>2. \A i \in 1 .. Len(d.kids) : F[d.kids[i]] \in AllCells
        BY <1>4, <3>1, <4>1
      <4>3. [i \in 1 .. Len(d.kids) |-> F[d.kids[i]]] \in Seq(AllCells)
        BY <4>1, <4>2
      <4> QED
        BY <4>1, <4>3
    <3>3. F[d] = comb[d, vs]
      BY <1>4, <2>3 DEF Walked
    <3> HIDE DEF vs
    <3>4. F[d] = IF d = old THEN new ELSE [d EXCEPT !.kids = vs]
      BY <1>3, <3>1, <3>2, <3>3
    <3> QED
      BY <2>3, <3>4 DEF vs
  <2> QED
    BY <2>2, <2>3
<1> DEFINE P == CHOOSE h : h = Rec(h)
<1>6. P = Rec(P)
  <2> HIDE DEF Rec
  <2> QED
    BY <1>5
<1>7. \A d : Put(d, old, new) = P[d]
  BY DEF Put
<1> HIDE DEF P
<1>8. P[c] = IF c = old THEN new ELSE IF IsLeaf(c) THEN c
             ELSE [c EXCEPT !.kids = [i \in DOMAIN c.kids |-> P[c.kids[i]]]]
  BY <1>6
<1>9. [i \in DOMAIN c.kids |-> P[c.kids[i]]] = [i \in DOMAIN c.kids |-> Put(c.kids[i], old, new)]
  BY <1>7
<1> QED
  BY <1>7, <1>8, <1>9

-----------------------------------------------------------------------------
(* fit().                                                                  *)

\* The sizes that distribute() gives: what they are whatever the children had,
\* that none is under the floor once none was or nothing was given yet, and that
\* all the room is used, and no child shrinks, when it was enough for all.
LEMMA DistributeIs ==
    ASSUME NEW cur \in Seq(Nat), NEW target \in Nat
    PROVE  /\ Distribute(cur, target) \in Seq(Nat)
           /\ Len(Distribute(cur, target)) = Len(cur)
           /\ Total(cur) = 0 \/ (\A j \in 1 .. Len(cur) : cur[j] >= PaneMin) =>
                 \A j \in 1 .. Len(cur) : Distribute(cur, target)[j] >= PaneMin
           /\ Total(cur) # 0 /\ Total(cur) <= target =>
                 /\ \A j \in 1 .. Len(cur) : Distribute(cur, target)[j] >= cur[j]
                 /\ Total(Distribute(cur, target)) = target
<1>1. Len(cur) \in Nat
  OBVIOUS
<1>2. CASE Total(cur) = 0
  BY <1>1, <1>2, EvenlyIs DEF Distribute
<1>3. CASE Total(cur) # 0
  <2>1. Len(cur) > 0
    <3> SUFFICES ASSUME Len(cur) = 0 PROVE FALSE
      BY <1>1
    <3>1. SumTo(cur, Len(cur)) = 0
      BY SumIs
    <3> QED
      BY <1>3, <3>1 DEF Total
  <2>2. Distribute(cur, target) = Nudge(cur, target)
    BY <1>3 DEF Distribute
  <2> QED
    BY <1>3, <2>1, <2>2, NudgeIs
<1> QED
  BY <1>2, <1>3

\* What the children of a split get when it is fitted to w by h.
Sizes(c, w, h) == Distribute(Extents(c), Room(c.axis, Len(c.kids), w, h))

\* The extents of a split's children along its axis.
LEMMA ExtentsAre ==
    ASSUME NEW c \in AllCells, ~ IsLeaf(c)
    PROVE  /\ Extents(c) \in Seq(Nat) /\ Len(Extents(c)) = Len(c.kids)
           /\ DOMAIN Extents(c) = DOMAIN c.kids
           /\ \A i \in DOMAIN c.kids :
                 Extents(c)[i] = Along(c.axis, c.kids[i]) /\ Along(c.axis, c.kids[i]) \in Nat
<1>1. Len(c.kids) \in Nat /\ DOMAIN c.kids = 1 .. Len(c.kids)
  BY CellIs
<1>2. \A i \in DOMAIN c.kids : Along(c.axis, c.kids[i]) \in Nat
  BY CellIs DEF Along
<1>3. [i \in 1 .. Len(c.kids) |-> Along(c.axis, c.kids[i])] \in Seq(Nat)
  BY <1>1, <1>2
<1> QED
  BY <1>1, <1>2, <1>3 DEF Extents

\* What fit() gives the children: one number for each.
LEMMA SizesAre ==
    ASSUME NEW c \in AllCells, ~ IsLeaf(c), NEW w \in Nat, NEW h \in Nat
    PROVE  /\ Room(c.axis, Len(c.kids), w, h) \in Nat
           /\ Sizes(c, w, h) \in Seq(Nat) /\ Len(Sizes(c, w, h)) = Len(c.kids)
           /\ \A i \in DOMAIN c.kids : Sizes(c, w, h)[i] \in Nat
<1>1. Len(c.kids) \in Nat /\ DOMAIN c.kids = 1 .. Len(c.kids)
  BY CellIs
<1>2. Room(c.axis, Len(c.kids), w, h) \in Nat
  <2> DEFINE n == Len(c.kids)
             side == IF c.axis = "horizontal" THEN w ELSE h
  <2>1. n \in Nat /\ side \in Nat
    BY <1>1
  <2>2. Room(c.axis, n, w, h) = Larger(side - (n - 1), 0)
    BY DEF Room
  <2> HIDE DEF n, side
  <2>3. Larger(side - (n - 1), 0) \in Nat
    BY <2>1 DEF Larger
  <2> QED
    BY <2>2, <2>3 DEF n
<1>3. Sizes(c, w, h) \in Seq(Nat) /\ Len(Sizes(c, w, h)) = Len(c.kids)
  BY <1>2, ExtentsAre, DistributeIs DEF Sizes
<1>4. \A i \in DOMAIN c.kids : Sizes(c, w, h)[i] \in Nat
  <2> DEFINE s == Sizes(c, w, h)
  <2> HIDE DEF s
  <2>1. s \in Seq(Nat) /\ Len(s) = Len(c.kids)
    BY <1>3 DEF s
  <2>2. \A i \in DOMAIN c.kids : s[i] \in Nat
    BY <1>1, <2>1
  <2> QED
    BY <2>2 DEF s
<1> QED
  BY <1>2, <1>3, <1>4

KidBox(c, w, h, i) ==
    IF c.axis = "horizontal" THEN <<Sizes(c, w, h)[i], h>> ELSE <<w, Sizes(c, w, h)[i]>>

\* What Fit makes of a cell.
LEMMA FitIs ==
    ASSUME NEW c \in Cells, NEW w \in Nat, NEW h \in Nat
    PROVE  /\ Fit(c, w, h) \in AllCells
           /\ IsLeaf(c) => Fit(c, w, h) = Leaf(c.pane, w, h)
           /\ ~ IsLeaf(c) =>
                 Fit(c, w, h) =
                    SplitCell(c.axis,
                       [i \in DOMAIN c.kids |->
                          Fit(c.kids[i], KidBox(c, w, h, i)[1], KidBox(c, w, h, i)[2])], w, h)
<1> DEFINE Box == Nat \X Nat
           V == [Box -> AllCells]
           base == [d \in Leaves |-> [box \in Box |-> Leaf(d.pane, box[1], box[2])]]
           Made(d, vs, box) ==
              SplitCell(d.axis,
                 [i \in DOMAIN d.kids |->
                    IF i \in DOMAIN vs THEN vs[i][KidBox(d, box[1], box[2], i)] ELSE d],
                 box[1], box[2])
           comb == [x \in SplitsOver(AllCells) \X Seq(V) |->
                      [box \in Box |-> Made(x[1], x[2], box)]]
           Rec(f) ==
            [d \in Cells |->
              [box \in Nat \X Nat |->
                IF IsLeaf(d) THEN Leaf(d.pane, box[1], box[2])
                ELSE LET room  == Room(d.axis, Len(d.kids), box[1], box[2])
                         sizes == Distribute(Extents(d), room)
                     IN SplitCell(d.axis,
                            [i \in DOMAIN d.kids |->
                                f[d.kids[i]][IF d.axis = "horizontal"
                                             THEN <<sizes[i], box[2]>>
                                             ELSE <<box[1], sizes[i]>>]],
                            box[1], box[2])]]
           Back(f, d, box) ==
              IF IsLeaf(d) THEN Leaf(d.pane, box[1], box[2])
              ELSE SplitCell(d.axis,
                      [i \in DOMAIN d.kids |-> f[d.kids[i]][KidBox(d, box[1], box[2], i)]],
                      box[1], box[2])
<1>0. \A f : Rec(f) = [d \in Cells |-> [box \in Box |-> Back(f, d, box)]]
  BY DEF Sizes, KidBox
<1>1. base \in [Leaves -> V]
  <2>1. ASSUME NEW d \in Leaves, NEW box \in Box PROVE Leaf(d.pane, box[1], box[2]) \in AllCells
    <3>1. d.pane \in Nat /\ box[1] \in Nat /\ box[2] \in Nat
      BY LeafOrSplit
    <3>2. Leaf(d.pane, box[1], box[2]) \in Leaves
      BY <3>1 DEF Leaf, Leaves
    <3> QED
      BY <3>2, AllCellsAre
  <2> QED
    BY <2>1
<1>2. ASSUME NEW d \in AllCells, ~ IsLeaf(d), NEW box \in Box, NEW i \in DOMAIN d.kids
      PROVE  KidBox(d, box[1], box[2], i) \in Box
  BY <1>2, SizesAre DEF KidBox
<1>3. ASSUME NEW d \in SplitsOver(AllCells), NEW vs \in Seq(V), NEW box \in Box
      PROVE  Made(d, vs, box) \in AllCells
  <2>1. d \in AllCells /\ ~ IsLeaf(d)
    BY AllCellsAre, LeafOrSplit
  <2>2. DOMAIN d.kids = 1 .. Len(d.kids) /\ Len(d.kids) \in Nat /\ d.axis \in Axes
    BY <2>1, CellIs
  <2>3. \A i \in DOMAIN vs : vs[i] \in V
    OBVIOUS
  <2> DEFINE kid(i) == IF i \in DOMAIN vs THEN vs[i][KidBox(d, box[1], box[2], i)] ELSE d
  <2>4. \A i \in DOMAIN d.kids : kid(i) \in AllCells
    BY <1>2, <2>1, <2>3
  <2> HIDE DEF kid
  <2>5. [i \in 1 .. Len(d.kids) |-> kid(i)] \in Seq(AllCells)
    BY <2>2, <2>4
  <2>6. [i \in DOMAIN d.kids |-> kid(i)] \in Seq(AllCells)
    BY <2>2, <2>5
  <2>7. SplitCell(d.axis, [i \in DOMAIN d.kids |-> kid(i)], box[1], box[2]) \in SplitsOver(AllCells)
    BY <2>2, <2>6 DEF SplitCell, SplitsOver
  <2> QED
    BY <2>7, AllCellsAre DEF kid
<1>4. comb \in [SplitsOver(AllCells) \X Seq(V) -> V]
  <2> HIDE DEF Made
  <2> QED
    BY <1>3
<1>5. /\ \A d \in Leaves, box \in Box : base[d][box] = Leaf(d.pane, box[1], box[2])
      /\ \A d \in SplitsOver(AllCells), vs \in Seq(V), box \in Box :
            comb[d, vs][box] = Made(d, vs, box)
  <2> HIDE DEF Made
  <2> QED
    OBVIOUS
<1> HIDE DEF base, comb
<1>6. PICK F : F \in [Cells -> V] /\ \A d \in Cells : F[d] = Walked(F, base, comb, d)
  <2>1. MaxPanes \in Nat
    BY BoundsAssumption
  <2>2. \E F : Walks(F, CellsTo[MaxPanes], V, base, comb)
    <3> HIDE DEF V
    <3> QED
      BY <1>1, <1>4, <2>1, WalkExists
  <2> QED
    BY <2>2 DEF Walks, Cells
<1>7. ASSUME NEW d \in Cells, NEW box \in Box PROVE F[d][box] = Back(F, d, box)
  <2>1. d \in AllCells
    BY CellsAre
  <2>2. CASE IsLeaf(d)
    BY <1>5, <1>6, <2>1, <2>2, CellIs DEF Walked
  <2>3. CASE ~ IsLeaf(d)
    <3> DEFINE vs == [i \in DOMAIN d.kids |-> F[d.kids[i]]]
    <3>1. d \in SplitsOver(AllCells) /\ \A i \in DOMAIN d.kids : d.kids[i] \in Cells
      BY <2>1, <2>3, CellIs, CellsAre
    <3>2. vs \in Seq(V)
      <4>1. Len(d.kids) \in Nat /\ DOMAIN d.kids = 1 .. Len(d.kids)
        BY <2>1, <2>3, CellIs
      <4> HIDE DEF V
      <4>2. \A i \in 1 .. Len(d.kids) : F[d.kids[i]] \in V
        BY <1>6, <3>1, <4>1
      <4>3. [i \in 1 .. Len(d.kids) |-> F[d.kids[i]]] \in Seq(V)
        BY <4>1, <4>2
      <4> QED
        BY <4>1, <4>3
    <3>3. F[d] = comb[d, vs]
      BY <1>6, <2>3 DEF Walked
    <3>4. comb[d, vs][box] = Made(d, vs, box)
      <4> HIDE DEF vs, V, Box, Made
      <4> QED
        BY <1>5, <3>1, <3>2
    <3>5. Made(d, vs, box) = Back(F, d, box)
      BY <2>3
    <3> QED
      BY <3>3, <3>4, <3>5
  <2> QED
    BY <2>2, <2>3
<1>8. F = Rec(F)
  <2>1. F = [d \in Cells |-> [box \in Box |-> Back(F, d, box)]]
    <3> HIDE DEF Back, Box
    <3> QED
      BY <1>6, <1>7
  <2> HIDE DEF Rec, Back
  <2> QED
    BY <1>0, <2>1
<1> DEFINE P == CHOOSE f : f = Rec(f)
<1>9. P = Rec(P)
  <2> HIDE DEF Rec
  <2> QED
    BY <1>8
<1>10. \A d, x, y : Fit(d, x, y) = P[d][x, y]
  BY DEF Fit
<1>11. P = [d \in Cells |-> [box \in Box |-> Back(P, d, box)]]
  <2> HIDE DEF Rec, Back, P
  <2> QED
    BY <1>0, <1>9
<1> HIDE DEF P, Rec
<1>12. ASSUME NEW d \in Cells, NEW x \in Nat, NEW y \in Nat
       PROVE  /\ IsLeaf(d) => Fit(d, x, y) = Leaf(d.pane, x, y)
              /\ ~ IsLeaf(d) =>
                   Fit(d, x, y) =
                    SplitCell(d.axis,
                       [i \in DOMAIN d.kids |->
                          Fit(d.kids[i], KidBox(d, x, y, i)[1], KidBox(d, x, y, i)[2])], x, y)
  <2>1. <<x, y>> \in Box /\ <<x, y>>[1] = x /\ <<x, y>>[2] = y
    OBVIOUS
  <2>2. P[d][x, y] = Back(P, d, <<x, y>>)
    <3> HIDE DEF Back, Box
    <3>1. \A box \in Box : P[d][box] = Back(P, d, box)
      BY <1>11
    <3>2. P[d][<<x, y>>] = Back(P, d, <<x, y>>)
      BY <2>1, <3>1
    <3> QED
      BY <3>2
  <2>3. ASSUME ~ IsLeaf(d), NEW i \in DOMAIN d.kids
        PROVE  P[d.kids[i]][KidBox(d, x, y, i)]
                 = Fit(d.kids[i], KidBox(d, x, y, i)[1], KidBox(d, x, y, i)[2])
    <3>1. KidBox(d, x, y, i) = <<KidBox(d, x, y, i)[1], KidBox(d, x, y, i)[2]>>
      BY DEF KidBox
    <3> QED
      BY <1>10, <3>1
  <2>4. ~ IsLeaf(d) =>
          [i \in DOMAIN d.kids |-> P[d.kids[i]][KidBox(d, x, y, i)]]
            = [i \in DOMAIN d.kids |->
                 Fit(d.kids[i], KidBox(d, x, y, i)[1], KidBox(d, x, y, i)[2])]
    BY <2>3
  <2> QED
    BY <1>10, <2>1, <2>2, <2>4
<1> DEFINE T == {d \in AllCells : d \in Cells =>
                    \A x, y \in Nat : Fit(d, x, y) \in AllCells}
<1>13. Leaves \subseteq T
  <2>1. ASSUME NEW d \in Leaves, d \in Cells, NEW x \in Nat, NEW y \in Nat
        PROVE  Fit(d, x, y) \in AllCells
    <3>1. Fit(d, x, y) = Leaf(d.pane, x, y) /\ d.pane \in Nat
      BY <1>12, <2>1, LeafOrSplit
    <3>2. Leaf(d.pane, x, y) \in Leaves
      BY <3>1 DEF Leaf, Leaves
    <3> QED
      BY <3>1, <3>2, AllCellsAre
  <2> QED
    BY <2>1, AllCellsAre
<1>14. ASSUME NEW d \in SplitsOver(AllCells), \A i \in DOMAIN d.kids : d.kids[i] \in T
       PROVE  d \in T
  <2>1. d \in AllCells /\ ~ IsLeaf(d)
    BY AllCellsAre, LeafOrSplit
  <2> SUFFICES ASSUME d \in Cells, NEW x \in Nat, NEW y \in Nat
               PROVE  Fit(d, x, y) \in AllCells
    BY <2>1
  <2> DEFINE kid(i) == Fit(d.kids[i], KidBox(d, x, y, i)[1], KidBox(d, x, y, i)[2])
  <2>2. DOMAIN d.kids = 1 .. Len(d.kids) /\ Len(d.kids) \in Nat /\ d.axis \in Axes
    BY <2>1, CellIs
  <2>3. ASSUME NEW i \in DOMAIN d.kids PROVE kid(i) \in AllCells
    <3>1. KidBox(d, x, y, i)[1] \in Nat /\ KidBox(d, x, y, i)[2] \in Nat
      BY <2>1, SizesAre DEF KidBox
    <3>2. d.kids[i] \in Cells
      BY <2>1, CellsAre
    <3> QED
      BY <1>14, <3>1, <3>2
  <2> HIDE DEF kid
  <2>4. [i \in 1 .. Len(d.kids) |-> kid(i)] \in Seq(AllCells)
    BY <2>2, <2>3
  <2>5. [i \in DOMAIN d.kids |-> kid(i)] \in Seq(AllCells)
    BY <2>2, <2>4
  <2>6. SplitCell(d.axis, [i \in DOMAIN d.kids |-> kid(i)], x, y) \in SplitsOver(AllCells)
    BY <2>2, <2>5 DEF SplitCell, SplitsOver
  <2>7. Fit(d, x, y) = SplitCell(d.axis, [i \in DOMAIN d.kids |-> kid(i)], x, y)
    BY <1>12, <2>1 DEF kid
  <2> QED
    BY <2>6, <2>7, AllCellsAre
<1>15. AllCells \subseteq T
  <2> HIDE DEF T
  <2> QED
    BY <1>13, <1>14, TreeInduction
<1> QED
  BY <1>12, <1>15, CellsAre

-----------------------------------------------------------------------------
(* What holds of every split of a tree.                                    *)

AllPanes(c) == {d.pane : d \in {e \in AllParts(c) : IsLeaf(e)}}

\* The panes of a cell: a leaf's own, or those of the children.
LEMMA AllPanesAre ==
    ASSUME NEW c \in AllCells
    PROVE  /\ IsLeaf(c) => AllPanes(c) = {c.pane} /\ c.pane \in Nat
           /\ ~ IsLeaf(c) => AllPanes(c) = UNION {AllPanes(c.kids[i]) : i \in DOMAIN c.kids}
           /\ AllPanes(c) \subseteq Nat
           /\ \A d \in AllParts(c) : AllPanes(d) \subseteq AllPanes(c)
<1>1. IsLeaf(c) => AllPanes(c) = {c.pane} /\ c.pane \in Nat
  BY AllPartsAre, CellIs, LeafOrSplit DEF AllPanes
<1>2. ASSUME ~ IsLeaf(c)
      PROVE  AllPanes(c) = UNION {AllPanes(c.kids[i]) : i \in DOMAIN c.kids}
  <2>1. AllParts(c) = {c} \cup UNION {AllParts(c.kids[i]) : i \in DOMAIN c.kids}
    BY <1>2, AllPartsAre
  <2>2. \A e : e \in AllParts(c) /\ IsLeaf(e)
                <=> \E i \in DOMAIN c.kids : e \in AllParts(c.kids[i]) /\ IsLeaf(e)
    BY <1>2, <2>1
  <2> QED
    BY <2>2 DEF AllPanes
<1>3. AllPanes(c) \subseteq Nat
  <2> SUFFICES ASSUME NEW e \in AllParts(c), IsLeaf(e) PROVE e.pane \in Nat
    BY DEF AllPanes
  <2>1. e \in Leaves
    BY CellIs, AllPartsAre
  <2> QED
    BY <2>1, LeafOrSplit
<1>4. \A d \in AllParts(c) : AllPanes(d) \subseteq AllPanes(c)
  BY PartsWithin DEF AllPanes
<1> QED
  BY <1>1, <1>2, <1>3, <1>4

\* The operator Panes returns the panes.
LEMMA PanesIs ==
    ASSUME NEW c \in Cells
    PROVE  Panes(c) = AllPanes(c)
BY PartsIs DEF Panes, LeavesOf, AllPanes

\* All the splits of c are in S.
Every(c, S) == \A s \in AllParts(c) : ~ IsLeaf(s) => s \in S

\* What holds of all splits of a cell holds of it and of all splits of its children.
LEMMA EveryIs ==
    ASSUME NEW c \in AllCells, NEW S
    PROVE  /\ IsLeaf(c) => Every(c, S)
           /\ ~ IsLeaf(c) =>
                 (Every(c, S) <=> c \in S /\ \A i \in DOMAIN c.kids : Every(c.kids[i], S))
           /\ Every(c, S) => \A d \in AllParts(c) : Every(d, S)
<1>1. IsLeaf(c) => Every(c, S)
  BY AllPartsAre DEF Every
<1>2. ASSUME ~ IsLeaf(c)
      PROVE  Every(c, S) <=> c \in S /\ \A i \in DOMAIN c.kids : Every(c.kids[i], S)
  <2>1. AllParts(c) = {c} \cup UNION {AllParts(c.kids[i]) : i \in DOMAIN c.kids}
    BY <1>2, AllPartsAre
  <2> QED
    BY <1>2, <2>1 DEF Every
<1>3. Every(c, S) => \A d \in AllParts(c) : Every(d, S)
  BY PartsWithin DEF Every
<1> QED
  BY <1>1, <1>2, <1>3

\* A split of two children or more, no pane in two of them.
Shaped == {s \in AllCells :
             /\ ~ IsLeaf(s) /\ Len(s.kids) >= 2
             /\ \A i, j \in DOMAIN s.kids :
                   AllPanes(s.kids[i]) \cap AllPanes(s.kids[j]) # {} => i = j}

\* One whose children are all at the floor or over it, or have not been sized.
Fittable == {s \in Shaped :
               \/ \A i \in DOMAIN s.kids : Along(s.axis, s.kids[i]) >= PaneMin
               \/ \A i \in DOMAIN s.kids : Along(s.axis, s.kids[i]) = 0}

\* One as fit() leaves it, whatever the room.
Settled == {s \in Shaped : \A i \in DOMAIN s.kids :
               /\ Along(s.axis, s.kids[i]) >= PaneMin
               /\ Across(s.axis, s.kids[i]) = Across(s.axis, s)}

Filled == {s \in AllCells : FilledBy(s)}

\* What holds of all splits holds of them in a larger set.
LEMMA EveryGrows ==
    ASSUME NEW S, NEW U, S \subseteq U, NEW c, Every(c, S)
    PROVE  Every(c, U)
BY DEF Every

\* From the strongest to the weakest.
LEMMA SettledIs == Settled \subseteq Fittable /\ Fittable \subseteq Shaped
BY DEF Settled, Fittable

\* No cell is without a pane.
LEMMA SomePane ==
    ASSUME NEW c \in AllCells, Every(c, Shaped)
    PROVE  AllPanes(c) # {}
<1> DEFINE T == {d \in AllCells : Every(d, Shaped) => AllPanes(d) # {}}
<1>1. Leaves \subseteq T
  BY AllPanesAre, AllCellsAre, LeafOrSplit
<1>2. ASSUME NEW d \in SplitsOver(AllCells), \A i \in DOMAIN d.kids : d.kids[i] \in T
      PROVE  d \in T
  <2>1. d \in AllCells /\ ~ IsLeaf(d)
    BY AllCellsAre, LeafOrSplit
  <2> SUFFICES ASSUME Every(d, Shaped) PROVE AllPanes(d) # {}
    BY <2>1
  <2>2. Len(d.kids) >= 2 /\ Len(d.kids) \in Nat /\ DOMAIN d.kids = 1 .. Len(d.kids)
    BY <2>1, EveryIs, CellIs DEF Shaped
  <2>3. 1 \in DOMAIN d.kids
    BY <2>2
  <2>4. AllPanes(d.kids[1]) # {}
    BY <1>2, <2>1, <2>3, EveryIs
  <2> QED
    BY <2>1, <2>3, <2>4, AllPanesAre
<1>3. AllCells \subseteq T
  <2> HIDE DEF T
  <2> QED
    BY <1>1, <1>2, TreeInduction
<1> QED
  BY <1>3

\* What is below a split is smaller.
LEMMA ProperParts ==
    ASSUME NEW c \in AllCells, ~ IsLeaf(c), Every(c, Shaped),
           NEW i \in DOMAIN c.kids, NEW d \in AllParts(c.kids[i])
    PROVE  /\ d \in AllCells /\ AllPanes(d) \subseteq AllPanes(c.kids[i])
           /\ AllPanes(c.kids[i]) \subseteq AllPanes(c)
           /\ AllPanes(c.kids[i]) # AllPanes(c) /\ AllPanes(d) # AllPanes(c) /\ d # c
           /\ AllPanes(d) # {}
           /\ \A j \in DOMAIN c.kids : d \in AllParts(c.kids[j]) => j = i
<1>1. Len(c.kids) >= 2 /\ Len(c.kids) \in Nat /\ DOMAIN c.kids = 1 .. Len(c.kids)
  BY EveryIs, CellIs DEF Shaped
<1>2. \A j \in DOMAIN c.kids : c.kids[j] \in AllCells /\ Every(c.kids[j], Shaped)
  BY CellIs, EveryIs
<1>3. \A j \in DOMAIN c.kids : AllPanes(c.kids[j]) # {}
  BY <1>2, SomePane
<1>4. AllPanes(c) = UNION {AllPanes(c.kids[j]) : j \in DOMAIN c.kids}
  BY AllPanesAre
<1>5. PICK j \in DOMAIN c.kids : j # i
  <2>1. (IF i = 1 THEN 2 ELSE 1) \in DOMAIN c.kids
    BY <1>1
  <2> QED
    BY <2>1
<1>6. \A k, l \in DOMAIN c.kids : AllPanes(c.kids[k]) \cap AllPanes(c.kids[l]) # {} => k = l
  <2>1. c \in Shaped
    BY EveryIs
  <2> QED
    BY <2>1 DEF Shaped
<1>7. AllPanes(c.kids[i]) # AllPanes(c) /\ AllPanes(c.kids[i]) \subseteq AllPanes(c)
  BY <1>3, <1>4, <1>5, <1>6
<1>8. d \in AllCells /\ AllPanes(d) \subseteq AllPanes(c.kids[i])
  BY <1>2, AllPartsAre, AllPanesAre
<1>9. AllPanes(d) # AllPanes(c)
  BY <1>7, <1>8
<1>10. Every(d, Shaped)
  BY <1>2, EveryIs
<1>11. AllPanes(d) # {}
  BY <1>8, <1>10, SomePane
<1>12. ASSUME NEW k \in DOMAIN c.kids, d \in AllParts(c.kids[k]) PROVE k = i
  <2>1. AllPanes(d) \subseteq AllPanes(c.kids[k])
    BY <1>2, <1>12, AllPanesAre
  <2> QED
    BY <1>6, <1>8, <1>11, <2>1
<1> QED
  BY <1>7, <1>8, <1>9, <1>11, <1>12

\* A tree of few panes is not high.
LEMMA FewPanesAreLow ==
    ASSUME NEW c \in AllCells, Every(c, Shaped), AllPanes(c) \subseteq 0 .. MaxPanes
    PROVE  c \in Cells
<1> DEFINE Low(d) == \A n \in Nat : Cardinality(AllPanes(d)) <= n + 1 => d \in CellsTo[n]
           T == {d \in AllCells :
                   Every(d, Shaped) /\ AllPanes(d) \subseteq 0 .. MaxPanes => Low(d)}
<1>0. MaxPanes \in Nat
  BY BoundsAssumption
<1>1. Leaves \subseteq T
  <2>1. ASSUME NEW d \in Leaves, NEW n \in Nat PROVE d \in CellsTo[n]
    BY CellsToIs
  <2> QED
    BY <2>1, AllCellsAre
<1>2. IsFiniteSet(0 .. MaxPanes) /\ Cardinality(0 .. MaxPanes) = MaxPanes + 1
  BY <1>0, FS_Interval
<1>3. ASSUME NEW d \in SplitsOver(AllCells), \A i \in DOMAIN d.kids : d.kids[i] \in T
      PROVE  d \in T
  <2>1. d \in AllCells /\ ~ IsLeaf(d)
    BY AllCellsAre, LeafOrSplit
  <2> SUFFICES ASSUME Every(d, Shaped), AllPanes(d) \subseteq 0 .. MaxPanes,
                      NEW n \in Nat, Cardinality(AllPanes(d)) <= n + 1
               PROVE  d \in CellsTo[n]
    BY <2>1
  <2>2. IsFiniteSet(AllPanes(d)) /\ Cardinality(AllPanes(d)) \in Nat
    BY <1>2, FS_Subset, FS_CardinalityType
  <2>3. ASSUME NEW i \in DOMAIN d.kids
        PROVE  /\ AllPanes(d.kids[i]) \subseteq AllPanes(d)
               /\ Cardinality(AllPanes(d.kids[i])) \in Nat
               /\ Cardinality(AllPanes(d.kids[i])) > 0
               /\ Cardinality(AllPanes(d.kids[i])) < Cardinality(AllPanes(d))
    <3> DEFINE kid == d.kids[i]
    <3>1. kid \in AllCells /\ Every(kid, Shaped) /\ kid \in AllParts(kid)
      BY <2>1, CellIs, EveryIs, AllPartsAre
    <3>2. /\ AllPanes(kid) \subseteq AllPanes(d) /\ AllPanes(kid) # AllPanes(d)
          /\ AllPanes(kid) # {}
      BY <2>1, <3>1, ProperParts
    <3> HIDE DEF kid
    <3>3. IsFiniteSet(AllPanes(kid)) /\ Cardinality(AllPanes(kid)) \in Nat
      BY <2>2, <3>2, FS_Subset, FS_CardinalityType
    <3>4. Cardinality(AllPanes(kid)) # 0
      BY <3>2, <3>3, FS_EmptySet
    <3>5. Cardinality(AllPanes(kid)) < Cardinality(AllPanes(d))
      <4>1. /\ Cardinality(AllPanes(kid)) <= Cardinality(AllPanes(d))
            /\ Cardinality(AllPanes(d)) # Cardinality(AllPanes(kid))
        BY <2>2, <3>2, FS_Subset
      <4> QED
        BY <2>2, <3>3, <4>1
    <3> QED
      BY <3>2, <3>3, <3>4, <3>5 DEF kid
  <2>4. Len(d.kids) >= 2 /\ Len(d.kids) \in Nat /\ DOMAIN d.kids = 1 .. Len(d.kids)
    BY <2>1, EveryIs, CellIs DEF Shaped
  <2>5. n # 0 /\ n - 1 \in Nat
    <3>1. 1 \in DOMAIN d.kids
      BY <2>4
    <3>2. /\ Cardinality(AllPanes(d.kids[1])) \in Nat
          /\ Cardinality(AllPanes(d.kids[1])) > 0
          /\ Cardinality(AllPanes(d.kids[1])) < Cardinality(AllPanes(d))
      BY <2>3, <3>1
    <3> QED
      BY <2>2, <3>2
  <2>6. ASSUME NEW i \in DOMAIN d.kids PROVE d.kids[i] \in CellsTo[n - 1]
    <3>1. Every(d.kids[i], Shaped)
      BY <2>1, EveryIs
    <3>2. AllPanes(d.kids[i]) \subseteq 0 .. MaxPanes
      BY <2>3
    <3>3. Low(d.kids[i])
      BY <1>3, <3>1, <3>2
    <3>4. Cardinality(AllPanes(d.kids[i])) <= (n - 1) + 1
      BY <2>2, <2>3, <2>5
    <3> QED
      BY <2>5, <3>3, <3>4
  <2>7. d.kids \in Seq(CellsTo[n - 1])
    <3>1. d.kids \in Seq(AllCells)
      BY <2>1, CellIs
    <3> QED
      BY <2>4, <2>6, <3>1
  <2>8. d \in SplitsOver(CellsTo[n - 1])
    BY <2>7 DEF SplitsOver
  <2> QED
    BY <2>5, <2>8, CellsToIs
<1>4. AllCells \subseteq T
  <2> HIDE DEF T
  <2> QED
    BY <1>1, <1>3, TreeInduction
<1>5. Low(c)
  BY <1>4
<1>6. Cardinality(AllPanes(c)) <= MaxPanes + 1
  BY <1>2, FS_Subset
<1> QED
  BY <1>0, <1>5, <1>6 DEF Cells

-----------------------------------------------------------------------------
(* What fit() keeps and gives.                                             *)

\* The fields of a split just made.
LEMMA SplitCellIs ==
    ASSUME NEW axis \in Axes, NEW kids \in Seq(AllCells), NEW w \in Nat, NEW h \in Nat
    PROVE  LET s == SplitCell(axis, kids, w, h) IN
           /\ s \in AllCells /\ ~ IsLeaf(s)
           /\ s.axis = axis /\ s.kids = kids /\ s.w = w /\ s.h = h
<1>1. SplitCell(axis, kids, w, h) \in SplitsOver(AllCells)
  BY DEF SplitCell, SplitsOver
<1> QED
  BY <1>1, AllCellsAre, LeafOrSplit DEF SplitCell

\* The fields of a leaf just made.
LEMMA LeafIs ==
    ASSUME NEW p \in Nat, NEW w \in Nat, NEW h \in Nat
    PROVE  LET l == Leaf(p, w, h) IN
           /\ l \in AllCells /\ l \in Leaves /\ IsLeaf(l)
           /\ l.pane = p /\ l.w = w /\ l.h = h
<1>1. Leaf(p, w, h) \in Leaves
  BY DEF Leaf, Leaves
<1> QED
  BY <1>1, AllCellsAre, LeafOrSplit DEF Leaf

\* Nothing but zeros adds up to zero.
LEMMA SumOfNothing ==
    ASSUME NEW s \in Seq(Nat), \A i \in 1 .. Len(s) : s[i] = 0
    PROVE  Total(s) = 0
<1> DEFINE T == {k \in Nat : k <= Len(s) => SumTo(s, k) = 0}
<1>1. 0 \in T
  BY SumIs
<1>2. ASSUME NEW k \in Nat, k \in T PROVE k + 1 \in T
  <2> SUFFICES ASSUME k + 1 <= Len(s) PROVE SumTo(s, k + 1) = 0
    OBVIOUS
  <2>1. k + 1 \in 1 .. Len(s) /\ (k + 1) - 1 = k /\ s[k + 1] = 0 /\ SumTo(s, k) = 0
    BY <1>2
  <2>2. SumTo(s, k + 1) = SumTo(s, k) + s[k + 1]
    BY <2>1, SumIs
  <2> QED
    BY <2>1, <2>2
<1>3. Nat \subseteq T
  <2> HIDE DEF T
  <2> QED
    BY <1>1, <1>2, Climb
<1> QED
  BY <1>3 DEF Total

\* The children of the fitted split, with their sizes.
LEMMA FitKids ==
    ASSUME NEW c \in Cells, ~ IsLeaf(c), NEW w \in Nat, NEW h \in Nat
    PROVE  LET r == Fit(c, w, h) IN
           /\ r \in AllCells /\ ~ IsLeaf(r) /\ r.axis = c.axis /\ r.w = w /\ r.h = h
           /\ Len(r.kids) = Len(c.kids) /\ DOMAIN r.kids = DOMAIN c.kids
           /\ \A i \in DOMAIN c.kids :
                 /\ KidBox(c, w, h, i)[1] \in Nat /\ KidBox(c, w, h, i)[2] \in Nat
                 /\ r.kids[i] = Fit(c.kids[i], KidBox(c, w, h, i)[1], KidBox(c, w, h, i)[2])
<1> DEFINE ks == [i \in DOMAIN c.kids |->
                    Fit(c.kids[i], KidBox(c, w, h, i)[1], KidBox(c, w, h, i)[2])]
<1>1. /\ c \in AllCells /\ c.axis \in Axes
      /\ DOMAIN c.kids = 1 .. Len(c.kids) /\ Len(c.kids) \in Nat
      /\ \A i \in DOMAIN c.kids : c.kids[i] \in Cells
  BY CellsAre, CellIs
<1>2. \A i \in DOMAIN c.kids : KidBox(c, w, h, i)[1] \in Nat /\ KidBox(c, w, h, i)[2] \in Nat
  BY <1>1, SizesAre DEF KidBox
<1>3. \A i \in DOMAIN c.kids : ks[i] \in AllCells
  BY <1>1, <1>2, FitIs
<1>4. Fit(c, w, h) = SplitCell(c.axis, ks, w, h)
  BY FitIs
<1>5. DOMAIN ks = DOMAIN c.kids
      /\ \A i \in DOMAIN c.kids :
            ks[i] = Fit(c.kids[i], KidBox(c, w, h, i)[1], KidBox(c, w, h, i)[2])
  OBVIOUS
<1> HIDE DEF ks
<1>6. ks \in Seq(AllCells) /\ Len(ks) = Len(c.kids)
  <2>1. [i \in 1 .. Len(c.kids) |-> ks[i]] \in Seq(AllCells)
    BY <1>1, <1>3
  <2>2. ks = [i \in 1 .. Len(c.kids) |-> ks[i]]
    <3>1. ks = [i \in DOMAIN c.kids |-> ks[i]]
      BY DEF ks
    <3> QED
      BY <1>1, <3>1
  <2> QED
    BY <1>1, <2>1, <2>2
<1> QED
  BY <1>1, <1>2, <1>4, <1>5, <1>6, SplitCellIs

\* Fitting changes sizes only, and leaves every split settled.
LEMMA FitSettles ==
    ASSUME NEW c \in Cells, Every(c, Fittable), NEW w \in Nat, NEW h \in Nat
    PROVE  LET r == Fit(c, w, h) IN
           /\ r \in AllCells /\ r.w = w /\ r.h = h
           /\ AllPanes(r) = AllPanes(c) /\ Every(r, Settled)
<1> DEFINE Good(d, x, y) ==
              LET r == Fit(d, x, y) IN
              /\ r \in AllCells /\ r.w = x /\ r.h = y
              /\ AllPanes(r) = AllPanes(d) /\ Every(r, Settled)
           T == {d \in AllCells :
                   d \in Cells /\ Every(d, Fittable) => \A x, y \in Nat : Good(d, x, y)}
<1>1. Leaves \subseteq T
  <2> SUFFICES ASSUME NEW d \in Leaves, d \in Cells, NEW x \in Nat, NEW y \in Nat
               PROVE  Good(d, x, y)
    BY AllCellsAre
  <2>1. d \in AllCells /\ IsLeaf(d) /\ d.pane \in Nat
    BY AllCellsAre, LeafOrSplit
  <2>2. Fit(d, x, y) = Leaf(d.pane, x, y)
    BY <2>1, FitIs
  <2> DEFINE l == Leaf(d.pane, x, y)
  <2>3. l \in AllCells /\ IsLeaf(l) /\ l.pane = d.pane /\ l.w = x /\ l.h = y
    BY <2>1, LeafIs
  <2> HIDE DEF l
  <2>4. AllPanes(l) = {l.pane} /\ Every(l, Settled)
    BY <2>3, AllPanesAre, EveryIs
  <2>5. AllPanes(d) = {d.pane}
    BY <2>1, AllPanesAre
  <2>6. Fit(d, x, y) = l
    BY <2>2 DEF l
  <2> QED
    BY <2>3, <2>4, <2>5, <2>6
<1>2. ASSUME NEW d \in SplitsOver(AllCells), \A i \in DOMAIN d.kids : d.kids[i] \in T
      PROVE  d \in T
  <2>1. d \in AllCells /\ ~ IsLeaf(d)
    BY AllCellsAre, LeafOrSplit
  <2> SUFFICES ASSUME d \in Cells, Every(d, Fittable), NEW x \in Nat, NEW y \in Nat
               PROVE  Good(d, x, y)
    BY <2>1
  <2> DEFINE r == Fit(d, x, y)
             box(i) == KidBox(d, x, y, i)
             sizes == Sizes(d, x, y)
  <2>2. /\ r \in AllCells /\ ~ IsLeaf(r) /\ r.axis = d.axis /\ r.w = x /\ r.h = y
        /\ Len(r.kids) = Len(d.kids) /\ DOMAIN r.kids = DOMAIN d.kids
        /\ \A i \in DOMAIN d.kids :
              /\ box(i)[1] \in Nat /\ box(i)[2] \in Nat
              /\ r.kids[i] = Fit(d.kids[i], box(i)[1], box(i)[2])
    BY <2>1, FitKids
  <2>3. d \in Fittable /\ \A i \in DOMAIN d.kids : Every(d.kids[i], Fittable)
    BY <2>1, EveryIs
  <2>4. \A i \in DOMAIN d.kids : d.kids[i] \in Cells
    BY <2>1, CellsAre
  <2> HIDE DEF r, box, Good
  <2>5. ASSUME NEW i \in DOMAIN d.kids PROVE Good(d.kids[i], box(i)[1], box(i)[2])
    BY <1>2, <2>2, <2>3, <2>4
  <2>6. ASSUME NEW i \in DOMAIN d.kids
        PROVE  /\ r.kids[i].w = box(i)[1] /\ r.kids[i].h = box(i)[2]
               /\ AllPanes(r.kids[i]) = AllPanes(d.kids[i]) /\ Every(r.kids[i], Settled)
    BY <2>2, <2>5 DEF Good
  <2>7. DOMAIN d.kids = 1 .. Len(d.kids) /\ Len(d.kids) \in Nat
    BY <2>1, CellIs
  <2>8. ASSUME NEW i \in DOMAIN d.kids PROVE sizes[i] >= PaneMin
    <3>1. Extents(d) \in Seq(Nat) /\ Len(Extents(d)) = Len(d.kids)
      BY <2>1, ExtentsAre
    <3>2. Total(Extents(d)) = 0 \/ \A j \in 1 .. Len(Extents(d)) : Extents(d)[j] >= PaneMin
      <4>1. CASE \A j \in DOMAIN d.kids : Along(d.axis, d.kids[j]) >= PaneMin
        BY <2>1, <2>7, <3>1, <4>1, ExtentsAre
      <4>2. CASE \A j \in DOMAIN d.kids : Along(d.axis, d.kids[j]) = 0
        <5>1. \A j \in 1 .. Len(Extents(d)) : Extents(d)[j] = 0
          BY <2>1, <2>7, <3>1, <4>2, ExtentsAre
        <5> QED
          BY <3>1, <5>1, SumOfNothing
      <4> QED
        BY <2>3, <4>1, <4>2 DEF Fittable
    <3>3. Room(d.axis, Len(d.kids), x, y) \in Nat
      BY <2>1, SizesAre
    <3> QED
      BY <2>7, <3>1, <3>2, <3>3, DistributeIs DEF Sizes
  <2>9. r \in Settled
    <3>1. ASSUME NEW i \in DOMAIN r.kids
          PROVE  /\ Along(r.axis, r.kids[i]) >= PaneMin
                 /\ Across(r.axis, r.kids[i]) = Across(r.axis, r)
      <4>1. i \in DOMAIN d.kids
        BY <2>2
      <4>2. d.axis = "horizontal" => box(i)[1] = sizes[i] /\ box(i)[2] = y
        BY DEF KidBox, box
      <4>3. d.axis # "horizontal" => box(i)[1] = x /\ box(i)[2] = sizes[i]
        BY DEF KidBox, box
      <4> HIDE DEF sizes
      <4> QED
        BY <2>2, <2>6, <2>8, <4>1, <4>2, <4>3 DEF Along, Across
    <3>2. d \in Shaped
      BY <2>3, SettledIs
    <3>3. Len(r.kids) >= 2
      BY <2>2, <3>2 DEF Shaped
    <3>4. \A i, j \in DOMAIN r.kids : AllPanes(r.kids[i]) \cap AllPanes(r.kids[j]) # {} => i = j
      BY <2>2, <2>6, <3>2 DEF Shaped
    <3>5. r \in Shaped
      BY <2>2, <3>3, <3>4 DEF Shaped
    <3> QED
      BY <3>1, <3>5 DEF Settled
  <2>10. Every(r, Settled)
    BY <2>2, <2>6, <2>9, EveryIs
  <2>11. AllPanes(r) = AllPanes(d)
    <3>1. AllPanes(r) = UNION {AllPanes(r.kids[i]) : i \in DOMAIN r.kids}
      BY <2>2, AllPanesAre
    <3>2. AllPanes(d) = UNION {AllPanes(d.kids[i]) : i \in DOMAIN d.kids}
      BY <2>1, AllPanesAre
    <3> QED
      BY <2>2, <2>6, <3>1, <3>2
  <2> QED
    BY <2>2, <2>10, <2>11 DEF Good, r
<1>3. AllCells \subseteq T
  <2> HIDE DEF T
  <2> QED
    BY <1>1, <1>2, TreeInduction
<1>4. Good(c, w, h)
  BY <1>3, CellsAre
<1> QED
  BY <1>4

\* A filled tree that is given more room is filled again.
LEMMA FitFills ==
    ASSUME NEW c \in Cells, Every(c, Settled), Every(c, Filled),
           NEW w \in Nat, NEW h \in Nat, w >= c.w, h >= c.h
    PROVE  Every(Fit(c, w, h), Filled)
<1> DEFINE Good(d) == \A x, y \in Nat : x >= d.w /\ y >= d.h => Every(Fit(d, x, y), Filled)
           T == {d \in AllCells :
                   d \in Cells /\ Every(d, Settled) /\ Every(d, Filled) => Good(d)}
<1>1. Leaves \subseteq T
  <2> SUFFICES ASSUME NEW d \in Leaves, d \in Cells, NEW x \in Nat, NEW y \in Nat
               PROVE  Every(Fit(d, x, y), Filled)
    BY AllCellsAre
  <2>1. Fit(d, x, y) = Leaf(d.pane, x, y) /\ d.pane \in Nat
    BY FitIs, LeafOrSplit
  <2> QED
    BY <2>1, LeafIs, EveryIs
<1>2. ASSUME NEW d \in SplitsOver(AllCells), \A i \in DOMAIN d.kids : d.kids[i] \in T
      PROVE  d \in T
  <2>1. d \in AllCells /\ ~ IsLeaf(d)
    BY AllCellsAre, LeafOrSplit
  <2> SUFFICES ASSUME d \in Cells, Every(d, Settled), Every(d, Filled),
                      NEW x \in Nat, NEW y \in Nat, x >= d.w, y >= d.h
               PROVE  Every(Fit(d, x, y), Filled)
    BY <2>1
  <2> DEFINE r == Fit(d, x, y)
             box(i) == KidBox(d, x, y, i)
             sizes == Sizes(d, x, y)
             n == Len(d.kids)
             side == IF d.axis = "horizontal" THEN x ELSE y
             room == Room(d.axis, n, x, y)
  <2>2. /\ r \in AllCells /\ ~ IsLeaf(r) /\ r.axis = d.axis /\ r.w = x /\ r.h = y
        /\ Len(r.kids) = n /\ DOMAIN r.kids = DOMAIN d.kids
        /\ \A i \in DOMAIN d.kids :
              /\ box(i)[1] \in Nat /\ box(i)[2] \in Nat
              /\ r.kids[i] = Fit(d.kids[i], box(i)[1], box(i)[2])
    BY <2>1, FitKids
  <2>3. /\ d \in Settled /\ d \in Filled /\ d \in Shaped
        /\ \A i \in DOMAIN d.kids : Every(d.kids[i], Settled) /\ Every(d.kids[i], Filled)
    BY <2>1, EveryIs, SettledIs
  <2>4. /\ \A i \in DOMAIN d.kids : d.kids[i] \in Cells /\ d.kids[i] \in AllCells
        /\ d.axis \in Axes /\ DOMAIN d.kids = 1 .. n /\ n \in Nat /\ d.w \in Nat /\ d.h \in Nat
    BY <2>1, CellsAre, CellIs
  <2>5. n >= 2
    BY <2>3 DEF Shaped
  <2> HIDE DEF r
  <2>6. ASSUME NEW i \in DOMAIN d.kids
        PROVE  r.kids[i].w = box(i)[1] /\ r.kids[i].h = box(i)[2]
    <3>1. Every(d.kids[i], Fittable)
      BY <2>3, SettledIs, EveryGrows
    <3> HIDE DEF box
    <3> QED
      BY <2>2, <2>4, <3>1, FitSettles
  <2>7. /\ Extents(d) \in Seq(Nat) /\ Len(Extents(d)) = n
        /\ \A i \in 1 .. n : Extents(d)[i] = Along(d.axis, d.kids[i]) /\ Extents(d)[i] \in Nat
    BY <2>1, <2>4, ExtentsAre
  <2>8. \A i \in 1 .. n : Extents(d)[i] >= PaneMin
    <3>1. \A i \in DOMAIN d.kids : Along(d.axis, d.kids[i]) >= PaneMin
      BY <2>3 DEF Settled
    <3> QED
      BY <2>4, <2>7, <3>1
  <2>9. Total(Extents(d)) \in Nat /\ Total(Extents(d)) > 0
    <3>1. 1 \in 1 .. n /\ n \in 0 .. n
      BY <2>4, <2>5
    <3>2. Extents(d)[1] > 0
      BY <2>7, <2>8, <3>1 DEF PaneMin
    <3>3. Total(Extents(d)) > 0
      BY <2>7, <3>1, <3>2, SumIsPositive
    <3> QED
      BY <2>7, <3>1, <3>3, SumIs DEF Total
  <2>10. Total(Extents(d)) + n - 1 = Along(d.axis, d)
    BY <2>3 DEF Filled, FilledBy
  <2>11. room = side - (n - 1) /\ Total(Extents(d)) <= room /\ room \in Nat
    <3>1. Along(d.axis, d) <= side /\ side \in Nat /\ Along(d.axis, d) \in Nat
      BY <2>4 DEF Along
    <3>2. room = Larger(side - (n - 1), 0)
      BY DEF Room
    <3> HIDE DEF n, side, room
    <3> DEFINE total == Total(Extents(d))
               along == Along(d.axis, d)
    <3>3. total \in Nat /\ total > 0 /\ total + n - 1 = along /\ n >= 2 /\ n \in Nat
      BY <2>4, <2>5, <2>9, <2>10
    <3> HIDE DEF total, along
    <3>4. along <= side /\ side \in Nat /\ along \in Nat
      BY <3>1 DEF along
    <3>5. room = side - (n - 1) /\ total <= room /\ room \in Nat
      BY <3>2, <3>3, <3>4 DEF Larger
    <3> QED
      BY <3>5 DEF total
  <2>12. /\ sizes \in Seq(Nat) /\ Len(sizes) = n /\ Total(sizes) = room
         /\ \A i \in 1 .. n : sizes[i] >= Extents(d)[i]
    <3> HIDE DEF room
    <3>1. sizes = Distribute(Extents(d), room)
      BY DEF Sizes, room
    <3> HIDE DEF sizes, n
    <3>2. Total(Extents(d)) # 0
      BY <2>9
    <3> QED
      BY <2>7, <2>11, <3>1, <3>2, DistributeIs
  <2>13. ASSUME NEW i \in DOMAIN d.kids
         PROVE  /\ Along(d.axis, r.kids[i]) = sizes[i]
                /\ Across(d.axis, r.kids[i]) = Across(r.axis, r)
    <3>1. d.axis = "horizontal" => box(i)[1] = sizes[i] /\ box(i)[2] = y
      BY DEF KidBox
    <3>2. d.axis # "horizontal" => box(i)[1] = x /\ box(i)[2] = sizes[i]
      BY DEF KidBox
    <3> HIDE DEF sizes, box
    <3> QED
      BY <2>2, <2>6, <3>1, <3>2 DEF Along, Across
  <2>14. r \in Filled
    <3>1. Extents(r) \in Seq(Nat) /\ Len(Extents(r)) = n
          /\ \A i \in 1 .. n : Extents(r)[i] = Along(d.axis, r.kids[i])
      BY <2>2, <2>4, ExtentsAre
    <3>2. Total(Extents(r)) = Total(sizes)
      <4> HIDE DEF sizes, n
      <4>1. \A i \in 1 .. n : Extents(r)[i] = sizes[i]
        BY <2>4, <2>13, <3>1
      <4>2. SumTo(Extents(r), n) = SumTo(sizes, n)
        <5> DEFINE e == Extents(r)
        <5>1. e \in Seq(Nat) /\ n <= Len(e) /\ \A i \in 1 .. n : e[i] = sizes[i]
          BY <2>4, <3>1, <4>1
        <5>2. sizes \in Seq(Nat) /\ n <= Len(sizes)
          BY <2>4, <2>12
        <5> HIDE DEF e
        <5>3. SumTo(e, n) = SumTo(sizes, n)
          BY <2>4, <5>1, <5>2, SumsAgree
        <5> QED
          BY <5>3 DEF e
      <4> QED
        BY <2>12, <3>1, <4>2 DEF Total
    <3>3. Along(r.axis, r) = side
      BY <2>2 DEF Along
    <3>4. Total(Extents(r)) + Len(r.kids) - 1 = Along(r.axis, r)
      <4> HIDE DEF sizes, n, side, room
      <4>1. side \in Nat
        BY DEF side
      <4> QED
        BY <2>2, <2>4, <2>11, <2>12, <3>2, <3>3, <4>1
    <3>5. \A i \in DOMAIN r.kids : Across(r.axis, r.kids[i]) = Across(r.axis, r)
      BY <2>2, <2>13
    <3> QED
      BY <2>2, <3>4, <3>5 DEF Filled, FilledBy
  <2>15. ASSUME NEW i \in DOMAIN d.kids PROVE Every(r.kids[i], Filled)
    <3>1. box(i)[1] >= d.kids[i].w /\ box(i)[2] >= d.kids[i].h
      <4>1. Across(d.axis, d.kids[i]) = Across(d.axis, d)
        BY <2>3 DEF Settled
      <4>2. sizes[i] >= Along(d.axis, d.kids[i])
        BY <2>4, <2>7, <2>12
      <4>3. CASE d.axis = "horizontal"
        <5>1. box(i)[1] = sizes[i] /\ box(i)[2] = y
          BY <4>3 DEF KidBox
        <5> QED
          BY <4>1, <4>2, <4>3, <5>1 DEF Along, Across
      <4>4. CASE d.axis # "horizontal"
        <5>1. box(i)[1] = x /\ box(i)[2] = sizes[i]
          BY <4>4 DEF KidBox
        <5> QED
          BY <4>1, <4>2, <4>4, <5>1 DEF Along, Across
      <4> QED
        BY <4>3, <4>4
    <3>2. Good(d.kids[i])
      BY <1>2, <2>3, <2>4
    <3> QED
      BY <2>2, <3>1, <3>2
  <2> QED
    BY <2>2, <2>14, <2>15, EveryIs DEF r
<1>3. AllCells \subseteq T
  <2> HIDE DEF T
  <2> QED
    BY <1>1, <1>2, TreeInduction
<1>4. Good(c)
  BY <1>3, CellsAre
<1> QED
  BY <1>4

\* Only its own size is changed by Sized, and no fit looks at that.
LEMMA SizedIs ==
    ASSUME NEW c \in Cells, NEW axis \in Axes, NEW n \in Nat
    PROVE  LET d == Sized(c, axis, n) IN
           /\ d \in Cells /\ d \in AllCells /\ (IsLeaf(d) <=> IsLeaf(c))
           /\ Along(axis, d) = n /\ Across(axis, d) = Across(axis, c)
           /\ IsLeaf(c) => d.pane = c.pane
           /\ ~ IsLeaf(c) => d.axis = c.axis /\ d.kids = c.kids
           /\ \A w, h \in Nat : Fit(d, w, h) = Fit(c, w, h)
<1> DEFINE d == Sized(c, axis, n)
<1>0. MaxPanes \in Nat /\ MaxPanes # 0
  BY BoundsAssumption
<1>1. Cells = Leaves \cup SplitsOver(CellsTo[MaxPanes - 1])
  BY <1>0, CellsToIs DEF Cells
<1>2. c \in Leaves => d \in Leaves /\ d.pane = c.pane
  BY DEF Sized, Leaves
<1>3. c \in SplitsOver(CellsTo[MaxPanes - 1]) =>
        d \in SplitsOver(CellsTo[MaxPanes - 1]) /\ d.axis = c.axis /\ d.kids = c.kids
  BY DEF Sized, SplitsOver
<1>4. /\ d \in Cells /\ d \in AllCells /\ (IsLeaf(d) <=> IsLeaf(c))
      /\ (IsLeaf(c) => d.pane = c.pane)
      /\ (~ IsLeaf(c) => d.axis = c.axis /\ d.kids = c.kids)
  BY <1>1, <1>2, <1>3, LeafOrSplit, CellsAre
<1>5. Along(axis, d) = n /\ Across(axis, d) = Across(axis, c)
  <2>1. c \in Leaves => Along(axis, d) = n /\ Across(axis, d) = Across(axis, c)
    BY DEF Sized, Leaves, Along, Across
  <2>2. c \in SplitsOver(CellsTo[MaxPanes - 1]) =>
          Along(axis, d) = n /\ Across(axis, d) = Across(axis, c)
    BY DEF Sized, SplitsOver, Along, Across
  <2> QED
    BY <1>1, <2>1, <2>2
<1> HIDE DEF d
<1>6. ASSUME NEW w \in Nat, NEW h \in Nat PROVE Fit(d, w, h) = Fit(c, w, h)
  <2>1. CASE IsLeaf(c)
    <3>1. IsLeaf(d) /\ d.pane = c.pane /\ d \in Cells
      BY <1>4, <2>1
    <3>2. Fit(d, w, h) = Leaf(d.pane, w, h)
      BY <3>1, FitIs
    <3>3. Fit(c, w, h) = Leaf(c.pane, w, h)
      BY <2>1, FitIs
    <3> QED
      BY <3>1, <3>2, <3>3
  <2>2. CASE ~ IsLeaf(c)
    <3>1. \A i \in DOMAIN c.kids : KidBox(d, w, h, i) = KidBox(c, w, h, i)
      BY <1>4, <2>2 DEF KidBox, Sizes, Extents
    <3>2. ~ IsLeaf(d) /\ d.axis = c.axis /\ d.kids = c.kids /\ d \in Cells
      BY <1>4, <2>2
    <3> DEFINE kids(e) == [i \in DOMAIN e.kids |->
                             Fit(e.kids[i], KidBox(e, w, h, i)[1], KidBox(e, w, h, i)[2])]
    <3>3. Fit(d, w, h) = SplitCell(d.axis, kids(d), w, h)
      BY <3>2, FitIs
    <3>4. Fit(c, w, h) = SplitCell(c.axis, kids(c), w, h)
      BY <2>2, FitIs
    <3>5. kids(d) = kids(c)
      BY <3>1, <3>2
    <3> QED
      BY <3>2, <3>3, <3>4, <3>5
  <2> QED
    BY <2>1, <2>2
<1> QED
  BY <1>4, <1>5, <1>6 DEF d

-----------------------------------------------------------------------------
(* Putting a cell in the place of another.                                 *)

\* Put returns a cell, the same one if the cell to replace is not in it.
LEMMA PutType ==
    ASSUME NEW old \in AllCells, NEW new \in AllCells, NEW c \in Cells
    PROVE  /\ Put(c, old, new) \in AllCells
           /\ old \notin AllParts(c) => Put(c, old, new) = c
<1> DEFINE Good(d) == /\ Put(d, old, new) \in AllCells
                      /\ old \notin AllParts(d) => Put(d, old, new) = d
           T == {d \in AllCells : d \in Cells => Good(d)}
<1>1. Leaves \subseteq T
  <2> SUFFICES ASSUME NEW d \in Leaves, d \in Cells PROVE Good(d)
    BY AllCellsAre
  <2>1. d \in AllCells /\ IsLeaf(d) /\ d \in AllParts(d)
    BY AllCellsAre, LeafOrSplit, AllPartsAre
  <2> QED
    BY <2>1, PutIs
<1>2. ASSUME NEW d \in SplitsOver(AllCells), \A i \in DOMAIN d.kids : d.kids[i] \in T
      PROVE  d \in T
  <2>1. d \in AllCells /\ ~ IsLeaf(d) /\ d \in AllParts(d)
    BY AllCellsAre, LeafOrSplit, AllPartsAre
  <2> SUFFICES ASSUME d \in Cells PROVE Good(d)
    BY <2>1
  <2>2. CASE d = old
    BY <2>1, <2>2, PutIs
  <2>3. CASE d # old
    <3> DEFINE ks == [i \in DOMAIN d.kids |-> Put(d.kids[i], old, new)]
    <3>1. Put(d, old, new) = [d EXCEPT !.kids = ks]
      BY <2>1, <2>3, PutIs
    <3>2. DOMAIN d.kids = 1 .. Len(d.kids) /\ Len(d.kids) \in Nat
      BY <2>1, CellIs
    <3>3. \A i \in DOMAIN d.kids : Good(d.kids[i])
      BY <1>2, <2>1, CellsAre
    <3>4. ks \in Seq(AllCells)
      <4>1. \A i \in 1 .. Len(d.kids) : Put(d.kids[i], old, new) \in AllCells
        BY <3>2, <3>3
      <4>2. [i \in 1 .. Len(d.kids) |-> Put(d.kids[i], old, new)] \in Seq(AllCells)
        BY <3>2, <4>1
      <4> QED
        BY <3>2, <4>2
    <3>5. old \notin AllParts(d) => ks = d.kids
      <4> SUFFICES ASSUME old \notin AllParts(d) PROVE ks = d.kids
        OBVIOUS
      <4>1. \A i \in DOMAIN d.kids : old \notin AllParts(d.kids[i])
        BY <2>1, AllPartsAre
      <4>2. \A i \in DOMAIN d.kids : Put(d.kids[i], old, new) = d.kids[i]
        BY <3>3, <4>1
      <4>3. d.kids = [i \in DOMAIN d.kids |-> d.kids[i]]
        <5>1. d.kids \in Seq(AllCells)
          BY <2>1, CellIs
        <5> QED
          BY <5>1
      <4> QED
        BY <4>2, <4>3
    <3> HIDE DEF ks
    <3>6. [d EXCEPT !.kids = ks] \in SplitsOver(AllCells)
      BY <3>4 DEF SplitsOver
    <3>7. [d EXCEPT !.kids = d.kids] = d
      BY DEF SplitsOver
    <3> QED
      BY <3>1, <3>5, <3>6, <3>7, AllCellsAre
  <2> QED
    BY <2>2, <2>3
<1>3. AllCells \subseteq T
  <2> HIDE DEF T
  <2> QED
    BY <1>1, <1>2, TreeInduction
<1> QED
  BY <1>3, CellsAre

\* Put in a split that is not replaced itself goes through to its children.
LEMMA PutKids ==
    ASSUME NEW old \in AllCells, NEW new \in AllCells, NEW c \in Cells, ~ IsLeaf(c), c # old
    PROVE  LET r == Put(c, old, new) IN
           /\ r \in AllCells /\ ~ IsLeaf(r) /\ r.axis = c.axis /\ r.w = c.w /\ r.h = c.h
           /\ Len(r.kids) = Len(c.kids) /\ DOMAIN r.kids = DOMAIN c.kids
           /\ \A i \in DOMAIN c.kids : r.kids[i] = Put(c.kids[i], old, new)
<1> DEFINE r == Put(c, old, new)
           ks == [i \in DOMAIN c.kids |-> Put(c.kids[i], old, new)]
<1>1. c \in AllCells /\ c \in SplitsOver(AllCells)
  BY CellsAre, CellIs
<1>2. r = [c EXCEPT !.kids = ks]
  BY PutIs
<1>3. r \in AllCells
  BY PutType
<1>4. DOMAIN ks = DOMAIN c.kids /\ \A i \in DOMAIN c.kids : ks[i] = Put(c.kids[i], old, new)
  OBVIOUS
<1> HIDE DEF ks, r
<1>5. r.axis = c.axis /\ r.kids = ks /\ r.w = c.w /\ r.h = c.h /\ ~ IsLeaf(r)
  BY <1>1, <1>2 DEF SplitsOver, IsLeaf
<1>6. Len(r.kids) = Len(c.kids)
  <2>1. DOMAIN r.kids = 1 .. Len(r.kids) /\ Len(r.kids) \in Nat
    BY <1>3, <1>5, CellIs
  <2>2. DOMAIN c.kids = 1 .. Len(c.kids) /\ Len(c.kids) \in Nat
    BY <1>1, CellIs
  <2>3. DOMAIN r.kids = DOMAIN c.kids
    BY <1>4, <1>5
  <2> DEFINE a == Len(r.kids)
             b == Len(c.kids)
  <2>4. a \in Nat /\ b \in Nat /\ 1 .. a = 1 .. b
    BY <2>1, <2>2, <2>3
  <2> HIDE DEF a, b
  <2>5. a = b
    BY <2>4
  <2> QED
    BY <2>5 DEF a, b
<1> QED
  BY <1>3, <1>4, <1>5, <1>6 DEF r

\* A settled cell of the same size and with no pane of the others can take the
\* place of any part of a settled tree.
LEMMA PutSettles ==
    ASSUME NEW c \in Cells, Every(c, Settled), NEW old \in AllParts(c),
           NEW new \in AllCells, Every(new, Settled), new.w = old.w, new.h = old.h,
           AllPanes(new) \cap (AllPanes(c) \ AllPanes(old)) = {}
    PROVE  LET r == Put(c, old, new) IN
           /\ r \in AllCells /\ r.w = c.w /\ r.h = c.h
           /\ AllPanes(r) = (AllPanes(c) \ AllPanes(old)) \cup AllPanes(new)
           /\ Every(r, Settled) /\ new \in AllParts(r)
           /\ Every(c, Filled) /\ Every(new, Filled) => Every(r, Filled)
<1>a. old \in AllCells
  BY CellsAre, AllPartsAre
<1> DEFINE Good(d) ==
              LET r == Put(d, old, new) IN
              /\ r \in AllCells /\ r.w = d.w /\ r.h = d.h
              /\ AllPanes(r) = (AllPanes(d) \ AllPanes(old)) \cup AllPanes(new)
              /\ Every(r, Settled) /\ new \in AllParts(r)
              /\ Every(d, Filled) /\ Every(new, Filled) => Every(r, Filled)
           Apt(d) == /\ d \in Cells /\ Every(d, Settled) /\ old \in AllParts(d)
                     /\ AllPanes(new) \cap (AllPanes(d) \ AllPanes(old)) = {}
           T == {d \in AllCells : Apt(d) => Good(d)}
<1>0. old \in Cells => Good(old)
  <2> SUFFICES ASSUME old \in Cells PROVE Good(old)
    OBVIOUS
  <2>1. Put(old, old, new) = new
    BY <1>a, PutIs
  <2>2. new \in AllParts(new)
    BY AllPartsAre
  <2>3. AllPanes(new) = (AllPanes(old) \ AllPanes(old)) \cup AllPanes(new)
    OBVIOUS
  <2> QED
    BY <2>1, <2>2, <2>3
<1>1. Leaves \subseteq T
  <2> SUFFICES ASSUME NEW d \in Leaves, Apt(d) PROVE Good(d)
    BY AllCellsAre
  <2>1. d = old
    BY AllCellsAre, LeafOrSplit, AllPartsAre
  <2> QED
    BY <1>0, <2>1
<1>2. ASSUME NEW d \in SplitsOver(AllCells), \A i \in DOMAIN d.kids : d.kids[i] \in T
      PROVE  d \in T
  <2>1. d \in AllCells /\ ~ IsLeaf(d)
    BY AllCellsAre, LeafOrSplit
  <2> SUFFICES ASSUME Apt(d), d # old PROVE Good(d)
    BY <1>0, <2>1
  <2> HIDE DEF T, Good
  <2> DEFINE r == Put(d, old, new)
  <2>2. /\ r \in AllCells /\ ~ IsLeaf(r) /\ r.axis = d.axis /\ r.w = d.w /\ r.h = d.h
        /\ Len(r.kids) = Len(d.kids) /\ DOMAIN r.kids = DOMAIN d.kids
        /\ \A i \in DOMAIN d.kids : r.kids[i] = Put(d.kids[i], old, new)
    BY <1>a, <2>1, PutKids
  <2> HIDE DEF r
  <2>3. PICK i \in DOMAIN d.kids : old \in AllParts(d.kids[i])
    BY <2>1, AllPartsAre
  <2>4. Every(d, Shaped)
    BY SettledIs, EveryGrows
  <2>5. \A j \in DOMAIN d.kids : j # i => old \notin AllParts(d.kids[j])
    BY <2>1, <2>3, <2>4, ProperParts
  <2>6. /\ \A j \in DOMAIN d.kids : d.kids[j] \in Cells /\ d.kids[j] \in AllCells
        /\ d \in Settled /\ \A j \in DOMAIN d.kids : Every(d.kids[j], Settled)
        /\ Every(d, Filled) => d \in Filled /\ \A j \in DOMAIN d.kids : Every(d.kids[j], Filled)
    BY <2>1, CellsAre, CellIs, EveryIs
  <2>7. \A j \in DOMAIN d.kids : j # i => r.kids[j] = d.kids[j]
    BY <1>a, <2>2, <2>5, <2>6, PutType
  <2>8. \A j \in DOMAIN d.kids : AllPanes(d.kids[j]) \subseteq AllPanes(d)
    BY <2>1, AllPanesAre
  <2>9. Good(d.kids[i])
    <3>1. Apt(d.kids[i])
      BY <2>3, <2>6, <2>8
    <3> QED
      BY <1>2, <2>6, <3>1 DEF T
  <2>10. /\ r.kids[i].w = d.kids[i].w /\ r.kids[i].h = d.kids[i].h
         /\ AllPanes(r.kids[i]) = (AllPanes(d.kids[i]) \ AllPanes(old)) \cup AllPanes(new)
         /\ Every(r.kids[i], Settled) /\ new \in AllParts(r.kids[i])
         /\ Every(d.kids[i], Filled) /\ Every(new, Filled) => Every(r.kids[i], Filled)
    BY <2>2, <2>9 DEF Good
  <2>11. \A j \in DOMAIN d.kids : r.kids[j].w = d.kids[j].w /\ r.kids[j].h = d.kids[j].h
    BY <2>7, <2>10
  <2>12. d \in Shaped /\ DOMAIN d.kids = 1 .. Len(d.kids)
    BY <2>1, <2>6, SettledIs, CellIs
  <2>13. AllPanes(old) \subseteq AllPanes(d.kids[i])
    BY <2>3, <2>6, AllPanesAre
  <2>14. \A j, k \in DOMAIN d.kids :
            AllPanes(d.kids[j]) \cap AllPanes(d.kids[k]) # {} => j = k
    BY <2>12 DEF Shaped
  <2>15. ASSUME NEW j \in DOMAIN d.kids, j # i
         PROVE  AllPanes(r.kids[i]) \cap AllPanes(r.kids[j]) = {}
    <3>1. AllPanes(r.kids[j]) = AllPanes(d.kids[j])
      BY <2>7, <2>15
    <3>2. AllPanes(d.kids[i]) \cap AllPanes(d.kids[j]) = {}
      BY <2>14, <2>15
    <3>3. AllPanes(new) \cap AllPanes(d.kids[j]) = {}
      BY <2>8, <2>13, <3>2
    <3> QED
      BY <2>10, <3>1, <3>2, <3>3
  <2>16. \A j, k \in DOMAIN r.kids :
            AllPanes(r.kids[j]) \cap AllPanes(r.kids[k]) # {} => j = k
    <3> SUFFICES ASSUME NEW j \in DOMAIN d.kids, NEW k \in DOMAIN d.kids, j # k
                 PROVE  AllPanes(r.kids[j]) \cap AllPanes(r.kids[k]) = {}
      BY <2>2
    <3>1. CASE j = i
      BY <2>15, <3>1
    <3>2. CASE k = i
      BY <2>15, <3>2
    <3>3. CASE j # i /\ k # i
      BY <2>7, <2>14, <3>3
    <3> QED
      BY <3>1, <3>2, <3>3
  <2>17. r \in Shaped
    BY <2>2, <2>12, <2>16 DEF Shaped
  <2>18. \A j \in DOMAIN r.kids :
            /\ Along(r.axis, r.kids[j]) = Along(d.axis, d.kids[j])
            /\ Across(r.axis, r.kids[j]) = Across(d.axis, d.kids[j])
    BY <2>2, <2>11 DEF Along, Across
  <2>19. Along(r.axis, r) = Along(d.axis, d) /\ Across(r.axis, r) = Across(d.axis, d)
    BY <2>2 DEF Along, Across
  <2>20. r \in Settled
    BY <2>2, <2>6, <2>17, <2>18, <2>19 DEF Settled
  <2>21. Every(r, Settled)
    <3>1. \A j \in DOMAIN r.kids : Every(r.kids[j], Settled)
      BY <2>2, <2>6, <2>7, <2>10
    <3> QED
      BY <2>2, <2>20, <3>1, EveryIs
  <2>22. Every(d, Filled) /\ Every(new, Filled) => Every(r, Filled)
    <3> SUFFICES ASSUME Every(d, Filled), Every(new, Filled) PROVE Every(r, Filled)
      OBVIOUS
    <3>1. \A j \in DOMAIN r.kids : Every(r.kids[j], Filled)
      BY <2>2, <2>6, <2>7, <2>10
    <3>2. Extents(r) = Extents(d)
      BY <2>2, <2>18 DEF Extents
    <3>3. FilledBy(d)
      BY <2>6 DEF Filled
    <3>4. FilledBy(r)
      BY <2>2, <2>18, <2>19, <3>2, <3>3 DEF FilledBy
    <3> QED
      BY <2>2, <3>1, <3>4, EveryIs DEF Filled
  <2>23. new \in AllParts(r)
    BY <2>2, <2>10, AllPartsAre
  <2>24. AllPanes(r) = (AllPanes(d) \ AllPanes(old)) \cup AllPanes(new)
    <3>1. AllPanes(r) = UNION {AllPanes(r.kids[j]) : j \in DOMAIN r.kids}
      BY <2>2, AllPanesAre
    <3>2. AllPanes(d) = UNION {AllPanes(d.kids[j]) : j \in DOMAIN d.kids}
      BY <2>1, AllPanesAre
    <3>3. ASSUME NEW x \in AllPanes(r)
          PROVE  x \in (AllPanes(d) \ AllPanes(old)) \cup AllPanes(new)
      <4>1. PICK j \in DOMAIN d.kids : x \in AllPanes(r.kids[j])
        BY <2>2, <3>1
      <4>2. CASE j = i
        BY <2>8, <2>10, <4>1, <4>2
      <4>3. CASE j # i
        <5>1. x \in AllPanes(d.kids[j])
          BY <2>7, <4>1, <4>3
        <5> QED
          BY <2>8, <2>13, <2>14, <4>3, <5>1
      <4> QED
        BY <4>2, <4>3
    <3>4. ASSUME NEW x \in AllPanes(d), x \notin AllPanes(old) PROVE x \in AllPanes(r)
      <4>1. PICK j \in DOMAIN d.kids : x \in AllPanes(d.kids[j])
        BY <3>2
      <4>2. x \in AllPanes(r.kids[j])
        BY <2>7, <2>10, <3>4, <4>1
      <4> QED
        BY <2>2, <3>1, <4>2
    <3>5. AllPanes(new) \subseteq AllPanes(r)
      BY <2>2, <2>10, <3>1
    <3> QED
      BY <3>3, <3>4, <3>5
  <2> QED
    BY <2>2, <2>21, <2>22, <2>23, <2>24 DEF Good, r
<1>3. AllCells \subseteq T
  <2> HIDE DEF T
  <2> QED
    BY <1>1, <1>2, TreeInduction
<1>4. Good(c)
  BY <1>3, CellsAre
<1> QED
  BY <1>4

\* Put back, if the cell that was put brought a pane of its own.
LEMMA PutBack ==
    ASSUME NEW c \in Cells, Every(c, Settled), NEW old \in AllParts(c),
           NEW new \in AllCells, Every(new, Settled), new.w = old.w, new.h = old.h,
           AllPanes(new) \cap (AllPanes(c) \ AllPanes(old)) = {},
           NEW p \in AllPanes(new), p \notin AllPanes(c), Put(c, old, new) \in Cells
    PROVE  Put(Put(c, old, new), new, old) = c
<1> DEFINE Good(d) == Put(Put(d, old, new), new, old) = d
           Apt(d) == /\ d \in Cells /\ Put(d, old, new) \in Cells /\ Every(d, Settled)
                     /\ AllPanes(new) \cap (AllPanes(d) \ AllPanes(old)) = {}
                     /\ p \notin AllPanes(d)
           T == {d \in AllCells : Apt(d) => Good(d)}
<1>0. old \in AllCells
  BY CellsAre, AllPartsAre
\* Where the old one is not, neither is the new one.
<1>1. ASSUME NEW d \in AllCells, Apt(d), old \notin AllParts(d) PROVE Good(d)
  <2>1. new \notin AllParts(d)
    BY <1>1, AllPanesAre
  <2>2. Put(d, old, new) = d
    BY <1>0, <1>1, PutType
  <2>3. Put(d, new, old) = d
    BY <1>0, <1>1, <2>1, PutType
  <2> QED
    BY <2>2, <2>3
<1>2. ASSUME Apt(old) PROVE Good(old)
  <2>1. Put(old, old, new) = new
    BY <1>0, <1>2, PutIs
  <2>2. Put(new, new, old) = old
    BY <1>0, <1>2, <2>1, PutIs
  <2> QED
    BY <2>1, <2>2
<1>3. Leaves \subseteq T
  <2> SUFFICES ASSUME NEW d \in Leaves, Apt(d) PROVE Good(d)
    BY AllCellsAre
  <2>1. d \in AllCells /\ (old \in AllParts(d) => old = d)
    BY AllCellsAre, LeafOrSplit, AllPartsAre
  <2> QED
    BY <1>1, <1>2, <2>1
<1>4. ASSUME NEW d \in SplitsOver(AllCells), \A i \in DOMAIN d.kids : d.kids[i] \in T
      PROVE  d \in T
  <2>1. d \in AllCells /\ ~ IsLeaf(d)
    BY AllCellsAre, LeafOrSplit
  <2> SUFFICES ASSUME Apt(d), d # old, old \in AllParts(d) PROVE Good(d)
    BY <1>1, <1>2, <2>1
  <2> DEFINE r == Put(d, old, new)
             back == Put(r, new, old)
  <2>2. /\ r \in AllCells /\ ~ IsLeaf(r) /\ r.axis = d.axis /\ r.w = d.w /\ r.h = d.h
        /\ Len(r.kids) = Len(d.kids) /\ DOMAIN r.kids = DOMAIN d.kids
        /\ \A i \in DOMAIN d.kids : r.kids[i] = Put(d.kids[i], old, new)
    BY <1>0, <2>1, PutKids
  <2>3. AllPanes(r) = (AllPanes(d) \ AllPanes(old)) \cup AllPanes(new)
    BY PutSettles
  <2>4. Every(d, Shaped)
    BY SettledIs, EveryGrows
  <2>5. AllPanes(old) \subseteq AllPanes(d) /\ AllPanes(old) # AllPanes(d)
    <3>1. PICK i \in DOMAIN d.kids : old \in AllParts(d.kids[i])
      BY <2>1, AllPartsAre
    <3> QED
      BY <2>1, <2>4, <3>1, ProperParts
  <2>6. r # new
    BY <2>3, <2>5
  <2>7. r \in Cells
    OBVIOUS
  <2> HIDE DEF r
  <2>8. /\ back \in AllCells /\ ~ IsLeaf(back)
        /\ back.axis = r.axis /\ back.w = r.w /\ back.h = r.h
        /\ Len(back.kids) = Len(r.kids) /\ DOMAIN back.kids = DOMAIN r.kids
        /\ \A i \in DOMAIN r.kids : back.kids[i] = Put(r.kids[i], new, old)
    BY <1>0, <2>2, <2>6, <2>7, PutKids
  <2> HIDE DEF back
  <2>9. ASSUME NEW i \in DOMAIN d.kids PROVE back.kids[i] = d.kids[i]
    <3>1. d.kids[i] \in Cells /\ r.kids[i] \in Cells
      BY <2>1, <2>2, <2>7, CellsAre
    <3>2. Every(d.kids[i], Settled) /\ AllPanes(d.kids[i]) \subseteq AllPanes(d)
      BY <2>1, EveryIs, AllPanesAre
    <3>3. Apt(d.kids[i])
      BY <2>2, <3>1, <3>2
    <3>4. Good(d.kids[i])
      BY <1>4, <3>3
    <3> QED
      BY <2>2, <2>8, <3>4
  <2>10. back.kids = d.kids
    <3>1. back.kids \in Seq(AllCells) /\ d.kids \in Seq(AllCells)
      BY <2>1, <2>8, CellIs
    <3>2. Len(back.kids) = Len(d.kids) /\ DOMAIN d.kids = 1 .. Len(d.kids)
      BY <2>1, <2>2, <2>8, CellIs
    <3> QED
      BY <2>9, <3>1, <3>2
  <2>11. back = d
    <3>1. back \in SplitsOver(AllCells)
      BY <2>8, CellIs
    <3>2. back.axis = d.axis /\ back.w = d.w /\ back.h = d.h
      BY <2>2, <2>8
    <3> QED
      BY <2>10, <3>1, <3>2 DEF SplitsOver
  <2> QED
    BY <2>11 DEF back, r
<1>5. AllCells \subseteq T
  <2> HIDE DEF T
  <2> QED
    BY <1>3, <1>4, TreeInduction
<1> QED
  BY <1>5, CellsAre

-----------------------------------------------------------------------------
(* Finding leaves and their parents.                                       *)

\* A pane is one child of a split at most.
LEMMA KidUnique ==
    ASSUME NEW s \in Shaped, NEW p, NEW i \in DOMAIN s.kids, NEW j \in DOMAIN s.kids,
           IsKid(p, s.kids[i]), IsKid(p, s.kids[j])
    PROVE  i = j
<1>1. s \in AllCells /\ ~ IsLeaf(s)
  BY DEF Shaped
<1>2. s.kids[i] \in AllCells /\ s.kids[j] \in AllCells
  BY <1>1, CellIs
<1>3. AllPanes(s.kids[i]) = {p} /\ AllPanes(s.kids[j]) = {p}
  BY <1>2, AllPanesAre DEF IsKid
<1> QED
  BY <1>3 DEF Shaped

\* A pane has one leaf.
LEMMA LeafUnique ==
    ASSUME NEW c \in AllCells, Every(c, Shaped), NEW d \in AllParts(c), NEW e \in AllParts(c),
           IsLeaf(d), IsLeaf(e), d.pane = e.pane
    PROVE  d = e
<1> DEFINE One(a) == \A x, y \in AllParts(a) :
                        IsLeaf(x) /\ IsLeaf(y) /\ x.pane = y.pane => x = y
           T == {a \in AllCells : Every(a, Shaped) => One(a)}
<1>1. Leaves \subseteq T
  <2>1. \A a \in Leaves : AllParts(a) = {a}
    BY AllCellsAre, LeafOrSplit, AllPartsAre
  <2> QED
    BY <2>1, AllCellsAre
<1>2. ASSUME NEW a \in SplitsOver(AllCells), \A i \in DOMAIN a.kids : a.kids[i] \in T
      PROVE  a \in T
  <2>1. a \in AllCells /\ ~ IsLeaf(a)
    BY AllCellsAre, LeafOrSplit
  <2> SUFFICES ASSUME Every(a, Shaped), NEW x \in AllParts(a), NEW y \in AllParts(a),
                      IsLeaf(x), IsLeaf(y), x.pane = y.pane
               PROVE  x = y
    BY <2>1
  <2>2. PICK i \in DOMAIN a.kids : x \in AllParts(a.kids[i])
    BY <2>1, AllPartsAre
  <2>3. PICK j \in DOMAIN a.kids : y \in AllParts(a.kids[j])
    BY <2>1, AllPartsAre
  <2>4. a.kids[i] \in AllCells /\ a.kids[j] \in AllCells /\ Every(a.kids[i], Shaped)
    BY <2>1, CellIs, EveryIs
  <2>5. x.pane \in AllPanes(a.kids[i]) /\ y.pane \in AllPanes(a.kids[j])
    BY <2>2, <2>3 DEF AllPanes
  <2>6. a \in Shaped
    BY <2>1, EveryIs
  <2>7. i = j
    BY <2>5, <2>6 DEF Shaped
  <2>8. One(a.kids[i])
    BY <1>2, <2>4
  <2> QED
    BY <2>2, <2>3, <2>7, <2>8
<1>3. AllCells \subseteq T
  <2> HIDE DEF T
  <2> QED
    BY <1>1, <1>2, TreeInduction
<1>4. One(c)
  BY <1>3
<1> QED
  BY <1>4

\* And one parent, in a split.
LEMMA ParentUnique ==
    ASSUME NEW c \in AllCells, Every(c, Shaped), NEW p,
           NEW s \in AllParts(c), NEW t \in AllParts(c),
           ~ IsLeaf(s), ~ IsLeaf(t), HasKid(s, p), HasKid(t, p)
    PROVE  s = t
<1> DEFINE Has(x) == ~ IsLeaf(x) /\ HasKid(x, p)
           One(a) == \A x, y \in AllParts(a) : Has(x) /\ Has(y) => x = y
           T == {a \in AllCells : Every(a, Shaped) => One(a)}
<1>1. Leaves \subseteq T
  <2>1. \A a \in Leaves : AllParts(a) = {a}
    BY AllCellsAre, LeafOrSplit, AllPartsAre
  <2> QED
    BY <2>1, AllCellsAre
\* The pane is one of what has its leaf, and no leaf has a child.
<1>2. ASSUME NEW x \in AllCells, Has(x) PROVE p \in AllPanes(x)
  <2>1. PICK i \in DOMAIN x.kids : IsKid(p, x.kids[i])
    BY <1>2 DEF HasKid
  <2>2. x.kids[i] \in AllCells
    BY <1>2, CellIs
  <2>3. p \in AllPanes(x.kids[i])
    BY <2>1, <2>2, AllPanesAre DEF IsKid
  <2> QED
    BY <1>2, <2>3, AllPanesAre
<1>3. ASSUME NEW a \in SplitsOver(AllCells), \A i \in DOMAIN a.kids : a.kids[i] \in T
      PROVE  a \in T
  <2>1. a \in AllCells /\ ~ IsLeaf(a)
    BY AllCellsAre, LeafOrSplit
  <2> SUFFICES ASSUME Every(a, Shaped) PROVE One(a)
    BY <2>1
  <2>2. a \in Shaped /\ \A i \in DOMAIN a.kids : a.kids[i] \in AllCells /\ Every(a.kids[i], Shaped)
    BY <2>1, EveryIs, CellIs
  <2>3. \A i, j \in DOMAIN a.kids :
           AllPanes(a.kids[i]) \cap AllPanes(a.kids[j]) # {} => i = j
    BY <2>2 DEF Shaped
  <2>4. \A i \in DOMAIN a.kids : \A x \in AllParts(a.kids[i]) :
           Has(x) => p \in AllPanes(a.kids[i]) /\ ~ IsLeaf(a.kids[i])
    <3> SUFFICES ASSUME NEW i \in DOMAIN a.kids, NEW x \in AllParts(a.kids[i]), Has(x)
                 PROVE  p \in AllPanes(a.kids[i]) /\ ~ IsLeaf(a.kids[i])
      OBVIOUS
    <3>1. x \in AllCells /\ AllPanes(x) \subseteq AllPanes(a.kids[i])
      BY <2>2, AllPartsAre, AllPanesAre
    <3>2. IsLeaf(a.kids[i]) => x = a.kids[i]
      BY <2>2, AllPartsAre
    <3> QED
      BY <1>2, <3>1, <3>2
  \* The split itself and one below it do not both have the leaf.
  <2>5. ASSUME NEW i \in DOMAIN a.kids, NEW x \in AllParts(a.kids[i]), Has(x), Has(a)
        PROVE  FALSE
    <3>1. PICK j \in DOMAIN a.kids : IsKid(p, a.kids[j])
      BY <2>5 DEF HasKid
    <3>2. p \in AllPanes(a.kids[j]) /\ IsLeaf(a.kids[j])
      BY <2>2, <3>1, AllPanesAre DEF IsKid
    <3>3. p \in AllPanes(a.kids[i]) /\ ~ IsLeaf(a.kids[i])
      BY <2>4, <2>5
    <3>4. i = j
      BY <2>3, <3>2, <3>3
    <3> QED
      BY <3>2, <3>3, <3>4
  <2>6. ASSUME NEW x \in AllParts(a), NEW y \in AllParts(a), Has(x), Has(y) PROVE x = y
    <3>1. /\ x = a \/ \E i \in DOMAIN a.kids : x \in AllParts(a.kids[i])
          /\ y = a \/ \E i \in DOMAIN a.kids : y \in AllParts(a.kids[i])
      BY <2>1, AllPartsAre
    <3>2. CASE x = a \/ y = a
      BY <2>5, <2>6, <3>1, <3>2
    <3>3. CASE x # a /\ y # a
      <4>1. PICK i \in DOMAIN a.kids : x \in AllParts(a.kids[i])
        BY <3>1, <3>3
      <4>2. PICK j \in DOMAIN a.kids : y \in AllParts(a.kids[j])
        BY <3>1, <3>3
      <4>3. p \in AllPanes(a.kids[i]) /\ p \in AllPanes(a.kids[j])
        BY <2>4, <2>6, <4>1, <4>2
      <4>4. i = j
        BY <2>3, <4>3
      <4>5. One(a.kids[i])
        BY <1>3, <2>2
      <4> QED
        BY <2>6, <4>1, <4>2, <4>4, <4>5
    <3> QED
      BY <3>2, <3>3
  <2> QED
    BY <2>6
<1>4. AllCells \subseteq T
  <2> HIDE DEF T
  <2> QED
    BY <1>1, <1>3, TreeInduction
<1>5. One(c)
  BY <1>4
<1> QED
  BY <1>5

\* Every pane of a split tree has a parent.
LEMMA ParentExists ==
    ASSUME NEW c \in AllCells, ~ IsLeaf(c), NEW p \in AllPanes(c)
    PROVE  \E s \in AllParts(c) : ~ IsLeaf(s) /\ HasKid(s, p)
<1> DEFINE Some(a) == \E s \in AllParts(a) : ~ IsLeaf(s) /\ HasKid(s, p)
           T == {a \in AllCells : ~ IsLeaf(a) /\ p \in AllPanes(a) => Some(a)}
<1>1. Leaves \subseteq T
  BY AllCellsAre, LeafOrSplit
<1>2. ASSUME NEW a \in SplitsOver(AllCells), \A i \in DOMAIN a.kids : a.kids[i] \in T
      PROVE  a \in T
  <2>1. a \in AllCells /\ ~ IsLeaf(a)
    BY AllCellsAre, LeafOrSplit
  <2> SUFFICES ASSUME p \in AllPanes(a) PROVE Some(a)
    BY <2>1
  <2>2. PICK i \in DOMAIN a.kids : p \in AllPanes(a.kids[i])
    BY <2>1, AllPanesAre
  <2>3. a.kids[i] \in AllCells
    BY <2>1, CellIs
  <2>4. CASE IsLeaf(a.kids[i])
    <3>1. IsKid(p, a.kids[i])
      BY <2>2, <2>3, <2>4, AllPanesAre DEF IsKid
    <3>2. a \in AllParts(a)
      BY <2>1, AllPartsAre
    <3> QED
      BY <2>1, <3>1, <3>2 DEF HasKid
  <2>5. CASE ~ IsLeaf(a.kids[i])
    <3>1. PICK s \in AllParts(a.kids[i]) : ~ IsLeaf(s) /\ HasKid(s, p)
      BY <1>2, <2>2, <2>3, <2>5
    <3>2. s \in AllParts(a)
      BY <2>1, <3>1, AllPartsAre
    <3> QED
      BY <3>1, <3>2
  <2> QED
    BY <2>4, <2>5
<1>3. AllCells \subseteq T
  <2> HIDE DEF T
  <2> QED
    BY <1>1, <1>2, TreeInduction
<1> QED
  BY <1>3

\* leaf_of() finds the leaf of a pane.
LEMMA LeafOfIs ==
    ASSUME NEW c \in Cells, Every(c, Shaped), NEW p \in AllPanes(c)
    PROVE  /\ LeafOf(c, p) \in AllParts(c) /\ IsLeaf(LeafOf(c, p)) /\ LeafOf(c, p).pane = p
           /\ LeafOf(c, p) \in AllCells
           /\ \A d \in AllParts(c) : IsKid(p, d) => d = LeafOf(c, p)
<1>1. c \in AllCells /\ LeavesOf(c) = {d \in AllParts(c) : IsLeaf(d)}
  BY CellsAre, PartsIs DEF LeavesOf
<1>2. PICK d \in LeavesOf(c) : d.pane = p
  BY <1>1 DEF AllPanes
<1>3. LeafOf(c, p) \in LeavesOf(c) /\ LeafOf(c, p).pane = p
  BY <1>2 DEF LeafOf
<1>4. \A e \in AllParts(c) : IsKid(p, e) => e = LeafOf(c, p)
  BY <1>1, <1>3, LeafUnique DEF IsKid
<1> QED
  BY <1>1, <1>3, <1>4, AllPartsAre

\* The position of a pane among its siblings.
LEMMA IndexOfIs ==
    ASSUME NEW s \in Shaped, NEW p, HasKid(s, p)
    PROVE  /\ IndexOf(s, p) \in DOMAIN s.kids /\ IsKid(p, s.kids[IndexOf(s, p)])
           /\ \A i \in DOMAIN s.kids : IsKid(p, s.kids[i]) => i = IndexOf(s, p)
<1>1. IndexOf(s, p) \in DOMAIN s.kids /\ IsKid(p, s.kids[IndexOf(s, p)])
  BY DEF HasKid, IndexOf
<1> QED
  BY <1>1, KidUnique

\* The parent, found from any split that has the pane.
LEMMA ParentOfIs ==
    ASSUME NEW c \in Cells, Every(c, Shaped), NEW p, NEW s \in AllParts(c),
           ~ IsLeaf(s), HasKid(s, p)
    PROVE  ParentOf(c, p) = s
<1>1. c \in AllCells /\ Splits(c) = {d \in AllParts(c) : ~ IsLeaf(d)}
  BY CellsAre, PartsIs DEF Splits
<1>2. ParentOf(c, p) \in Splits(c) /\ HasKid(ParentOf(c, p), p)
  BY <1>1 DEF ParentOf
<1> QED
  BY <1>1, <1>2, ParentUnique

-----------------------------------------------------------------------------
(* Dividing a leaf.                                                        *)

(* InsertAt moves what follows one place on.                               *)
LEMMA InsertAtIs ==
    ASSUME NEW S, NEW s \in Seq(S), NEW i \in 1 .. Len(s) + 1, NEW e \in S
    PROVE  /\ InsertAt(s, i, e) \in Seq(S)
           /\ Len(InsertAt(s, i, e)) = Len(s) + 1
           /\ \A k \in 1 .. Len(s) + 1 :
                InsertAt(s, i, e)[k] =
                    IF k < i THEN s[k] ELSE IF k = i THEN e ELSE s[k - 1]
<1> DEFINE a == SubSeq(s, 1, i - 1)
           b == a \o <<e>>
           c == SubSeq(s, i, Len(s))
<1>1. Len(s) \in Nat /\ \A k \in 1 .. Len(s) : s[k] \in S
  BY LenProperties, ElementOfSeq
<1>2. /\ a \in Seq(S) /\ Len(a) = i - 1
      /\ \A k \in 1 .. i - 1 : a[k] = s[k]
  <2>1. \A k \in 1 .. i - 1 : s[k] \in S
    BY <1>1
  <2> QED
    BY <1>1, <2>1, SubSeqProperties
<1>3. /\ c \in Seq(S) /\ Len(c) = Len(s) - i + 1
      /\ \A k \in 1 .. Len(s) - i + 1 : c[k] = s[i + k - 1]
  <2>1. \A k \in i .. Len(s) : s[k] \in S
    BY <1>1
  <2> QED
    BY <1>1, <2>1, SubSeqProperties
<1>4. <<e>> \in Seq(S) /\ Len(<<e>>) = 1 /\ <<e>>[1] = e
  OBVIOUS
<1>5. /\ b \in Seq(S) /\ Len(b) = i
      /\ \A k \in 1 .. i : b[k] = IF k < i THEN s[k] ELSE e
  BY <1>1, <1>2, <1>4, ConcatProperties
<1>6. /\ b \o c \in Seq(S) /\ Len(b \o c) = Len(s) + 1
      /\ \A k \in 1 .. Len(s) + 1 :
            (b \o c)[k] = IF k <= i THEN b[k] ELSE c[k - i]
  <2> HIDE DEF b, c
  <2>1. /\ b \o c \in Seq(S) /\ Len(b \o c) = Len(b) + Len(c)
        /\ \A k \in 1 .. Len(b) + Len(c) :
              (b \o c)[k] = IF k <= Len(b) THEN b[k] ELSE c[k - Len(b)]
    BY <1>3, <1>5, ConcatProperties
  <2>2. Len(b) = i /\ Len(b) + Len(c) = Len(s) + 1
    BY <1>1, <1>3, <1>5
  <2> QED
    BY <2>1, <2>2
<1>7. \A k \in 1 .. Len(s) + 1 :
        (b \o c)[k] = IF k < i THEN s[k] ELSE IF k = i THEN e ELSE s[k - 1]
  <2> SUFFICES ASSUME NEW k \in 1 .. Len(s) + 1
               PROVE  (b \o c)[k] =
                        IF k < i THEN s[k] ELSE IF k = i THEN e ELSE s[k - 1]
    OBVIOUS
  <2> HIDE DEF b, c
  <2>1. CASE k <= i
    BY <1>1, <1>5, <1>6, <2>1
  <2>2. CASE k > i
    <3>1. k - i \in 1 .. Len(s) - i + 1 /\ i + (k - i) - 1 = k - 1
      BY <1>1, <2>2
    <3>2. (b \o c)[k] = c[k - i]
      BY <1>6, <2>2
    <3>3. c[k - i] = s[i + (k - i) - 1]
      BY <1>3, <3>1
    <3> QED
      BY <1>1, <2>2, <3>1, <3>2, <3>3
  <2>3. k <= i \/ k > i
    BY <1>1
  <2> QED
    BY <2>1, <2>2, <2>3
<1> QED
  BY <1>6, <1>7 DEF InsertAt

(* RemoveAt moves what follows one place back.                             *)
LEMMA RemoveAtIs ==
    ASSUME NEW S, NEW s \in Seq(S), NEW i \in 1 .. Len(s)
    PROVE  /\ RemoveAt(s, i) \in Seq(S)
           /\ Len(RemoveAt(s, i)) = Len(s) - 1
           /\ \A k \in 1 .. Len(s) - 1 :
                RemoveAt(s, i)[k] = IF k < i THEN s[k] ELSE s[k + 1]
<1> DEFINE a == SubSeq(s, 1, i - 1)
           c == SubSeq(s, i + 1, Len(s))
<1>1. Len(s) \in Nat /\ \A k \in 1 .. Len(s) : s[k] \in S
  BY LenProperties, ElementOfSeq
<1>2. /\ a \in Seq(S) /\ Len(a) = i - 1
      /\ \A k \in 1 .. i - 1 : a[k] = s[k]
  <2>1. \A k \in 1 .. i - 1 : s[k] \in S
    BY <1>1
  <2> QED
    BY <1>1, <2>1, SubSeqProperties
<1>3. /\ c \in Seq(S) /\ Len(c) = Len(s) - i
      /\ \A k \in 1 .. Len(s) - i : c[k] = s[i + k]
  <2>1. \A k \in i + 1 .. Len(s) : s[k] \in S
    BY <1>1
  <2>2. /\ c \in Seq(S)
        /\ Len(c) = IF i + 1 <= Len(s) THEN Len(s) - (i + 1) + 1 ELSE 0
        /\ \A k \in 1 .. Len(s) - (i + 1) + 1 : c[k] = s[i + 1 + k - 1]
    BY <1>1, <2>1, SubSeqProperties
  <2> HIDE DEF c
  <2> QED
    BY <1>1, <2>2
<1>4. /\ a \o c \in Seq(S) /\ Len(a \o c) = Len(s) - 1
      /\ \A k \in 1 .. Len(s) - 1 :
            (a \o c)[k] = IF k <= i - 1 THEN a[k] ELSE c[k - (i - 1)]
  <2> HIDE DEF a, c
  <2>1. /\ a \o c \in Seq(S) /\ Len(a \o c) = Len(a) + Len(c)
        /\ \A k \in 1 .. Len(a) + Len(c) :
              (a \o c)[k] = IF k <= Len(a) THEN a[k] ELSE c[k - Len(a)]
    BY <1>2, <1>3, ConcatProperties
  <2>2. Len(a) = i - 1 /\ Len(a) + Len(c) = Len(s) - 1
    BY <1>1, <1>2, <1>3
  <2> QED
    BY <2>1, <2>2
<1>5. \A k \in 1 .. Len(s) - 1 :
        (a \o c)[k] = IF k < i THEN s[k] ELSE s[k + 1]
  <2> SUFFICES ASSUME NEW k \in 1 .. Len(s) - 1
               PROVE  (a \o c)[k] = IF k < i THEN s[k] ELSE s[k + 1]
    OBVIOUS
  <2> HIDE DEF a, c
  <2>1. CASE k <= i - 1
    BY <1>1, <1>2, <1>4, <2>1
  <2>2. CASE k > i - 1
    <3>1. k - (i - 1) \in 1 .. Len(s) - i /\ i + (k - (i - 1)) = k + 1
      BY <1>1, <2>2
    <3>2. (a \o c)[k] = c[k - (i - 1)]
      BY <1>4, <2>2
    <3>3. c[k - (i - 1)] = s[i + (k - (i - 1))]
      BY <1>3, <3>1
    <3> QED
      BY <1>1, <2>2, <3>1, <3>2, <3>3
  <2>3. k <= i - 1 \/ k > i - 1
    BY <1>1
  <2> QED
    BY <2>1, <2>2, <2>3
<1> QED
  BY <1>4, <1>5 DEF RemoveAt

\* Two neighbours and the divider between them sum up to what they merge into.
LEMMA SumOfMerged ==
    ASSUME NEW n \in Nat, NEW t \in Seq(Nat), NEW s \in Seq(Nat), Len(s) = n, Len(t) = n + 1,
           NEW m \in 1 .. n, s[m] = t[m] + t[m + 1] + 1,
           \A k \in 1 .. m - 1 : s[k] = t[k],
           \A k \in m + 1 .. n : s[k] = t[k + 1]
    PROVE  Total(s) = Total(t) + 1
<1> DEFINE T == {k \in Nat : m <= k /\ k <= n => SumTo(s, k) = SumTo(t, k + 1) + 1}
<1>1. /\ \A k \in 1 .. n : s[k] \in Nat
      /\ \A k \in 1 .. n + 1 : t[k] \in Nat
  BY ElementOfSeq
<1>2. /\ \A k \in 0 .. n : SumTo(s, k) \in Nat
      /\ \A k \in 1 .. n : SumTo(s, k) = SumTo(s, k - 1) + s[k]
  BY SumIs
<1>3. /\ \A k \in 0 .. n + 1 : SumTo(t, k) \in Nat
      /\ \A k \in 1 .. n + 1 : SumTo(t, k) = SumTo(t, k - 1) + t[k]
  BY SumIs
<1>4. SumTo(s, m) = SumTo(t, m + 1) + 1
  <2>1. SumTo(s, m - 1) = SumTo(t, m - 1)
    <3> DEFINE j == m - 1
    <3>1. j \in Nat /\ j <= Len(s) /\ j <= Len(t) /\ \A k \in 1 .. j : s[k] = t[k]
      OBVIOUS
    <3> HIDE DEF j
    <3>2. SumTo(s, j) = SumTo(t, j)
      BY <3>1, SumsAgree
    <3> QED
      BY <3>2 DEF j
  <2>2. SumTo(s, m) = SumTo(s, m - 1) + s[m]
    BY <1>2
  <2>3. m \in 1 .. n + 1 /\ m + 1 \in 1 .. n + 1 /\ (m + 1) - 1 = m
        /\ m - 1 \in 0 .. n + 1 /\ m \in 0 .. n + 1
    OBVIOUS
  <2>4. SumTo(t, m) = SumTo(t, m - 1) + t[m]
    BY <1>3, <2>3
  <2>5. SumTo(t, m + 1) = SumTo(t, m) + t[m + 1]
    BY <1>3, <2>3
  <2>6. SumTo(t, m - 1) \in Nat /\ t[m] \in Nat /\ t[m + 1] \in Nat
    BY <1>1, <1>3, <2>3
  <2> DEFINE u == SumTo(t, m - 1)
             v == t[m]
             w == t[m + 1]
  <2>7. SumTo(s, m) = u + (v + w + 1) /\ SumTo(t, m + 1) = (u + v) + w
    BY <2>1, <2>2, <2>4, <2>5
  <2>8. u \in Nat /\ v \in Nat /\ w \in Nat
    BY <2>6
  <2> HIDE DEF u, v, w
  <2> QED
    BY <2>7, <2>8
<1>5. 0 \in T
  OBVIOUS
<1>6. ASSUME NEW k \in Nat, k \in T PROVE k + 1 \in T
  <2> SUFFICES ASSUME m <= k + 1, k + 1 <= n
               PROVE  SumTo(s, k + 1) = SumTo(t, (k + 1) + 1) + 1
    OBVIOUS
  <2>1. CASE m = k + 1
    BY <1>4, <2>1
  <2>2. CASE m <= k
    <3> DEFINE j == k + 1
    <3>1. /\ j \in 1 .. n /\ j - 1 = k /\ j \in m + 1 .. n
          /\ j + 1 \in 1 .. n + 1 /\ (j + 1) - 1 = j /\ j \in 0 .. n + 1
      BY <2>2
    <3>2. SumTo(s, k) = SumTo(t, j) + 1
      BY <1>6, <2>2
    <3> HIDE DEF j
    <3>3. SumTo(s, j) = SumTo(s, k) + s[j]
      BY <1>2, <3>1
    <3>4. SumTo(t, j + 1) = SumTo(t, j) + t[j + 1]
      BY <1>3, <3>1
    <3>5. s[j] = t[j + 1] /\ t[j + 1] \in Nat /\ SumTo(t, j) \in Nat
      BY <1>1, <1>3, <3>1
    <3> DEFINE u == SumTo(t, j)
               v == t[j + 1]
    <3>6. SumTo(s, j) = (u + 1) + v /\ SumTo(t, j + 1) = u + v /\ u \in Nat /\ v \in Nat
      BY <3>2, <3>3, <3>4, <3>5
    <3> HIDE DEF u, v
    <3>7. SumTo(s, j) = SumTo(t, j + 1) + 1
      BY <3>6
    <3> QED
      BY <3>7 DEF j
  <2>3. m = k + 1 \/ m <= k
    OBVIOUS
  <2> QED
    BY <2>1, <2>2, <2>3
<1>7. Nat \subseteq T
  <2> HIDE DEF T
  <2> QED
    BY <1>5, <1>6, Climb
<1>8. SumTo(s, n) = SumTo(t, n + 1) + 1
  BY <1>7
<1> QED
  BY <1>8 DEF Total

\* The two halves of a leaf that can be split.
LEMMA HalvesAre ==
    ASSUME NEW leaf \in AllCells, IsLeaf(leaf), NEW axis \in Axes, NEW new \in Nat,
           Along(axis, leaf) >= 2 * PaneMin + 1
    PROVE  LET a == Halves(leaf, axis, new)[1]
               b == Halves(leaf, axis, new)[2]
           IN /\ Halves(leaf, axis, new) = <<a, b>>
              /\ a \in AllCells /\ IsLeaf(a) /\ a.pane = leaf.pane
              /\ b \in AllCells /\ IsLeaf(b) /\ b.pane = new
              /\ Along(axis, a) \in Nat /\ Along(axis, b) \in Nat
              /\ Along(axis, leaf) = Along(axis, a) + Along(axis, b) + 1
              /\ Along(axis, a) >= PaneMin /\ Along(axis, b) >= PaneMin
              /\ Across(axis, a) = Across(axis, leaf) /\ Across(axis, b) = Across(axis, leaf)
<1> DEFINE extent == Along(axis, leaf)
           half == NewExtent(extent)
           rest == extent - 1 - half
           a == Sized(leaf, axis, rest)
           b == Sized([leaf EXCEPT !.pane = new], axis, half)
<1>1. leaf \in Leaves /\ leaf.pane \in Nat /\ leaf.w \in Nat /\ leaf.h \in Nat
  BY CellIs, LeafOrSplit
<1>2. extent \in Nat /\ extent >= 7
  BY <1>1 DEF Along, PaneMin
<1>3. half \in Nat /\ rest \in Nat /\ half >= PaneMin /\ rest >= PaneMin /\ extent = rest + half + 1
  <2> HIDE DEF extent
  <2> QED
    BY <1>2 DEF NewExtent, PaneMin
<1>4. Halves(leaf, axis, new) = <<a, b>>
  BY DEF Halves
<1> HIDE DEF half, rest
<1>5. /\ a \in Leaves /\ a.pane = leaf.pane /\ Along(axis, a) = rest
      /\ Across(axis, a) = Across(axis, leaf)
  BY <1>1, <1>3 DEF Sized, Leaves, Along, Across
<1>6. [leaf EXCEPT !.pane = new] \in Leaves
  BY <1>1 DEF Leaves
<1>7. /\ b \in Leaves /\ b.pane = new /\ Along(axis, b) = half
      /\ Across(axis, b) = Across(axis, leaf)
  BY <1>1, <1>3, <1>6 DEF Sized, Leaves, Along, Across
<1>8. a \in AllCells /\ IsLeaf(a) /\ b \in AllCells /\ IsLeaf(b)
  BY <1>5, <1>7, AllCellsAre, LeafOrSplit
<1> HIDE DEF a, b
<1>9. Halves(leaf, axis, new)[1] = a /\ Halves(leaf, axis, new)[2] = b
  BY <1>4
<1> QED
  BY <1>3, <1>4, <1>5, <1>7, <1>8, <1>9

\* The leaf in a split of its own.
LEMMA WrappedIs ==
    ASSUME NEW leaf \in AllCells, IsLeaf(leaf), NEW axis \in Axes,
           NEW new \in Nat, new # leaf.pane, Along(axis, leaf) >= 2 * PaneMin + 1
    PROVE  LET r == Wrapped(leaf, axis, new) IN
           /\ r \in AllCells /\ ~ IsLeaf(r) /\ r.w = leaf.w /\ r.h = leaf.h /\ r.axis = axis
           /\ r.kids = Halves(leaf, axis, new) /\ Len(r.kids) = 2
           /\ AllPanes(r) = {leaf.pane, new}
           /\ Every(r, Settled) /\ Every(r, Filled)
<1> DEFINE a == Halves(leaf, axis, new)[1]
           b == Halves(leaf, axis, new)[2]
           r == Wrapped(leaf, axis, new)
           e == Extents(r)
<1>1. /\ Halves(leaf, axis, new) = <<a, b>>
      /\ a \in AllCells /\ IsLeaf(a) /\ a.pane = leaf.pane
      /\ b \in AllCells /\ IsLeaf(b) /\ b.pane = new
      /\ Along(axis, a) \in Nat /\ Along(axis, b) \in Nat
      /\ Along(axis, leaf) = Along(axis, a) + Along(axis, b) + 1
      /\ Along(axis, a) >= PaneMin /\ Along(axis, b) >= PaneMin
      /\ Across(axis, a) = Across(axis, leaf) /\ Across(axis, b) = Across(axis, leaf)
  BY HalvesAre
<1>2. leaf.w \in Nat /\ leaf.h \in Nat /\ leaf.pane \in Nat
  BY CellIs, LeafOrSplit
<1> HIDE DEF a, b
<1>3. <<a, b>> \in Seq(AllCells)
  BY <1>1
<1>4. /\ r \in AllCells /\ ~ IsLeaf(r) /\ r.axis = axis /\ r.kids = <<a, b>>
      /\ r.w = leaf.w /\ r.h = leaf.h
  <2>1. r = SplitCell(axis, <<a, b>>, leaf.w, leaf.h)
    BY <1>1 DEF Wrapped
  <2> DEFINE ks == <<a, b>>
  <2>2. ks \in Seq(AllCells) /\ r = SplitCell(axis, ks, leaf.w, leaf.h)
    BY <1>3, <2>1
  <2> HIDE DEF r, ks
  <2>3. /\ r \in AllCells /\ ~ IsLeaf(r) /\ r.axis = axis /\ r.kids = ks
        /\ r.w = leaf.w /\ r.h = leaf.h
    BY <1>2, <2>2, SplitCellIs
  <2> QED
    BY <2>3 DEF ks
<1> HIDE DEF r
<1>5. Len(r.kids) = 2 /\ DOMAIN r.kids = {1, 2} /\ r.kids[1] = a /\ r.kids[2] = b
  BY <1>4
<1>6. AllPanes(a) = {leaf.pane} /\ AllPanes(b) = {new}
  BY <1>1, AllPanesAre
<1>7. r \in Shaped
  <2>1. \A i, j \in DOMAIN r.kids : AllPanes(r.kids[i]) \cap AllPanes(r.kids[j]) # {} => i = j
    BY <1>5, <1>6
  <2>2. Len(r.kids) >= 2
    BY <1>5
  <2> QED
    BY <1>4, <2>1, <2>2 DEF Shaped
<1>8. Across(axis, r) = Across(axis, leaf) /\ Along(axis, r) = Along(axis, leaf)
  BY <1>4 DEF Across, Along
<1>9. r \in Settled
  <2>1. \A i \in DOMAIN r.kids : /\ Along(r.axis, r.kids[i]) >= PaneMin
                                 /\ Across(r.axis, r.kids[i]) = Across(r.axis, r)
    BY <1>1, <1>4, <1>5, <1>8
  <2> QED
    BY <1>7, <2>1 DEF Settled
<1>10. r \in Filled
  <2>1. e \in Seq(Nat) /\ Len(e) = 2 /\ e[1] = Along(axis, a) /\ e[2] = Along(axis, b)
    BY <1>4, <1>5, ExtentsAre
  <2> HIDE DEF e
  <2>2. SumTo(e, 0) = 0 /\ SumTo(e, 1) = SumTo(e, 0) + e[1] /\ SumTo(e, 2) = SumTo(e, 1) + e[2]
    <3>1. 1 \in 1 .. Len(e) /\ 2 \in 1 .. Len(e) /\ 1 - 1 = 0 /\ 2 - 1 = 1
      BY <2>1
    <3>2. \A k \in 1 .. Len(e) : SumTo(e, k) = SumTo(e, k - 1) + e[k]
      BY <2>1, SumIs
    <3>3. SumTo(e, 0) = 0
      BY <2>1, SumIs
    <3> QED
      BY <3>1, <3>2, <3>3
  <2>3. Total(e) = Along(axis, a) + Along(axis, b)
    BY <1>1, <2>1, <2>2 DEF Total
  <2>4. Total(Extents(r)) + Len(r.kids) - 1 = Along(r.axis, r)
    BY <1>1, <1>4, <1>5, <1>8, <2>3 DEF e
  <2>5. \A i \in DOMAIN r.kids : Across(r.axis, r.kids[i]) = Across(r.axis, r)
    BY <1>9 DEF Settled
  <2> QED
    BY <1>4, <2>4, <2>5 DEF Filled, FilledBy
<1>11. Every(a, Settled) /\ Every(b, Settled) /\ Every(a, Filled) /\ Every(b, Filled)
  BY <1>1, EveryIs
<1>12. Every(r, Settled) /\ Every(r, Filled)
  BY <1>4, <1>5, <1>9, <1>10, <1>11, EveryIs
<1>13. AllPanes(r) = {leaf.pane, new}
  <2>1. AllPanes(r) = UNION {AllPanes(r.kids[i]) : i \in DOMAIN r.kids}
    BY <1>4, AllPanesAre
  <2> QED
    BY <1>5, <1>6, <2>1
<1> QED
  BY <1>1, <1>4, <1>5, <1>12, <1>13 DEF r


\* A split with other children.
LEMMA WithKids ==
    ASSUME NEW s \in AllCells, ~ IsLeaf(s), NEW ks \in Seq(AllCells)
    PROVE  LET d == [s EXCEPT !.kids = ks] IN
           /\ d \in AllCells /\ ~ IsLeaf(d) /\ d.axis = s.axis /\ d.kids = ks
           /\ d.w = s.w /\ d.h = s.h
<1>1. s \in SplitsOver(AllCells)
  BY CellIs
<1> DEFINE d == [s EXCEPT !.kids = ks]
<1>2. /\ d \in SplitsOver(AllCells) /\ d.axis = s.axis /\ d.kids = ks
      /\ d.w = s.w /\ d.h = s.h
  BY <1>1 DEF SplitsOver
<1> QED
  BY <1>2, AllCellsAre, LeafOrSplit

\* The leaf split where it stands, the new one after it.
LEMMA DividedIs ==
    ASSUME NEW s \in AllCells, ~ IsLeaf(s), Every(s, Settled), NEW i \in DOMAIN s.kids,
           IsLeaf(s.kids[i]), NEW new \in Nat, new \notin AllPanes(s),
           Along(s.axis, s.kids[i]) >= 2 * PaneMin + 1
    PROVE  LET d == Divided(s, i, s.axis, new)
               halves == Halves(s.kids[i], s.axis, new)
           IN /\ d \in AllCells /\ ~ IsLeaf(d) /\ d.axis = s.axis /\ d.w = s.w /\ d.h = s.h
              /\ d = [s EXCEPT !.kids = d.kids]
              /\ Len(d.kids) = Len(s.kids) + 1
              /\ \A k \in 1 .. Len(s.kids) + 1 :
                    d.kids[k] = IF k < i THEN s.kids[k] ELSE IF k = i THEN halves[1]
                                ELSE IF k = i + 1 THEN halves[2] ELSE s.kids[k - 1]
              /\ AllPanes(d) = AllPanes(s) \cup {new}
              /\ Every(d, Settled)
              /\ Every(s, Filled) => Every(d, Filled)
<1> DEFINE leaf == s.kids[i]
           n == Len(s.kids)
           a == Halves(leaf, s.axis, new)[1]
           b == Halves(leaf, s.axis, new)[2]
           ka == [s.kids EXCEPT ![i] = a]
           ks == InsertAt(ka, i + 1, b)
           d == Divided(s, i, s.axis, new)
<1>1. /\ s.axis \in Axes /\ s.kids \in Seq(AllCells) /\ n \in Nat /\ DOMAIN s.kids = 1 .. n
      /\ \A k \in 1 .. n : s.kids[k] \in AllCells
  BY CellIs
<1>2. /\ a \in AllCells /\ IsLeaf(a) /\ a.pane = leaf.pane
      /\ b \in AllCells /\ IsLeaf(b) /\ b.pane = new
      /\ Along(s.axis, a) \in Nat /\ Along(s.axis, b) \in Nat
      /\ Along(s.axis, leaf) = Along(s.axis, a) + Along(s.axis, b) + 1
      /\ Along(s.axis, a) >= PaneMin /\ Along(s.axis, b) >= PaneMin
      /\ Across(s.axis, a) = Across(s.axis, leaf) /\ Across(s.axis, b) = Across(s.axis, leaf)
  <2>1. leaf \in AllCells /\ IsLeaf(leaf) /\ Along(s.axis, leaf) >= 2 * PaneMin + 1
    BY <1>1
  <2> HIDE DEF leaf
  <2>2. s.axis \in Axes /\ new \in Nat
    BY <1>1
  <2> QED
    BY ONLY <2>1, <2>2, HalvesAre
<1>3. d = [s EXCEPT !.kids = ks]
  <2>1. s \in SplitsOver(AllCells)
    BY CellIs
  <2> QED
    BY <2>1 DEF Divided, SplitsOver
<1> HIDE DEF a, b, d
<1>4. /\ ka \in Seq(AllCells) /\ Len(ka) = n
      /\ \A k \in 1 .. n : ka[k] = IF k = i THEN a ELSE s.kids[k]
  BY <1>1, <1>2
<1> HIDE DEF ka
<1>5. /\ ks \in Seq(AllCells) /\ Len(ks) = n + 1
      /\ \A k \in 1 .. n + 1 :
            ks[k] = IF k < i + 1 THEN ka[k] ELSE IF k = i + 1 THEN b ELSE ka[k - 1]
  <2> DEFINE j == i + 1
  <2>1. j \in 1 .. Len(ka) + 1
    BY <1>1, <1>4
  <2> HIDE DEF j, n
  <2>2. /\ InsertAt(ka, j, b) \in Seq(AllCells) /\ Len(InsertAt(ka, j, b)) = n + 1
        /\ \A k \in 1 .. n + 1 :
              InsertAt(ka, j, b)[k] = IF k < j THEN ka[k] ELSE IF k = j THEN b ELSE ka[k - 1]
    <3>1. /\ InsertAt(ka, j, b) \in Seq(AllCells)
          /\ Len(InsertAt(ka, j, b)) = Len(ka) + 1
          /\ \A k \in 1 .. Len(ka) + 1 :
                InsertAt(ka, j, b)[k] = IF k < j THEN ka[k] ELSE IF k = j THEN b ELSE ka[k - 1]
      <4>1. ka \in Seq(AllCells) /\ b \in AllCells
        BY <1>2, <1>4
      <4>2. InsertAt(ka, j, b) \in Seq(AllCells)
        BY ONLY <2>1, <4>1, InsertAtIs
      <4>3. Len(InsertAt(ka, j, b)) = Len(ka) + 1
        BY ONLY <2>1, <4>1, InsertAtIs
      <4>4. \A k \in 1 .. Len(ka) + 1 :
               InsertAt(ka, j, b)[k] = IF k < j THEN ka[k] ELSE IF k = j THEN b ELSE ka[k - 1]
        BY ONLY <2>1, <4>1, InsertAtIs
      <4> QED
        BY <4>2, <4>3, <4>4
    <3> QED
      BY <1>4, <3>1
  <2> QED
    BY <2>2 DEF j
<1> HIDE DEF ks
<1>6. ASSUME NEW k \in 1 .. n + 1
      PROVE  ks[k] = IF k < i THEN s.kids[k] ELSE IF k = i THEN a
                     ELSE IF k = i + 1 THEN b ELSE s.kids[k - 1]
  <2> HIDE DEF n
  <2>1. CASE k < i + 1
    BY <1>1, <1>4, <1>5, <2>1
  <2>2. CASE k = i + 1
    BY <1>1, <1>5, <2>2
  <2>3. CASE k > i + 1
    <3>1. k - 1 \in 1 .. n /\ k - 1 # i
      BY <1>1, <2>3
    <3> QED
      BY <1>1, <1>4, <1>5, <2>3, <3>1
  <2> QED
    BY <1>1, <2>1, <2>2, <2>3
<1>7. d \in AllCells /\ ~ IsLeaf(d) /\ d.axis = s.axis /\ d.kids = ks /\ d.w = s.w /\ d.h = s.h
  BY <1>3, <1>5, WithKids
<1>8. Len(d.kids) = n + 1 /\ DOMAIN d.kids = 1 .. n + 1
  BY <1>1, <1>5, <1>7
<1>9. s \in Settled /\ s \in Shaped /\ (Every(s, Filled) => s \in Filled)
      /\ \A k \in 1 .. n : /\ Every(s.kids[k], Settled)
                           /\ Every(s, Filled) => Every(s.kids[k], Filled)
  BY <1>1, EveryIs, SettledIs
<1>10. n >= 2
  BY <1>9 DEF Shaped
\* Where a child of the new split comes from.
<1> DEFINE src(k) == IF k <= i THEN k ELSE k - 1
<1>11. \A k \in 1 .. n + 1 : src(k) \in 1 .. n /\ \A l \in 1 .. n + 1 :
          k # i + 1 /\ l # i + 1 /\ src(k) = src(l) => k = l
  <2> HIDE DEF n
  <2> QED
    BY <1>1
<1>12. ASSUME NEW k \in 1 .. n + 1, k # i + 1
       PROVE  AllPanes(ks[k]) = AllPanes(s.kids[src(k)])
  <2>1. CASE k = i
    <3>1. ks[k] = a /\ src(k) = i
      BY <1>1, <1>6, <2>1
    <3>2. AllPanes(a) = {leaf.pane} /\ AllPanes(leaf) = {leaf.pane}
      BY <1>1, <1>2, AllPanesAre
    <3> QED
      BY <3>1, <3>2
  <2>2. CASE k # i
    <3>1. ks[k] = s.kids[src(k)]
      BY <1>1, <1>6, <1>12, <2>2
    <3> QED
      BY <3>1
  <2> QED
    BY <2>1, <2>2
<1>13. AllPanes(ks[i + 1]) = {new} /\ i + 1 \in 1 .. n + 1
  <2>1. i + 1 \in 1 .. n + 1 /\ ks[i + 1] = b
    BY <1>1, <1>6
  <2> QED
    BY <1>2, <2>1, AllPanesAre
<1> HIDE DEF n, src
<1>14. \A k \in 1 .. n : AllPanes(s.kids[k]) \subseteq AllPanes(s)
  BY <1>1, AllPanesAre DEF n
<1>15. ASSUME NEW k \in 1 .. n + 1, NEW l \in 1 .. n + 1,
              AllPanes(ks[k]) \cap AllPanes(ks[l]) # {}
       PROVE  k = l
  <2>1. CASE k # i + 1 /\ l # i + 1
    <3>1. AllPanes(s.kids[src(k)]) \cap AllPanes(s.kids[src(l)]) # {}
      BY <1>12, <1>15, <2>1
    <3>2. src(k) = src(l)
      BY <1>1, <1>9, <1>11, <3>1 DEF Shaped
    <3> QED
      BY <1>11, <2>1, <3>2
  <2>2. ASSUME NEW j \in 1 .. n + 1, j # i + 1 PROVE new \notin AllPanes(ks[j])
    BY <1>11, <1>12, <1>14, <2>2
  <2> QED
    BY <1>13, <1>15, <2>1, <2>2
<1>16. ASSUME NEW k \in 1 .. n + 1
       PROVE  /\ Along(s.axis, ks[k]) >= PaneMin
              /\ Across(s.axis, ks[k]) = Across(s.axis, s)
              /\ Every(ks[k], Settled)
              /\ Every(s, Filled) => Every(ks[k], Filled)
  <2>1. CASE k = i \/ k = i + 1
    <3>1. ks[k] = a \/ ks[k] = b
      BY <1>1, <1>6, <2>1
    <3>2. Across(s.axis, leaf) = Across(s.axis, s)
      BY <1>1, <1>9 DEF Settled
    <3> QED
      BY <1>2, <3>1, <3>2, EveryIs
  <2>2. CASE k # i /\ k # i + 1
    <3>1. ks[k] = s.kids[src(k)] /\ src(k) \in 1 .. n
      BY <1>1, <1>6, <1>11, <2>2 DEF src
    <3>2. /\ Along(s.axis, s.kids[src(k)]) >= PaneMin
          /\ Across(s.axis, s.kids[src(k)]) = Across(s.axis, s)
      BY <1>1, <1>9, <3>1 DEF Settled
    <3> QED
      BY <1>9, <3>1, <3>2
  <2> QED
    BY <2>1, <2>2
<1>17. Along(s.axis, d) = Along(s.axis, s) /\ Across(s.axis, d) = Across(s.axis, s)
  BY <1>7 DEF Along, Across
<1>18. d \in Settled
  <2>1. Len(d.kids) >= 2
    BY <1>1, <1>8, <1>10
  <2>2. d \in Shaped
    BY <1>7, <1>8, <1>15, <2>1 DEF Shaped
  <2> QED
    BY <1>7, <1>8, <1>16, <1>17, <2>2 DEF Settled
<1>19. Every(d, Settled)
  BY <1>7, <1>8, <1>16, <1>18, EveryIs
<1>20. Every(s, Filled) => Every(d, Filled)
  <2> SUFFICES ASSUME Every(s, Filled) PROVE d \in Filled
    BY <1>7, <1>8, <1>16, EveryIs
  <2> DEFINE t == Extents(d)
             e == Extents(s)
  <2>1. t \in Seq(Nat) /\ Len(t) = n + 1 /\ \A k \in 1 .. n + 1 : t[k] = Along(s.axis, ks[k])
    BY <1>7, <1>8, ExtentsAre
  <2>2. e \in Seq(Nat) /\ Len(e) = n /\ \A k \in 1 .. n : e[k] = Along(s.axis, s.kids[k])
    BY <1>1, ExtentsAre DEF n
  <2> HIDE DEF t, e
  <2>3. i \in 1 .. n /\ i + 1 \in 1 .. n + 1 /\ i \in 1 .. n + 1
    BY <1>1
  <2>4. t[i] = Along(s.axis, a) /\ t[i + 1] = Along(s.axis, b)
    BY <1>1, <1>6, <2>1, <2>3
  <2>5. e[i] = t[i] + t[i + 1] + 1
    BY <1>2, <2>2, <2>3, <2>4
  <2>6. \A k \in 1 .. i - 1 : e[k] = t[k]
    <3> SUFFICES ASSUME NEW k \in 1 .. i - 1 PROVE e[k] = t[k]
      OBVIOUS
    <3>1. k \in 1 .. n /\ k \in 1 .. n + 1 /\ k < i
      BY <1>1, <2>3
    <3> QED
      BY <1>6, <2>1, <2>2, <3>1
  <2>7. \A k \in i + 1 .. n : e[k] = t[k + 1]
    <3> SUFFICES ASSUME NEW k \in i + 1 .. n PROVE e[k] = t[k + 1]
      OBVIOUS
    <3>1. /\ k \in 1 .. n /\ k + 1 \in 1 .. n + 1 /\ ~ (k + 1 < i) /\ k + 1 # i /\ k + 1 # i + 1
          /\ (k + 1) - 1 = k
      BY <1>1, <2>3
    <3>2. ks[k + 1] = s.kids[k]
      BY <1>6, <3>1
    <3> QED
      BY <2>1, <2>2, <3>1, <3>2
  <2>8. Total(e) = Total(t) + 1
    BY <1>1, <2>1, <2>2, <2>3, <2>5, <2>6, <2>7, SumOfMerged
  <2>9. Total(e) + n - 1 = Along(s.axis, s)
    BY <1>9 DEF Filled, FilledBy, e, n
  <2>10. Total(t) \in Nat /\ Total(e) \in Nat
    BY <2>1, <2>2, SumIs DEF Total
  <2>11. Total(t) + (n + 1) - 1 = Along(s.axis, d)
    BY <1>1, <1>17, <2>8, <2>9, <2>10
  <2>12. \A k \in DOMAIN d.kids : Across(d.axis, d.kids[k]) = Across(d.axis, d)
    BY <1>18 DEF Settled
  <2> QED
    BY <1>7, <1>8, <2>11, <2>12 DEF Filled, FilledBy, t
<1>21. AllPanes(d) = AllPanes(s) \cup {new}
  <2>1. AllPanes(d) = UNION {AllPanes(ks[k]) : k \in 1 .. n + 1}
    BY <1>7, <1>8, AllPanesAre
  <2>2. AllPanes(s) = UNION {AllPanes(s.kids[k]) : k \in 1 .. n}
    BY <1>1, AllPanesAre
  <2>3. ASSUME NEW k \in 1 .. n PROVE \E l \in 1 .. n + 1 : l # i + 1 /\ src(l) = k
    <3>1. CASE k <= i
      BY <1>1, <3>1 DEF src
    <3>2. CASE k > i
      <4>1. k + 1 \in 1 .. n + 1 /\ k + 1 # i + 1 /\ src(k + 1) = k
        BY <1>1, <3>2 DEF src
      <4> QED
        BY <4>1
    <3> QED
      BY <1>1, <3>1, <3>2
  <2>4. AllPanes(s) \subseteq AllPanes(d)
    <3> SUFFICES ASSUME NEW k \in 1 .. n PROVE AllPanes(s.kids[k]) \subseteq AllPanes(d)
      BY <2>2
    <3>1. PICK l \in 1 .. n + 1 : l # i + 1 /\ src(l) = k
      BY <2>3
    <3> QED
      BY <1>12, <2>1, <3>1
  <2>5. AllPanes(d) \subseteq AllPanes(s) \cup {new}
    <3> SUFFICES ASSUME NEW k \in 1 .. n + 1 PROVE AllPanes(ks[k]) \subseteq AllPanes(s) \cup {new}
      BY <2>1
    <3> QED
      BY <1>11, <1>12, <1>13, <1>14
  <2>6. new \in AllPanes(d)
    BY <1>13, <2>1
  <2> QED
    BY <2>4, <2>5, <2>6
<1> QED
  BY <1>3, <1>6, <1>7, <1>8, <1>19, <1>20, <1>21 DEF a, b, d, n

\* What dividing a leaf keeps of its parent.
LEMMA DividedKeeps ==
    ASSUME NEW s \in AllCells, ~ IsLeaf(s), Every(s, Settled), NEW i \in DOMAIN s.kids,
           IsLeaf(s.kids[i]), NEW new \in Nat, new \notin AllPanes(s),
           Along(s.axis, s.kids[i]) >= 2 * PaneMin + 1
    PROVE  LET d == Divided(s, i, s.axis, new) IN
           /\ d \in AllCells /\ d.w = s.w /\ d.h = s.h
           /\ AllPanes(d) = AllPanes(s) \cup {new}
           /\ Every(d, Settled)
           /\ Every(s, Filled) => Every(d, Filled)
<1> DEFINE d == Divided(s, i, s.axis, new)
           a == Halves(s.kids[i], s.axis, new)[1]
           b == Halves(s.kids[i], s.axis, new)[2]
<1>1. /\ d \in AllCells /\ ~ IsLeaf(d) /\ d.axis = s.axis /\ d.w = s.w /\ d.h = s.h
      /\ d = [s EXCEPT !.kids = d.kids]
      /\ Len(d.kids) = Len(s.kids) + 1
      /\ \A k \in 1 .. Len(s.kids) + 1 :
            d.kids[k] = IF k < i THEN s.kids[k] ELSE IF k = i THEN a
                        ELSE IF k = i + 1 THEN b ELSE s.kids[k - 1]
      /\ AllPanes(d) = AllPanes(s) \cup {new}
      /\ Every(d, Settled)
      /\ Every(s, Filled) => Every(d, Filled)
  BY DividedIs
<1> HIDE DEF d
<1>2. /\ d \in AllCells /\ d.w = s.w /\ d.h = s.h
      /\ AllPanes(d) = AllPanes(s) \cup {new}
      /\ Every(d, Settled)
      /\ Every(s, Filled) => Every(d, Filled)
  BY <1>1
<1> QED
  BY <1>2 DEF d

-----------------------------------------------------------------------------
(* close().                                                                *)

\* The heir of child i with the freed cells, and the children that are left.
Grown(s, i) == Refit(Sized(s.kids[Heir(i)], s.axis,
                 Along(s.axis, s.kids[Heir(i)]) + (Along(s.axis, s.kids[i]) + 1)))
LeftOf(s, i) == RemoveAt([s.kids EXCEPT ![Heir(i)] = Grown(s, i)], i)

\* Where a child that is left was.
Was(i, k) == IF k < i THEN k ELSE k + 1

\* The heir keeps its panes, grows along the axis by what the closed child and the
\* divider took, and is as it was across it.
LEMMA GrownIs ==
    ASSUME NEW s \in Cells, ~ IsLeaf(s), Every(s, Settled), NEW i \in DOMAIN s.kids
    PROVE  LET g == Grown(s, i)
               heir == s.kids[Heir(i)]
           IN /\ Heir(i) \in DOMAIN s.kids /\ Heir(i) # i
              /\ g \in AllCells /\ AllPanes(g) = AllPanes(heir) /\ Every(g, Settled)
              /\ Along(s.axis, g) = Along(s.axis, heir) + Along(s.axis, s.kids[i]) + 1
              /\ Across(s.axis, g) = Across(s.axis, heir)
              /\ Every(heir, Filled) => Every(g, Filled)
              /\ \E w, h \in Nat : g = Fit(heir, w, h)
<1> DEFINE j == Heir(i)
           heir == s.kids[j]
           m == Along(s.axis, heir) + (Along(s.axis, s.kids[i]) + 1)
           big == Sized(heir, s.axis, m)
           g == Fit(big, big.w, big.h)
<1>1. /\ s \in AllCells /\ s.axis \in Axes /\ Len(s.kids) \in Nat
      /\ DOMAIN s.kids = 1 .. Len(s.kids)
      /\ \A k \in DOMAIN s.kids : s.kids[k] \in Cells /\ s.kids[k] \in AllCells
  BY CellsAre, CellIs
<1>2. s \in Shaped
  BY <1>1, EveryIs, SettledIs
<1>3. j \in DOMAIN s.kids /\ j # i
  <2>1. Len(s.kids) >= 2
    BY <1>2 DEF Shaped
  <2> QED
    BY <1>1, <2>1 DEF Heir
<1> HIDE DEF j
<1>4. heir \in Cells /\ heir \in AllCells /\ Every(heir, Settled)
  BY <1>1, <1>3, EveryIs
<1>5. Along(s.axis, heir) \in Nat /\ Along(s.axis, s.kids[i]) \in Nat
  BY <1>1, <1>3, ExtentsAre
<1> HIDE DEF heir
<1>6. m \in Nat /\ m >= Along(s.axis, heir)
  BY <1>5
<1>7. m = Along(s.axis, heir) + Along(s.axis, s.kids[i]) + 1
  BY <1>5
<1> HIDE DEF m
<1>8. /\ big \in Cells /\ big \in AllCells
      /\ Along(s.axis, big) = m /\ Across(s.axis, big) = Across(s.axis, heir)
      /\ \A w, h \in Nat : Fit(big, w, h) = Fit(heir, w, h)
  BY <1>1, <1>4, <1>6, SizedIs
<1> HIDE DEF big
<1>9. big.w \in Nat /\ big.h \in Nat /\ heir.w \in Nat /\ heir.h \in Nat
  BY <1>4, <1>8, CellIs
<1>10. big.w >= heir.w /\ big.h >= heir.h
  BY <1>1, <1>6, <1>8, <1>9 DEF Along, Across, Axes
<1>11. g = Fit(heir, big.w, big.h)
  BY <1>8, <1>9
<1>12. Every(heir, Fittable)
  BY <1>4, SettledIs, EveryGrows
<1>13. /\ g \in AllCells /\ g.w = big.w /\ g.h = big.h
       /\ AllPanes(g) = AllPanes(heir) /\ Every(g, Settled)
  BY <1>4, <1>9, <1>11, <1>12, FitSettles
<1>14. Every(heir, Filled) => Every(g, Filled)
  BY <1>4, <1>9, <1>10, <1>11, FitFills
<1>15. Along(s.axis, g) = m /\ Across(s.axis, g) = Across(s.axis, heir)
  BY <1>8, <1>13 DEF Along, Across
<1>16. Grown(s, i) = g
  BY DEF Grown, Refit, j, heir, m, big
<1> QED
  BY <1>3, <1>7, <1>9, <1>11, <1>13, <1>14, <1>15, <1>16 DEF j, heir

\* The siblings left by a close: all but the closed one, the heir grown.
LEMMA LeftAre ==
    ASSUME NEW s \in Cells, ~ IsLeaf(s), Every(s, Settled), NEW i \in DOMAIN s.kids
    PROVE  LET n == Len(s.kids) IN
           /\ LeftOf(s, i) \in Seq(AllCells) /\ Len(LeftOf(s, i)) = n - 1
           /\ \A k \in 1 .. n - 1 :
                 /\ Was(i, k) \in (1 .. n) \ {i}
                 /\ LeftOf(s, i)[k] = IF Was(i, k) = Heir(i) THEN Grown(s, i)
                                      ELSE s.kids[Was(i, k)]
           /\ \A k, l \in 1 .. n - 1 : Was(i, k) = Was(i, l) => k = l
           /\ \A q \in (1 .. n) \ {i} : \E k \in 1 .. n - 1 : Was(i, k) = q
<1> DEFINE n == Len(s.kids)
           g == Grown(s, i)
           j == Heir(i)
           ka == [s.kids EXCEPT ![j] = g]
           rest == RemoveAt(ka, i)
<1>1. /\ s.kids \in Seq(AllCells) /\ n \in Nat /\ DOMAIN s.kids = 1 .. n
      /\ \A k \in DOMAIN s.kids : s.kids[k] \in AllCells
  BY CellsAre, CellIs
<1>2. g \in AllCells /\ j \in 1 .. n
  BY <1>1, GrownIs
<1> HIDE DEF g, j
<1>3. ka \in Seq(AllCells) /\ Len(ka) = n /\ \A k \in 1 .. n : ka[k] = IF k = j THEN g ELSE s.kids[k]
  BY <1>1, <1>2
<1> HIDE DEF ka
<1>4. i \in 1 .. Len(ka)
  BY <1>1, <1>3
<1>5. /\ rest \in Seq(AllCells) /\ Len(rest) = Len(ka) - 1
      /\ \A k \in 1 .. Len(ka) - 1 : rest[k] = IF k < i THEN ka[k] ELSE ka[k + 1]
  BY <1>3, <1>4, RemoveAtIs
<1> HIDE DEF rest
<1>6. i \in 1 .. n
  BY <1>1
<1> HIDE DEF n
<1>7. \A k \in 1 .. n - 1 : Was(i, k) \in (1 .. n) \ {i}
  BY <1>1, <1>6 DEF Was
<1>8. \A k, l \in 1 .. n - 1 : Was(i, k) = Was(i, l) => k = l
  BY <1>1, <1>6 DEF Was
<1>9. ASSUME NEW q \in (1 .. n) \ {i} PROVE \E k \in 1 .. n - 1 : Was(i, k) = q
  <2>1. CASE q < i
    BY <1>1, <1>6, <2>1 DEF Was
  <2>2. CASE q > i
    <3>1. q - 1 \in 1 .. n - 1 /\ Was(i, q - 1) = q
      BY <1>1, <1>6, <2>2 DEF Was
    <3> QED
      BY <3>1
  <2> QED
    BY <1>6, <2>1, <2>2
<1>10. ASSUME NEW k \in 1 .. n - 1
       PROVE  rest[k] = IF Was(i, k) = j THEN g ELSE s.kids[Was(i, k)]
  <2>1. rest[k] = ka[Was(i, k)]
    BY <1>3, <1>5 DEF Was
  <2> QED
    BY <1>3, <1>7, <2>1
<1>11. rest = LeftOf(s, i)
  BY DEF rest, ka, g, j, LeftOf
<1> QED
  BY <1>3, <1>5, <1>7, <1>8, <1>9, <1>10, <1>11 DEF n, g, j

\* A split left with one child becomes it, at its own size.
LEMMA CollapsedIs ==
    ASSUME NEW s \in Cells, ~ IsLeaf(s), Every(s, Settled), AllPanes(s) \subseteq 0 .. MaxPanes,
           NEW i \in DOMAIN s.kids, IsLeaf(s.kids[i]), Len(s.kids) = 2
    PROVE  LET r == CloseKid(s, i) IN
           /\ r = Fit(Grown(s, i), s.w, s.h)
           /\ r \in AllCells /\ r.w = s.w /\ r.h = s.h
           /\ AllPanes(r) = AllPanes(s) \ {s.kids[i].pane}
           /\ Every(r, Settled)
           /\ Every(s, Filled) => Every(r, Filled)
<1> DEFINE j == Heir(i)
           g == Grown(s, i)
           r == CloseKid(s, i)
<1>1. /\ s \in AllCells /\ s.axis \in Axes /\ s.w \in Nat /\ s.h \in Nat
      /\ DOMAIN s.kids = 1 .. 2
      /\ \A k \in DOMAIN s.kids : s.kids[k] \in AllCells
  BY CellsAre, CellIs
<1>2. /\ j \in DOMAIN s.kids /\ j # i
      /\ g \in AllCells /\ AllPanes(g) = AllPanes(s.kids[j]) /\ Every(g, Settled)
      /\ Along(s.axis, g) = Along(s.axis, s.kids[j]) + Along(s.axis, s.kids[i]) + 1
      /\ Across(s.axis, g) = Across(s.axis, s.kids[j])
      /\ Every(s.kids[j], Filled) => Every(g, Filled)
  BY GrownIs
<1>3. LeftOf(s, i) \in Seq(AllCells) /\ Len(LeftOf(s, i)) = 1 /\ LeftOf(s, i)[1] = g
  <2>1. /\ LeftOf(s, i) \in Seq(AllCells) /\ Len(LeftOf(s, i)) = 2 - 1
        /\ \A k \in 1 .. 2 - 1 :
              /\ Was(i, k) \in (1 .. 2) \ {i}
              /\ LeftOf(s, i)[k] = IF Was(i, k) = j THEN g ELSE s.kids[Was(i, k)]
    BY LeftAre
  <2>2. Was(i, 1) = j
    <3>1. Was(i, 1) \in (1 .. 2) \ {i}
      BY <2>1
    <3> QED
      BY <1>1, <1>2, <3>1
  <2> QED
    BY <2>1, <2>2
<1>4. r = Fit(g, s.w, s.h)
  BY <1>3 DEF CloseKid, LeftOf, Grown
<1> HIDE DEF j, g, r
<1>5. AllPanes(s) = AllPanes(s.kids[i]) \cup AllPanes(s.kids[j])
  <2>1. AllPanes(s) = UNION {AllPanes(s.kids[k]) : k \in DOMAIN s.kids}
    BY <1>1, AllPanesAre
  <2>2. DOMAIN s.kids = {i, j}
    BY <1>1, <1>2
  <2> QED
    BY <2>1, <2>2
<1>6. AllPanes(s.kids[i]) = {s.kids[i].pane}
  BY <1>1, AllPanesAre
<1>7. AllPanes(s.kids[i]) \cap AllPanes(s.kids[j]) = {}
  <2>1. s \in Shaped
    BY <1>1, EveryIs, SettledIs
  <2> QED
    BY <1>2, <2>1 DEF Shaped
<1>8. g \in Cells
  <2>1. Every(g, Shaped)
    BY <1>2, SettledIs, EveryGrows
  <2>2. AllPanes(g) \subseteq 0 .. MaxPanes
    BY <1>2, <1>5
  <2> QED
    BY <1>2, <2>1, <2>2, FewPanesAreLow
<1>9. Every(g, Fittable)
  BY <1>2, SettledIs, EveryGrows
<1>10. r \in AllCells /\ r.w = s.w /\ r.h = s.h /\ AllPanes(r) = AllPanes(g) /\ Every(r, Settled)
  BY <1>1, <1>4, <1>8, <1>9, FitSettles
<1>11. ASSUME Every(s, Filled) PROVE Every(r, Filled)
  <2>1. s \in Filled /\ Every(s.kids[j], Filled)
    BY <1>1, <1>2, <1>11, EveryIs
  <2>2. Every(g, Filled)
    BY <1>2, <2>1
  <2> DEFINE e == Extents(s)
  <2>3. /\ e \in Seq(Nat) /\ Len(e) = 2 /\ e[i] = Along(s.axis, s.kids[i])
        /\ e[j] = Along(s.axis, s.kids[j])
    BY <1>1, <1>2, ExtentsAre
  <2>4. /\ Total(e) + 2 - 1 = Along(s.axis, s)
        /\ Across(s.axis, s.kids[j]) = Across(s.axis, s)
    BY <1>2, <2>1 DEF Filled, FilledBy
  <2> HIDE DEF e
  <2>5. SumTo(e, 0) = 0 /\ SumTo(e, 1) = SumTo(e, 0) + e[1] /\ SumTo(e, 2) = SumTo(e, 1) + e[2]
    <3>1. 1 \in 1 .. Len(e) /\ 2 \in 1 .. Len(e) /\ 1 - 1 = 0 /\ 2 - 1 = 1
      BY <2>3
    <3>2. \A k \in 1 .. Len(e) : SumTo(e, k) = SumTo(e, k - 1) + e[k]
      BY <2>3, SumIs
    <3>3. SumTo(e, 0) = 0
      BY <2>3, SumIs
    <3> QED
      BY <3>1, <3>2, <3>3
  <2>6. e[1] \in Nat /\ e[2] \in Nat
    <3>1. \A k \in 1 .. Len(e) : e[k] \in Nat
      BY <2>3, ElementOfSeq
    <3> QED
      BY <2>3, <3>1
  <2>7. Total(e) = e[i] + e[j]
    <3>1. (i = 1 /\ j = 2) \/ (i = 2 /\ j = 1)
      BY <1>1, <1>2
    <3> QED
      BY <2>3, <2>5, <2>6, <3>1 DEF Total
  <2>8. Along(s.axis, g) = Along(s.axis, s)
    BY <1>1, <1>2, <2>3, <2>4, <2>6, <2>7
  <2>9. g.w = s.w /\ g.h = s.h
    BY <1>1, <1>2, <2>4, <2>8 DEF Along, Across, Axes
  <2>10. s.w >= g.w /\ s.h >= g.h
    BY <1>1, <2>9
  <2> QED
    BY <1>1, <1>2, <1>4, <1>8, <2>2, <2>10, FitFills
<1> QED
  BY <1>2, <1>4, <1>5, <1>6, <1>7, <1>10, <1>11 DEF r, g

\* One left with more loses the child.
LEMMA ShortenedIs ==
    ASSUME NEW s \in Cells, ~ IsLeaf(s), Every(s, Settled),
           NEW i \in DOMAIN s.kids, IsLeaf(s.kids[i]), Len(s.kids) # 2
    PROVE  LET r == CloseKid(s, i) IN
           /\ r = [s EXCEPT !.kids = LeftOf(s, i)]
           /\ r \in AllCells /\ ~ IsLeaf(r) /\ r.w = s.w /\ r.h = s.h
           /\ AllPanes(r) = AllPanes(s) \ {s.kids[i].pane}
           /\ Every(r, Settled)
           /\ Every(s, Filled) => Every(r, Filled)
<1> DEFINE n == Len(s.kids)
           j == Heir(i)
           g == Grown(s, i)
           ks == LeftOf(s, i)
           r == CloseKid(s, i)
<1>1. /\ s \in AllCells /\ s.axis \in Axes /\ s.w \in Nat /\ s.h \in Nat
      /\ n \in Nat /\ DOMAIN s.kids = 1 .. n
      /\ \A k \in 1 .. n : s.kids[k] \in AllCells
  BY CellsAre, CellIs
<1>2. /\ j \in 1 .. n /\ j # i
      /\ g \in AllCells /\ AllPanes(g) = AllPanes(s.kids[j]) /\ Every(g, Settled)
      /\ Along(s.axis, g) = Along(s.axis, s.kids[j]) + Along(s.axis, s.kids[i]) + 1
      /\ Across(s.axis, g) = Across(s.axis, s.kids[j])
      /\ Every(s.kids[j], Filled) => Every(g, Filled)
  BY <1>1, GrownIs
<1>3. s \in Settled /\ s \in Shaped /\ (Every(s, Filled) => s \in Filled)
      /\ \A k \in 1 .. n : /\ Every(s.kids[k], Settled)
                           /\ Every(s, Filled) => Every(s.kids[k], Filled)
  BY <1>1, EveryIs, SettledIs
<1>4. n > 2
  <2>1. n >= 2
    BY <1>3 DEF Shaped
  <2>2. n \in Nat /\ n # 2
    BY <1>1
  <2> HIDE DEF n
  <2> QED
    BY <2>1, <2>2
<1>5. /\ ks \in Seq(AllCells) /\ Len(ks) = n - 1
      /\ \A k \in 1 .. n - 1 :
            /\ Was(i, k) \in (1 .. n) \ {i}
            /\ ks[k] = IF Was(i, k) = j THEN g ELSE s.kids[Was(i, k)]
      /\ \A k, l \in 1 .. n - 1 : Was(i, k) = Was(i, l) => k = l
      /\ \A q \in (1 .. n) \ {i} : \E k \in 1 .. n - 1 : Was(i, k) = q
  BY LeftAre
<1>6. r = [s EXCEPT !.kids = ks]
  <2>1. Len(ks) # 1
    BY <1>1, <1>4, <1>5
  <2> QED
    BY <2>1 DEF CloseKid, LeftOf, Grown
<1> HIDE DEF n, j, g, ks, r
<1>7. r \in AllCells /\ ~ IsLeaf(r) /\ r.axis = s.axis /\ r.kids = ks /\ r.w = s.w /\ r.h = s.h
  BY <1>1, <1>5, <1>6, WithKids
<1>8. Len(r.kids) = n - 1 /\ DOMAIN r.kids = 1 .. n - 1
  BY <1>1, <1>4, <1>5, <1>7
<1>9. i \in 1 .. n
  BY <1>1
<1>10. \A k \in 1 .. n - 1 : AllPanes(ks[k]) = AllPanes(s.kids[Was(i, k)])
  BY <1>2, <1>5
<1>11. ASSUME NEW k \in 1 .. n - 1, NEW l \in 1 .. n - 1, AllPanes(ks[k]) \cap AllPanes(ks[l]) # {}
       PROVE  k = l
  <2>1. AllPanes(s.kids[Was(i, k)]) \cap AllPanes(s.kids[Was(i, l)]) # {}
    BY <1>10, <1>11
  <2>2. Was(i, k) \in DOMAIN s.kids /\ Was(i, l) \in DOMAIN s.kids
    BY <1>1, <1>5
  <2>3. Was(i, k) = Was(i, l)
    BY <1>3, <2>1, <2>2 DEF Shaped
  <2> QED
    BY <1>5, <2>3
<1>12. \A k \in 1 .. n : Along(s.axis, s.kids[k]) \in Nat /\ Along(s.axis, s.kids[k]) >= PaneMin
                         /\ Across(s.axis, s.kids[k]) = Across(s.axis, s)
  <2>1. \A k \in 1 .. n : Along(s.axis, s.kids[k]) \in Nat
    BY <1>1, ExtentsAre
  <2> QED
    BY <1>1, <1>3, <2>1 DEF Settled
<1>13. ASSUME NEW k \in 1 .. n - 1
       PROVE  /\ Along(s.axis, ks[k]) >= PaneMin
              /\ Across(s.axis, ks[k]) = Across(s.axis, s)
              /\ Every(ks[k], Settled)
              /\ Every(s, Filled) => Every(ks[k], Filled)
  <2>1. CASE Was(i, k) = j
    <3>1. ks[k] = g
      BY <1>5, <2>1
    <3>2. Along(s.axis, g) >= PaneMin /\ Across(s.axis, g) = Across(s.axis, s)
      BY <1>2, <1>9, <1>12 DEF PaneMin
    <3> QED
      BY <1>2, <1>3, <3>1, <3>2
  <2>2. CASE Was(i, k) # j
    BY <1>3, <1>5, <1>12, <2>2
  <2> QED
    BY <2>1, <2>2
<1>14. Along(s.axis, r) = Along(s.axis, s) /\ Across(s.axis, r) = Across(s.axis, s)
  BY <1>7 DEF Along, Across
<1>15. r \in Settled
  <2>1. Len(r.kids) >= 2
    BY <1>1, <1>4, <1>8
  <2>2. r \in Shaped
    BY <1>7, <1>8, <1>11, <2>1 DEF Shaped
  <2> QED
    BY <1>7, <1>8, <1>13, <1>14, <2>2 DEF Settled
<1>16. Every(r, Settled)
  BY <1>7, <1>8, <1>13, <1>15, EveryIs
<1>17. Every(s, Filled) => Every(r, Filled)
  <2> SUFFICES ASSUME Every(s, Filled) PROVE r \in Filled
    BY <1>7, <1>8, <1>13, EveryIs
  <2> DEFINE t == Extents(s)
             e == Extents(r)
             nn == n - 1
             m == IF i > 1 THEN i - 1 ELSE 1
  <2>1. e \in Seq(Nat) /\ Len(e) = nn /\ \A k \in 1 .. nn : e[k] = Along(s.axis, ks[k])
    BY <1>7, <1>8, ExtentsAre
  <2>2. t \in Seq(Nat) /\ Len(t) = n /\ \A k \in 1 .. n : t[k] = Along(s.axis, s.kids[k])
    BY <1>1, ExtentsAre DEF n
  <2> HIDE DEF t, e
  <2>3. m \in 1 .. nn /\ nn \in Nat /\ n = nn + 1 /\ m \in 1 .. n /\ m + 1 \in 1 .. n
    BY <1>1, <1>4, <1>9
  <2>4. Was(i, m) = j /\ {m, m + 1} = {i, j}
    BY <1>1, <1>4, <1>9 DEF Was, j, Heir
  <2>5. \A k \in 1 .. nn : e[k] = IF k = m THEN t[i] + t[j] + 1 ELSE t[Was(i, k)]
    <3> SUFFICES ASSUME NEW k \in 1 .. nn
                 PROVE  e[k] = IF k = m THEN t[i] + t[j] + 1 ELSE t[Was(i, k)]
      OBVIOUS
    <3>1. CASE k = m
      <4>1. ks[k] = g
        BY <1>5, <2>4, <3>1
      <4>2. e[k] = Along(s.axis, s.kids[j]) + Along(s.axis, s.kids[i]) + 1
        BY <1>2, <2>1, <4>1
      <4>3. t[i] = Along(s.axis, s.kids[i]) /\ t[j] = Along(s.axis, s.kids[j])
        BY <1>2, <1>9, <2>2
      <4>4. Along(s.axis, s.kids[j]) \in Nat /\ Along(s.axis, s.kids[i]) \in Nat
        BY <1>2, <1>9, <1>12
      <4> QED
        BY <3>1, <4>2, <4>3, <4>4
    <3>2. CASE k # m
      <4>1. Was(i, k) # j
        BY <1>5, <2>3, <2>4, <3>2
      <4>2. ks[k] = s.kids[Was(i, k)] /\ Was(i, k) \in 1 .. n
        BY <1>5, <4>1
      <4> QED
        BY <2>1, <2>2, <3>2, <4>2
    <3> QED
      BY <3>1, <3>2
  <2>6. e[m] = t[m] + t[m + 1] + 1
    <3>1. t[i] \in Nat /\ t[j] \in Nat
      BY <1>2, <1>9, <1>12, <2>2
    <3>2. (m = i /\ m + 1 = j) \/ (m = j /\ m + 1 = i)
      BY <2>3, <2>4
    <3> QED
      BY <2>3, <2>5, <3>1, <3>2
  <2>7. \A k \in 1 .. m - 1 : e[k] = t[k]
    <3> SUFFICES ASSUME NEW k \in 1 .. m - 1 PROVE e[k] = t[k]
      OBVIOUS
    <3>1. k \in 1 .. nn /\ k # m /\ Was(i, k) = k
      BY <1>1, <1>4, <1>9 DEF Was
    <3> QED
      BY <2>5, <3>1
  <2>8. \A k \in m + 1 .. nn : e[k] = t[k + 1]
    <3> SUFFICES ASSUME NEW k \in m + 1 .. nn PROVE e[k] = t[k + 1]
      OBVIOUS
    <3>1. k \in 1 .. nn /\ k # m /\ Was(i, k) = k + 1
      BY <1>1, <1>4, <1>9 DEF Was
    <3> QED
      BY <2>5, <3>1
  <2> HIDE DEF m, nn
  <2>9. Total(e) = Total(t) + 1
    <3>1. Len(t) = nn + 1
      BY <2>2, <2>3
    <3> QED
      BY <2>1, <2>2, <2>3, <2>6, <2>7, <2>8, <3>1, SumOfMerged
  <2>10. Total(t) + n - 1 = Along(s.axis, s)
    BY <1>3 DEF Filled, FilledBy, t, n
  <2>11. Total(t) \in Nat /\ Total(e) \in Nat
    BY <2>1, <2>2, SumIs DEF Total
  <2>12. Total(e) + (n - 1) - 1 = Along(s.axis, r)
    BY <1>1, <1>14, <2>9, <2>10, <2>11
  <2>13. \A k \in DOMAIN r.kids : Across(r.axis, r.kids[k]) = Across(r.axis, r)
    BY <1>15 DEF Settled
  <2> QED
    BY <1>7, <1>8, <2>12, <2>13 DEF Filled, FilledBy, e
<1>18. AllPanes(r) = AllPanes(s) \ {s.kids[i].pane}
  <2>1. AllPanes(r) = UNION {AllPanes(ks[k]) : k \in 1 .. n - 1}
    BY <1>7, <1>8, AllPanesAre
  <2>2. AllPanes(s) = UNION {AllPanes(s.kids[k]) : k \in 1 .. n}
    BY <1>1, AllPanesAre
  <2>3. AllPanes(s.kids[i]) = {s.kids[i].pane}
    BY <1>1, <1>9, AllPanesAre
  <2>4. \A k \in (1 .. n) \ {i} : s.kids[i].pane \notin AllPanes(s.kids[k])
    BY <1>1, <1>3, <1>9, <2>3 DEF Shaped
  <2>5. AllPanes(r) \subseteq AllPanes(s) \ {s.kids[i].pane}
    <3> SUFFICES ASSUME NEW k \in 1 .. n - 1
                 PROVE  AllPanes(ks[k]) \subseteq AllPanes(s) \ {s.kids[i].pane}
      BY <2>1
    <3> QED
      BY <1>5, <1>10, <2>2, <2>4
  <2>6. AllPanes(s) \ {s.kids[i].pane} \subseteq AllPanes(r)
    <3> SUFFICES ASSUME NEW q \in (1 .. n) \ {i} PROVE AllPanes(s.kids[q]) \subseteq AllPanes(r)
      BY <2>2, <2>3
    <3>1. PICK k \in 1 .. n - 1 : Was(i, k) = q
      BY <1>5
    <3> QED
      BY <1>10, <2>1, <3>1
  <2> QED
    BY <2>5, <2>6
<1> QED
  BY <1>6, <1>7, <1>16, <1>17, <1>18 DEF r, ks

\* A part of a settled tree of few panes.
LEMMA PartIs ==
    ASSUME NEW c \in AllCells, Every(c, Settled), AllPanes(c) \subseteq 0 .. MaxPanes,
           NEW d \in AllParts(c)
    PROVE  /\ d \in AllCells /\ d \in Cells /\ AllPanes(d) \subseteq AllPanes(c)
           /\ Every(d, Settled) /\ Every(d, Shaped)
           /\ Every(c, Filled) => Every(d, Filled)
           /\ ~ IsLeaf(d) => d \in Settled /\ d \in Shaped
<1>1. d \in AllCells /\ AllPanes(d) \subseteq AllPanes(c)
  BY AllPartsAre, AllPanesAre
<1>2. Every(d, Settled) /\ (Every(c, Filled) => Every(d, Filled))
  BY EveryIs
<1>3. Every(d, Shaped)
  BY <1>2, SettledIs, EveryGrows
<1>4. d \in Cells
  BY <1>1, <1>3, FewPanesAreLow
<1>5. ~ IsLeaf(d) => d \in Settled /\ d \in Shaped
  BY <1>1, <1>2, <1>3, EveryIs
<1> QED
  BY <1>1, <1>2, <1>3, <1>4, <1>5

\* Closing a pane takes it out of the tree and changes nothing else that matters.
LEMMA CloseInIs ==
    ASSUME NEW c \in AllCells, ~ IsLeaf(c), Every(c, Settled),
           AllPanes(c) \subseteq 0 .. MaxPanes, NEW p \in AllPanes(c)
    PROVE  LET r == CloseIn(c, p) IN
           /\ r \in AllCells /\ r.w = c.w /\ r.h = c.h
           /\ AllPanes(r) = AllPanes(c) \ {p}
           /\ Every(r, Settled)
           /\ Every(c, Filled) => Every(r, Filled)
<1>1. PICK s \in AllParts(c) : ~ IsLeaf(s) /\ HasKid(s, p)
  BY ParentExists
<1>2. /\ s \in AllCells /\ s \in Cells /\ AllPanes(s) \subseteq AllPanes(c)
      /\ Every(s, Settled) /\ s \in Shaped /\ (Every(c, Filled) => Every(s, Filled))
  BY <1>1, PartIs
<1>3. c \in Cells /\ Every(c, Shaped)
  BY PartIs, AllPartsAre
<1>4. ParentOf(c, p) = s
  BY <1>1, <1>3, ParentOfIs
<1> DEFINE i == IndexOf(s, p)
           new == CloseKid(s, i)
<1>5. i \in DOMAIN s.kids /\ IsLeaf(s.kids[i]) /\ s.kids[i].pane = p
  BY <1>1, <1>2, IndexOfIs DEF IsKid
<1> HIDE DEF i
<1>6. AllPanes(s) \subseteq 0 .. MaxPanes
  BY <1>2
<1>7. /\ new \in AllCells /\ new.w = s.w /\ new.h = s.h
      /\ AllPanes(new) = AllPanes(s) \ {p}
      /\ Every(new, Settled)
      /\ Every(s, Filled) => Every(new, Filled)
  <2>1. CASE Len(s.kids) = 2
    BY <1>1, <1>2, <1>5, <1>6, <2>1, CollapsedIs
  <2>2. CASE Len(s.kids) # 2
    BY <1>1, <1>2, <1>5, <2>2, ShortenedIs
  <2> QED
    BY <2>1, <2>2
<1>8. CloseIn(c, p) = Put(c, s, new)
  BY <1>4 DEF CloseIn, i
<1> HIDE DEF new
<1>9. AllPanes(new) \cap (AllPanes(c) \ AllPanes(s)) = {}
  BY <1>7
<1> DEFINE r == Put(c, s, new)
<1>10. /\ r \in AllCells /\ r.w = c.w /\ r.h = c.h
       /\ AllPanes(r) = (AllPanes(c) \ AllPanes(s)) \cup AllPanes(new)
       /\ Every(r, Settled)
       /\ Every(c, Filled) /\ Every(new, Filled) => Every(r, Filled)
  BY <1>3, <1>7, <1>9, PutSettles
<1>11. p \in AllPanes(s)
  <2>1. s.kids[i] \in AllCells
    BY <1>1, <1>2, <1>5, CellIs
  <2>2. p \in AllPanes(s.kids[i])
    BY <1>5, <2>1, AllPanesAre
  <2> QED
    BY <1>1, <1>2, <1>5, <2>2, AllPanesAre
<1> HIDE DEF r
<1>12. AllPanes(r) = AllPanes(c) \ {p}
  BY <1>2, <1>7, <1>10, <1>11
<1> QED
  BY <1>2, <1>7, <1>8, <1>10, <1>12 DEF r

\* What a split puts in, and in whose place.
Divides(c, p, axis, new, s, i) ==
    /\ s \in AllParts(c) /\ ~ IsLeaf(s) /\ s.axis = axis
    /\ i \in DOMAIN s.kids /\ s.kids[i] = LeafOf(c, p)
    /\ SplitIn(c, p, axis, new) = Put(c, s, Divided(s, i, axis, new))
Wraps(c, p, axis, new) ==
    SplitIn(c, p, axis, new) = Put(c, LeafOf(c, p), Wrapped(LeafOf(c, p), axis, new))

\* split() divides in the parent or wraps the leaf.
LEMMA SplitCases ==
    ASSUME NEW c \in Cells, Every(c, Shaped), NEW p \in AllPanes(c), NEW axis \in Axes, NEW new
    PROVE  Wraps(c, p, axis, new) \/ \E s, i : Divides(c, p, axis, new, s, i)
<1>1. CASE ~ IsLeaf(c) /\ ParentOf(c, p).axis = axis
  <2>1. c \in AllCells
    BY CellsAre
  <2>2. PICK s \in AllParts(c) : ~ IsLeaf(s) /\ HasKid(s, p)
    BY <1>1, <2>1, ParentExists
  <2>3. ParentOf(c, p) = s
    BY <2>2, ParentOfIs
  <2>4. s \in AllCells /\ s \in Shaped
    BY <2>1, <2>2, AllPartsAre DEF Every
  <2> DEFINE i == IndexOf(s, p)
  <2>5. i \in DOMAIN s.kids /\ IsKid(p, s.kids[i])
    BY <2>2, <2>4, IndexOfIs
  <2> HIDE DEF i
  <2>6. s.kids[i] \in AllParts(c)
    BY <2>1, <2>2, <2>5, AllPartsAre, PartsWithin
  <2>7. s.kids[i] = LeafOf(c, p)
    BY <2>5, <2>6, LeafOfIs
  <2>8. SplitIn(c, p, axis, new) = Put(c, s, Divided(s, i, axis, new))
    BY <1>1, <2>3 DEF SplitIn, i
  <2> QED
    BY <1>1, <2>2, <2>3, <2>5, <2>7, <2>8 DEF Divides
<1>2. CASE ~ (~ IsLeaf(c) /\ ParentOf(c, p).axis = axis)
  BY <1>2 DEF Wraps, SplitIn
<1> QED
  BY <1>1, <1>2

\* Splitting a pane puts the new one in the tree and keeps what matters.
LEMMA SplitInIs ==
    ASSUME NEW c \in AllCells, Every(c, Settled), AllPanes(c) \subseteq 0 .. MaxPanes,
           NEW p \in AllPanes(c), NEW axis \in Axes, CanSplit(c, p, axis),
           NEW new \in Nat, new \notin AllPanes(c)
    PROVE  LET r == SplitIn(c, p, axis, new) IN
           /\ r \in AllCells /\ r.w = c.w /\ r.h = c.h
           /\ AllPanes(r) = AllPanes(c) \cup {new}
           /\ Every(r, Settled)
           /\ Every(c, Filled) => Every(r, Filled)
<1>1. c \in Cells /\ Every(c, Shaped)
  BY PartIs, AllPartsAre
<1> DEFINE leaf == LeafOf(c, p)
           r == SplitIn(c, p, axis, new)
<1>2. leaf \in AllParts(c) /\ IsLeaf(leaf) /\ leaf.pane = p /\ leaf \in AllCells
  BY <1>1, LeafOfIs
<1>3. Along(axis, leaf) >= 2 * PaneMin + 1
  BY DEF CanSplit
<1> HIDE DEF leaf, r
<1>4. ASSUME NEW old \in AllParts(c), NEW made \in AllCells, r = Put(c, old, made),
             made.w = old.w, made.h = old.h, AllPanes(made) = AllPanes(old) \cup {new},
             Every(made, Settled), Every(old, Filled) => Every(made, Filled)
      PROVE  /\ r \in AllCells /\ r.w = c.w /\ r.h = c.h
             /\ AllPanes(r) = AllPanes(c) \cup {new}
             /\ Every(r, Settled)
             /\ Every(c, Filled) => Every(r, Filled)
  <2>1. AllPanes(old) \subseteq AllPanes(c) /\ (Every(c, Filled) => Every(old, Filled))
    BY PartIs
  <2>2. AllPanes(made) \cap (AllPanes(c) \ AllPanes(old)) = {}
    BY <1>4
  <2> DEFINE q == Put(c, old, made)
  <2>3. /\ q \in AllCells /\ q.w = c.w /\ q.h = c.h
        /\ AllPanes(q) = (AllPanes(c) \ AllPanes(old)) \cup AllPanes(made)
        /\ Every(q, Settled)
        /\ Every(c, Filled) /\ Every(made, Filled) => Every(q, Filled)
    BY <1>1, <1>4, <2>2, PutSettles
  <2>4. AllPanes(q) = AllPanes(c) \cup {new}
    BY <1>4, <2>1, <2>3
  <2> QED
    BY <1>4, <2>1, <2>3, <2>4
<1>5. CASE Wraps(c, p, axis, new)
  <2> DEFINE made == Wrapped(leaf, axis, new)
  <2>1. new # leaf.pane
    BY <1>2
  <2>2. /\ made \in AllCells /\ made.w = leaf.w /\ made.h = leaf.h
        /\ AllPanes(made) = {leaf.pane, new} /\ Every(made, Settled) /\ Every(made, Filled)
    BY <1>2, <1>3, <2>1, WrappedIs
  <2>3. r = Put(c, leaf, made)
    BY <1>5 DEF Wraps, r, leaf
  <2> HIDE DEF made
  <2>4. AllPanes(made) = AllPanes(leaf) \cup {new}
    BY <1>2, <2>2, AllPanesAre
  <2> QED
    BY <1>2, <1>4, <2>2, <2>3, <2>4 DEF r
<1>6. CASE \E s, i : Divides(c, p, axis, new, s, i)
  <2>1. PICK s, i : Divides(c, p, axis, new, s, i)
    BY <1>6
  <2>2. /\ s \in AllParts(c) /\ ~ IsLeaf(s) /\ s.axis = axis
        /\ i \in DOMAIN s.kids /\ s.kids[i] = leaf
        /\ r = Put(c, s, Divided(s, i, s.axis, new))
    BY <2>1 DEF Divides, r, leaf
  <2>3. s \in AllCells /\ Every(s, Settled) /\ new \notin AllPanes(s)
    BY <2>2, PartIs
  <2> DEFINE made == Divided(s, i, s.axis, new)
  <2>4. /\ made \in AllCells /\ made.w = s.w /\ made.h = s.h
        /\ AllPanes(made) = AllPanes(s) \cup {new}
        /\ Every(made, Settled)
        /\ Every(s, Filled) => Every(made, Filled)
    <3>1. ~ IsLeaf(s) /\ IsLeaf(s.kids[i]) /\ Along(s.axis, s.kids[i]) >= 2 * PaneMin + 1
      BY <1>2, <1>3, <2>2
    <3> QED
      BY <2>2, <2>3, <3>1, DividedKeeps
  <2> HIDE DEF made
  <2>5. r = Put(c, s, made)
    BY <2>2 DEF made
  <2> QED
    BY <1>4, <2>2, <2>4, <2>5 DEF r
<1> QED
  BY <1>1, <1>5, <1>6, SplitCases DEF r

-----------------------------------------------------------------------------
(* close() after split().                                                  *)

\* A leaf is its fields.
LEMMA LeafOfFields ==
    ASSUME NEW l \in AllCells, IsLeaf(l)
    PROVE  l = Leaf(l.pane, l.w, l.h) /\ l.pane \in Nat /\ l.w \in Nat /\ l.h \in Nat /\ l \in Cells
<1>1. l \in Leaves
  BY CellIs
<1>2. l = Leaf(l.pane, l.w, l.h) /\ l.pane \in Nat /\ l.w \in Nat /\ l.h \in Nat
  BY <1>1 DEF Leaves, Leaf
<1> QED
  BY <1>1, <1>2, CellsAre

\* The pane a leaf is fitted to is all that stays of it.
LEMMA LeafFits ==
    ASSUME NEW l \in AllCells, IsLeaf(l), NEW w \in Nat, NEW h \in Nat
    PROVE  Fit(l, w, h) = Leaf(l.pane, w, h)
BY LeafOfFields, FitIs

\* Two leaves of one pane and one size are one.
LEMMA SameLeaf ==
    ASSUME NEW l \in AllCells, IsLeaf(l), NEW m \in AllCells, IsLeaf(m), l.pane = m.pane,
           NEW axis \in Axes, Along(axis, l) = Along(axis, m), Across(axis, l) = Across(axis, m)
    PROVE  l = m
<1>1. l.w = m.w /\ l.h = m.h
  BY DEF Along, Across, Axes
<1> QED
  BY <1>1, LeafOfFields

\* A leaf that was wrapped comes out of it as it was.
LEMMA UnwrapIs ==
    ASSUME NEW leaf \in AllCells, IsLeaf(leaf), NEW axis \in Axes,
           NEW new \in Nat, new # leaf.pane, Along(axis, leaf) >= 2 * PaneMin + 1,
           leaf.pane <= MaxPanes, new <= MaxPanes
    PROVE  LET s == Wrapped(leaf, axis, new) IN
           s \in Shaped /\ HasKid(s, new) /\ CloseKid(s, IndexOf(s, new)) = leaf
<1> DEFINE s == Wrapped(leaf, axis, new)
           a == Halves(leaf, axis, new)[1]
           b == Halves(leaf, axis, new)[2]
           g == Grown(s, 2)
<1>1. /\ s \in AllCells /\ ~ IsLeaf(s) /\ s.w = leaf.w /\ s.h = leaf.h /\ s.axis = axis
      /\ s.kids = Halves(leaf, axis, new) /\ Len(s.kids) = 2
      /\ AllPanes(s) = {leaf.pane, new} /\ Every(s, Settled)
  BY WrappedIs
<1>2. /\ Halves(leaf, axis, new) = <<a, b>>
      /\ a \in AllCells /\ IsLeaf(a) /\ a.pane = leaf.pane
      /\ b \in AllCells /\ IsLeaf(b) /\ b.pane = new
  BY HalvesAre
<1> HIDE DEF s, a, b
<1>3. DOMAIN s.kids = 1 .. 2 /\ s.kids[1] = a /\ s.kids[2] = b
  BY <1>1, <1>2
<1>4. Every(s, Shaped) /\ s \in Shaped
  BY <1>1, SettledIs, EveryGrows, EveryIs
<1>5. AllPanes(s) \subseteq 0 .. MaxPanes
  BY <1>1, LeafOfFields, BoundsAssumption
<1>6. s \in Cells
  BY <1>1, <1>4, <1>5, FewPanesAreLow
<1>7. HasKid(s, new) /\ IndexOf(s, new) = 2
  <2>1. 2 \in DOMAIN s.kids /\ IsKid(new, s.kids[2])
    BY <1>2, <1>3 DEF IsKid
  <2>2. HasKid(s, new)
    BY <2>1 DEF HasKid
  <2> QED
    BY <1>4, <2>1, <2>2, IndexOfIs
<1>8. CloseKid(s, 2) = Fit(g, s.w, s.h)
  <2> DEFINE j == 2
  <2>1. j \in DOMAIN s.kids /\ IsLeaf(s.kids[j])
    BY <1>2, <1>3
  <2> HIDE DEF j
  <2>2. CloseKid(s, j) = Fit(Grown(s, j), s.w, s.h)
    BY <1>1, <1>5, <1>6, <2>1, CollapsedIs
  <2> QED
    BY <2>2 DEF j
<1>9. PICK w \in Nat, h \in Nat : g = Fit(a, w, h)
  <2> DEFINE j == 2
  <2>1. j \in DOMAIN s.kids /\ Heir(j) = 1
    BY <1>3 DEF Heir
  <2> HIDE DEF j
  <2>2. \E w, h \in Nat : Grown(s, j) = Fit(s.kids[Heir(j)], w, h)
    BY <1>1, <1>6, <2>1, GrownIs
  <2> QED
    BY <1>3, <2>1, <2>2 DEF j
<1>10. g = Leaf(leaf.pane, w, h)
  BY <1>2, <1>9, LeafFits
<1>11. leaf = Leaf(leaf.pane, leaf.w, leaf.h) /\ leaf.pane \in Nat /\ leaf.w \in Nat /\ leaf.h \in Nat
  BY LeafOfFields
<1>12. g \in AllCells /\ IsLeaf(g) /\ g.pane = leaf.pane
  <2> DEFINE q == leaf.pane
             l == Leaf(q, w, h)
  <2>1. q \in Nat /\ g = l
    BY <1>10, <1>11
  <2> HIDE DEF q
  <2>2. l \in AllCells /\ IsLeaf(l) /\ l.pane = q
    BY <2>1, LeafIs
  <2> QED
    BY <2>1, <2>2 DEF q
<1> HIDE DEF g
<1>13. Fit(g, leaf.w, leaf.h) = leaf
  BY <1>11, <1>12, LeafFits
<1> QED
  BY <1>1, <1>4, <1>7, <1>8, <1>13 DEF s

\* And so does one that was divided where it stood.
LEMMA UndivideIs ==
    ASSUME NEW s \in AllCells, ~ IsLeaf(s), Every(s, Settled), NEW i \in DOMAIN s.kids,
           IsLeaf(s.kids[i]), NEW new \in Nat, new \notin AllPanes(s),
           Along(s.axis, s.kids[i]) >= 2 * PaneMin + 1,
           AllPanes(s) \subseteq 0 .. MaxPanes, new <= MaxPanes
    PROVE  LET d == Divided(s, i, s.axis, new) IN
           d \in Shaped /\ HasKid(d, new) /\ CloseKid(d, IndexOf(d, new)) = s
<1> DEFINE n == Len(s.kids)
           leaf == s.kids[i]
           d == Divided(s, i, s.axis, new)
           a == Halves(leaf, s.axis, new)[1]
           b == Halves(leaf, s.axis, new)[2]
           j == i + 1
           g == Grown(d, j)
           ks == LeftOf(d, j)
<1>1. /\ s.axis \in Axes /\ s.kids \in Seq(AllCells) /\ n \in Nat /\ DOMAIN s.kids = 1 .. n
      /\ \A k \in 1 .. n : s.kids[k] \in AllCells
  BY CellIs
<1>2. n >= 2
  <2>1. s \in Shaped
    BY EveryIs, SettledIs
  <2> QED
    BY <2>1 DEF Shaped
<1>3. /\ a \in AllCells /\ IsLeaf(a) /\ a.pane = leaf.pane
      /\ b \in AllCells /\ IsLeaf(b) /\ b.pane = new
      /\ Along(s.axis, a) \in Nat /\ Along(s.axis, b) \in Nat
      /\ Along(s.axis, leaf) = Along(s.axis, a) + Along(s.axis, b) + 1
      /\ Along(s.axis, a) >= PaneMin /\ Along(s.axis, b) >= PaneMin
      /\ Across(s.axis, a) = Across(s.axis, leaf) /\ Across(s.axis, b) = Across(s.axis, leaf)
  <2>1. leaf \in AllCells /\ IsLeaf(leaf) /\ Along(s.axis, leaf) >= 2 * PaneMin + 1
    BY <1>1
  <2> HIDE DEF leaf
  <2> QED
    BY ONLY <1>1, <2>1, HalvesAre, Zenon
<1>4. /\ d \in AllCells /\ ~ IsLeaf(d) /\ d.axis = s.axis /\ d.w = s.w /\ d.h = s.h
      /\ d = [s EXCEPT !.kids = d.kids]
      /\ Len(d.kids) = n + 1
      /\ \A k \in 1 .. n + 1 :
            d.kids[k] = IF k < i THEN s.kids[k] ELSE IF k = i THEN a
                        ELSE IF k = i + 1 THEN b ELSE s.kids[k - 1]
      /\ AllPanes(d) = AllPanes(s) \cup {new}
      /\ Every(d, Settled)
  BY DividedIs
<1> HIDE DEF d, a, b
<1>5. DOMAIN d.kids = 1 .. n + 1
  BY <1>4, CellIs
<1>6. leaf \in AllCells /\ i \in 1 .. n
  BY <1>1
<1> HIDE DEF n, leaf
<1>7. /\ i \in 1 .. n + 1 /\ j \in 1 .. n + 1 /\ j > 1 /\ Heir(j) = i /\ n + 1 # 2
      /\ d.kids[i] = a /\ d.kids[j] = b
  BY <1>1, <1>2, <1>4, <1>6 DEF Heir
<1> HIDE DEF j
<1>8. Every(d, Shaped) /\ d \in Shaped
  BY <1>4, SettledIs, EveryGrows, EveryIs
<1>9. AllPanes(d) \subseteq 0 .. MaxPanes
  BY <1>4, BoundsAssumption
<1>10. d \in Cells
  BY <1>4, <1>8, <1>9, FewPanesAreLow
<1>11. HasKid(d, new) /\ IndexOf(d, new) = j
  <2>1. j \in DOMAIN d.kids /\ IsKid(new, d.kids[j])
    BY <1>3, <1>5, <1>7 DEF IsKid
  <2>2. HasKid(d, new)
    BY <2>1 DEF HasKid
  <2> QED
    BY <1>8, <2>1, <2>2, IndexOfIs
<1>12. j \in DOMAIN d.kids /\ IsLeaf(d.kids[j]) /\ Len(d.kids) # 2
  BY <1>3, <1>4, <1>5, <1>7
<1>13. CloseKid(d, j) = [d EXCEPT !.kids = ks]
  BY <1>4, <1>10, <1>12, ShortenedIs
<1>14. /\ ks \in Seq(AllCells) /\ Len(ks) = Len(d.kids) - 1
       /\ \A k \in 1 .. Len(d.kids) - 1 :
             /\ Was(j, k) \in (1 .. Len(d.kids)) \ {j}
             /\ ks[k] = IF Was(j, k) = Heir(j) THEN g ELSE d.kids[Was(j, k)]
  BY <1>4, <1>10, <1>12, LeftAre
<1>15. g = leaf
  <2>1. /\ g \in AllCells
        /\ Along(s.axis, g) = Along(s.axis, a) + Along(s.axis, b) + 1
        /\ Across(s.axis, g) = Across(s.axis, a)
        /\ \E w, h \in Nat : g = Fit(a, w, h)
    BY <1>4, <1>7, <1>10, <1>12, GrownIs
  <2>2. PICK w \in Nat, h \in Nat : g = Fit(a, w, h)
    BY <2>1
  <2>3. g = Leaf(leaf.pane, w, h)
    BY <1>3, <2>2, LeafFits
  <2>4. leaf.pane \in Nat /\ IsLeaf(leaf)
    BY <1>6, LeafOfFields DEF leaf
  <2> DEFINE q == leaf.pane
             l == Leaf(q, w, h)
  <2>5. q \in Nat /\ g = l
    BY <2>3, <2>4
  <2> HIDE DEF g, q
  <2>6. IsLeaf(l) /\ l.pane = q
    BY <2>5, LeafIs
  <2>7. IsLeaf(g) /\ g.pane = leaf.pane
    BY <2>5, <2>6 DEF q
  <2> QED
    BY <1>1, <1>3, <1>6, <2>1, <2>4, <2>7, SameLeaf
<1> HIDE DEF g, ks
<1>16. Len(ks) = n
  BY <1>1, <1>4, <1>14
<1>17. ASSUME NEW k \in 1 .. n PROVE ks[k] = s.kids[k]
  <2>1. k \in 1 .. Len(d.kids) - 1
    BY <1>1, <1>4
  <2>2. ks[k] = IF Was(j, k) = i THEN g ELSE d.kids[Was(j, k)]
    BY <1>7, <1>14, <2>1
  <2>3. CASE k = i
    <3>1. Was(j, k) = i
      BY <1>1, <1>6, <2>3 DEF Was, j
    <3> QED
      BY <1>15, <2>2, <2>3, <3>1 DEF leaf
  <2>4. CASE k < i
    <3>1. Was(j, k) = k /\ k # i /\ k \in 1 .. n + 1
      BY <1>1, <1>6, <2>4 DEF Was, j
    <3> QED
      BY <1>4, <2>2, <2>4, <3>1
  <2>5. CASE k > i
    <3>1. Was(j, k) = k + 1 /\ k + 1 # i /\ k + 1 \in 1 .. n + 1
          /\ ~ (k + 1 < i) /\ k + 1 # i + 1 /\ (k + 1) - 1 = k
      BY <1>1, <1>6, <2>5 DEF Was, j
    <3> QED
      BY <1>4, <2>2, <3>1
  <2> QED
    BY <1>1, <1>6, <2>3, <2>4, <2>5
<1>18. ks = s.kids
  <2>1. ks \in Seq(AllCells) /\ s.kids \in Seq(AllCells) /\ Len(s.kids) = n
    BY <1>14, CellIs DEF n
  <2> HIDE DEF n
  <2>2. \A t, u \in Seq(AllCells) :
           Len(t) = n /\ Len(u) = n /\ (\A k \in 1 .. n : t[k] = u[k]) => t = u
    OBVIOUS
  <2> QED
    BY ONLY <1>16, <1>17, <2>1, <2>2
<1>19. [d EXCEPT !.kids = s.kids] = s
  <2>1. s \in SplitsOver(AllCells) /\ d \in SplitsOver(AllCells)
    BY <1>4, CellIs
  <2> QED
    BY <1>4, <2>1 DEF SplitsOver
<1> QED
  BY <1>8, <1>11, <1>13, <1>18, <1>19 DEF d

\* Closing the pane just made undoes the split that made it.
LEMMA SplitBack ==
    ASSUME NEW c \in AllCells, Every(c, Settled), AllPanes(c) \subseteq 0 .. MaxPanes,
           NEW p \in AllPanes(c), NEW axis \in Axes, CanSplit(c, p, axis),
           NEW new \in Nat, new \notin AllPanes(c), new <= MaxPanes
    PROVE  CloseIn(SplitIn(c, p, axis, new), new) = c
<1> DEFINE leaf == LeafOf(c, p)
           r == SplitIn(c, p, axis, new)
<1>1. c \in Cells /\ Every(c, Shaped)
  BY PartIs, AllPartsAre
<1>2. leaf \in AllParts(c) /\ IsLeaf(leaf) /\ leaf.pane = p /\ leaf \in AllCells
  BY <1>1, LeafOfIs
<1>3. Along(axis, leaf) >= 2 * PaneMin + 1
  BY DEF CanSplit
<1>4. p \in 0 .. MaxPanes /\ p # new
  OBVIOUS
<1>5. /\ r \in AllCells /\ AllPanes(r) = AllPanes(c) \cup {new} /\ Every(r, Settled)
  BY SplitInIs
<1> HIDE DEF leaf, r
<1>6. r \in Cells /\ Every(r, Shaped)
  <2>1. AllPanes(r) \subseteq 0 .. MaxPanes
    BY <1>5, BoundsAssumption
  <2> QED
    BY <1>5, <2>1, PartIs, AllPartsAre
\* Both ways a cell took another's place, and is found by the new pane.
<1>7. ASSUME NEW old \in AllParts(c), NEW made \in AllCells, r = Put(c, old, made),
             made.w = old.w, made.h = old.h, AllPanes(made) = AllPanes(old) \cup {new},
             Every(made, Settled),
             made \in Shaped /\ HasKid(made, new) /\ CloseKid(made, IndexOf(made, new)) = old
      PROVE  CloseIn(r, new) = c
  <2>1. AllPanes(old) \subseteq AllPanes(c)
    BY PartIs
  <2>2. AllPanes(made) \cap (AllPanes(c) \ AllPanes(old)) = {} /\ new \in AllPanes(made)
    BY <1>7
  <2> DEFINE q == Put(c, old, made)
  <2>3. made \in AllParts(q)
    BY <1>1, <1>7, <2>2, PutSettles
  <2>4. q \in Cells
    BY <1>6, <1>7
  <2>5. Put(q, made, old) = c
    BY <1>1, <1>7, <2>2, <2>4, PutBack
  <2> HIDE DEF q
  <2>6. made \in AllParts(r) /\ ~ IsLeaf(made)
    BY <1>7, <2>3 DEF q, Shaped
  <2>7. ParentOf(r, new) = made
    BY <1>6, <1>7, <2>6, ParentOfIs
  <2> QED
    BY <1>7, <2>5, <2>7 DEF CloseIn, q
<1>8. CASE Wraps(c, p, axis, new)
  <2> DEFINE made == Wrapped(leaf, axis, new)
  <2>1. new # leaf.pane /\ leaf.pane <= MaxPanes
    BY <1>2, <1>4
  <2>2. /\ made \in AllCells /\ made.w = leaf.w /\ made.h = leaf.h
        /\ AllPanes(made) = {leaf.pane, new} /\ Every(made, Settled)
    BY <1>2, <1>3, <2>1, WrappedIs
  <2>3. made \in Shaped /\ HasKid(made, new) /\ CloseKid(made, IndexOf(made, new)) = leaf
    BY <1>2, <1>3, <2>1, UnwrapIs
  <2>4. r = Put(c, leaf, made)
    BY <1>8 DEF Wraps, r, leaf
  <2> HIDE DEF made
  <2>5. AllPanes(made) = AllPanes(leaf) \cup {new}
    BY <1>2, <2>2, AllPanesAre
  <2> QED
    BY <1>2, <1>7, <2>2, <2>3, <2>4, <2>5 DEF r
<1>9. CASE \E s, i : Divides(c, p, axis, new, s, i)
  <2>1. PICK s, i : Divides(c, p, axis, new, s, i)
    BY <1>9
  <2>2. /\ s \in AllParts(c) /\ ~ IsLeaf(s) /\ s.axis = axis
        /\ i \in DOMAIN s.kids /\ s.kids[i] = leaf
        /\ r = Put(c, s, Divided(s, i, s.axis, new))
    BY <2>1 DEF Divides, r, leaf
  <2>3. s \in AllCells /\ Every(s, Settled) /\ AllPanes(s) \subseteq AllPanes(c)
    BY <2>2, PartIs
  <2>4. new \notin AllPanes(s) /\ AllPanes(s) \subseteq 0 .. MaxPanes
    BY <2>3
  <2>5. IsLeaf(s.kids[i]) /\ Along(s.axis, s.kids[i]) >= 2 * PaneMin + 1
    BY <1>2, <1>3, <2>2
  <2> DEFINE made == Divided(s, i, s.axis, new)
  <2>6. /\ made \in AllCells /\ made.w = s.w /\ made.h = s.h
        /\ AllPanes(made) = AllPanes(s) \cup {new} /\ Every(made, Settled)
    BY <2>2, <2>3, <2>4, <2>5, DividedKeeps
  <2>7. made \in Shaped /\ HasKid(made, new) /\ CloseKid(made, IndexOf(made, new)) = s
    BY <2>2, <2>3, <2>4, <2>5, UndivideIs
  <2>8. r = Put(c, s, made)
    BY <2>2
  <2> HIDE DEF made
  <2> QED
    BY <1>7, <2>2, <2>6, <2>7, <2>8 DEF r
<1> QED
  BY <1>1, <1>8, <1>9, SplitCases DEF r

-----------------------------------------------------------------------------
(* Sequences: what Only and FlattenSeq return.                             *)

\* What Only has kept of the first i, one after the other.
KeepsOnly(f, X, s, S) ==
    /\ f \in [0 .. Len(s) -> Seq(X)] /\ f[0] = <<>> /\ Only(s, S) = f[Len(s)]
    /\ \A i \in 1 .. Len(s) :
          f[i] = IF s[i] \in S THEN Append(f[i - 1], s[i]) ELSE f[i - 1]

\* The function Only computes with.
LEMMA OnlySteps ==
    ASSUME NEW X, NEW s \in Seq(X), NEW S
    PROVE  \E f : KeepsOnly(f, X, s, S)
<1> DEFINE n == Len(s)
           V == Seq(X)
           step == [x \in (1 .. n) \X V |->
                      IF s[x[1]] \in S THEN Append(x[2], s[x[1]]) ELSE x[2]]
           More(f, i) == IF s[i] \in S THEN Append(f[i - 1], s[i]) ELSE f[i - 1]
           Rec(f) == [i \in 0 .. n |-> IF i = 0 THEN <<>> ELSE More(f, i)]
           Good(f) == f \in [0 .. n -> V] /\ f[0] = <<>> /\ \A i \in 1 .. n : f[i] = More(f, i)
<1>1. n \in Nat /\ \A k \in 1 .. n : s[k] \in X
  OBVIOUS
<1>2. step \in [(1 .. n) \X V -> V] /\ <<>> \in V
  <2>1. \A v \in V, k \in 1 .. n : Append(v, s[k]) \in V
    BY <1>1
  <2> HIDE DEF n, V
  <2>2. step \in [(1 .. n) \X V -> V]
    BY <2>1
  <2> QED
    BY <2>2 DEF V
<1>3. \A k \in 1 .. n, v \in V : step[k, v] = IF s[k] \in S THEN Append(v, s[k]) ELSE v
  OBVIOUS
<1> DEFINE none == <<>>
<1> HIDE DEF step, V, none
<1>4. PICK f : Recurs(f, V, none, n, step)
  BY <1>1, <1>2, RecursionExists DEF none
<1>5. Good(f)
  <2> SUFFICES ASSUME NEW i \in 1 .. n
               PROVE  f[i] = More(f, i)
    BY <1>4 DEF Recurs, none
  <2>1. i - 1 \in 0 .. n
    BY <1>1
  <2> HIDE DEF n
  <2>2. f[i - 1] \in V /\ f[i] = step[i, f[i - 1]]
    BY <1>4, <2>1 DEF Recurs
  <2> QED
    BY <1>3, <2>2
<1>6. f = Rec(f)
  <2> HIDE DEF n, More
  <2>1. \A i \in 0 .. n : f[i] = IF i = 0 THEN <<>> ELSE More(f, i)
    BY <1>1, <1>5
  <2> QED
    BY <1>5, <2>1
<1> DEFINE kept == CHOOSE h : h = Rec(h)
<1>7. kept = Rec(kept)
  <2> HIDE DEF Rec
  <2> QED
    BY <1>6
<1>8. Only(s, S) = kept[n]
  BY DEF Only
<1> HIDE DEF kept
<1>9. kept[0] = <<>> /\ \A i \in 1 .. n : kept[i] = More(kept, i)
  <2> HIDE DEF n, More
  <2> QED
    BY <1>1, <1>7
<1> DEFINE T == {k \in Nat : k <= n => kept[k] = f[k]}
<1>10. 0 \in T
  BY <1>5, <1>9
<1>11. ASSUME NEW k \in Nat, k \in T PROVE k + 1 \in T
  <2> SUFFICES ASSUME k + 1 <= n PROVE kept[k + 1] = f[k + 1]
    OBVIOUS
  <2> DEFINE m == k + 1
  <2>1. m \in 1 .. n /\ m - 1 = k /\ kept[k] = f[k]
    BY <1>1, <1>11
  <2> HIDE DEF m
  <2>2. kept[m] = f[m]
    BY <1>5, <1>9, <2>1
  <2> QED
    BY <2>2 DEF m
<1>12. Nat \subseteq T
  <2> HIDE DEF T
  <2> QED
    BY <1>10, <1>11, Climb
<1>13. kept[n] = f[n]
  BY <1>1, <1>12
<1> QED
  BY <1>5, <1>8, <1>13 DEF V, KeepsOnly

\* What it keeps: those in S, each once if each was there once, and all when all
\* are in S.
LEMMA OnlyIs ==
    ASSUME NEW X, NEW s \in Seq(X), NEW S
    PROVE  /\ Only(s, S) \in Seq(X)
           /\ ToSet(Only(s, S)) = ToSet(s) \cap S
           /\ (\A i, j \in 1 .. Len(s) : s[i] = s[j] => i = j) =>
                 \A i, j \in 1 .. Len(Only(s, S)) : Only(s, S)[i] = Only(s, S)[j] => i = j
           /\ (\A i \in 1 .. Len(s) : s[i] \in S) => Only(s, S) = s
           /\ Len(s) > 0 /\ s[Len(s)] \in S =>
                 Len(Only(s, S)) > 0 /\ Only(s, S)[Len(Only(s, S))] = s[Len(s)]
<1> DEFINE n == Len(s)
<1>1. n \in Nat /\ DOMAIN s = 1 .. n /\ \A k \in 1 .. n : s[k] \in X
  OBVIOUS
<1>0. PICK f : KeepsOnly(f, X, s, S)
  BY OnlySteps
<1>2. /\ f \in [0 .. n -> Seq(X)] /\ f[0] = <<>> /\ Only(s, S) = f[n]
      /\ \A i \in 1 .. n : f[i] = IF s[i] \in S THEN Append(f[i - 1], s[i]) ELSE f[i - 1]
  BY <1>0 DEF KeepsOnly
<1> HIDE DEF n
<1> DEFINE Upto(k) == {s[i] : i \in 1 .. k}
           Once(t) == \A i, j \in 1 .. Len(t) : t[i] = t[j] => i = j
           Good(k) == /\ ToSet(f[k]) = Upto(k) \cap S
                      /\ Once(s) => Once(f[k])
                      /\ (\A i \in 1 .. n : s[i] \in S) =>
                            Len(f[k]) = k /\ \A i \in 1 .. k : f[k][i] = s[i]
           T == {k \in Nat : k <= n => Good(k)}
<1>3. ASSUME NEW k \in Nat, k + 1 <= n, Good(k) PROVE Good(k + 1)
  <2>0. k + 1 \in 1 .. n /\ (k + 1) - 1 = k /\ k \in 0 .. n /\ k + 1 \in 0 .. n
    <3> HIDE DEF Good
    <3> QED
      BY <1>1, <1>3
  <2> DEFINE m == k + 1
             t == f[k]
             u == f[m]
  <2>1. m \in 1 .. n /\ m - 1 = k /\ k \in 0 .. n /\ m \in 0 .. n
    BY <2>0
  <2>2. t \in Seq(X) /\ u \in Seq(X) /\ s[m] \in X
    BY <1>1, <1>2, <2>1
  <2>3. u = IF s[m] \in S THEN Append(t, s[m]) ELSE t
    BY <1>2, <2>1
  <2>4. Upto(m) = Upto(k) \cup {s[m]}
    BY <2>1
  <2>5. /\ ToSet(t) = Upto(k) \cap S
        /\ Once(s) => Once(t)
        /\ (\A i \in 1 .. n : s[i] \in S) => Len(t) = k /\ \A i \in 1 .. k : t[i] = s[i]
    BY <1>3
  <2>6. Once(s) => s[m] \notin Upto(k)
    BY <1>1, <2>1 DEF n
  <2> HIDE DEF t, u, m, Upto
  <2>7. ToSet(t) = {t[i] : i \in 1 .. Len(t)} /\ ToSet(u) = {u[i] : i \in 1 .. Len(u)}
    BY <2>2 DEF ToSet
  <2>8. CASE s[m] \in S
    <3>1. u = Append(t, s[m])
      BY <2>3, <2>8
    <3>2. Len(u) = Len(t) + 1 /\ Len(t) \in Nat /\ u[Len(t) + 1] = s[m]
          /\ \A i \in 1 .. Len(t) : u[i] = t[i]
      BY <2>2, <3>1
    <3>3. ToSet(u) = ToSet(t) \cup {s[m]}
      BY <2>7, <3>2
    <3>4. ToSet(u) = Upto(m) \cap S
      BY <2>4, <2>5, <2>8, <3>3
    <3>5. Once(s) => Once(u)
      <4> SUFFICES ASSUME Once(s), NEW i \in 1 .. Len(u), NEW j \in 1 .. Len(u), u[i] = u[j]
                   PROVE  i = j
        BY DEF Once
      <4>1. Once(t) /\ s[m] \notin ToSet(t)
        BY <2>5, <2>6
      <4>2. \A q \in 1 .. Len(t) : u[q] # s[m]
        BY <2>7, <3>2, <4>1
      <4> QED
        BY <3>2, <4>1, <4>2 DEF Once
    <3>6. (\A i \in 1 .. n : s[i] \in S) => Len(u) = m /\ \A i \in 1 .. m : u[i] = s[i]
      BY <2>1, <2>5, <3>2 DEF m
    <3> QED
      BY <3>4, <3>5, <3>6 DEF u, m
  <2>9. CASE s[m] \notin S
    BY <2>1, <2>3, <2>4, <2>5, <2>9 DEF u, m
  <2> QED
    BY <2>8, <2>9
<1>4. 0 \in T
  <2>1. f[0] = <<>> /\ Upto(0) = {}
    BY <1>2
  <2> QED
    BY <2>1 DEF ToSet
<1>5. ASSUME NEW k \in Nat, k \in T PROVE k + 1 \in T
  <2> HIDE DEF Good
  <2> QED
    BY <1>1, <1>3, <1>5
<1>6. Nat \subseteq T
  <2> HIDE DEF T
  <2> QED
    BY <1>4, <1>5, Climb
<1>7. Good(n)
  <2> HIDE DEF Good
  <2> QED
    BY <1>1, <1>6
<1> DEFINE r == Only(s, S)
<1>8. r \in Seq(X) /\ r = f[n]
  BY <1>1, <1>2
<1>9. Upto(n) = ToSet(s)
  BY <1>1 DEF ToSet
<1>10. n > 0 /\ s[n] \in S => Len(r) > 0 /\ r[Len(r)] = s[n]
  <2> SUFFICES ASSUME n > 0, s[n] \in S PROVE Len(r) > 0 /\ r[Len(r)] = s[n]
    OBVIOUS
  <2>1. n \in 1 .. n /\ n - 1 \in 0 .. n
    BY <1>1
  <2>2. f[n] = Append(f[n - 1], s[n]) /\ f[n - 1] \in Seq(X) /\ s[n] \in X
    BY <1>1, <1>2, <2>1
  <2> QED
    BY <1>8, <2>2
<1> HIDE DEF r
<1>11. (\A i \in 1 .. n : s[i] \in S) => r = s
  BY <1>1, <1>7, <1>8 DEF n
<1> QED
  BY <1>7, <1>8, <1>9, <1>10, <1>11 DEF r, n

\* What FlattenSeq has put together of the first i, one after the other.
Flattens(f, X, g) ==
    /\ f \in [0 .. Len(g) -> Seq(X)] /\ f[0] = <<>> /\ FlattenSeq(g) = f[Len(g)]
    /\ \A i \in 1 .. Len(g) : f[i] = f[i - 1] \o g[i]

\* The function FlattenSeq computes with.
LEMMA FlattenSteps ==
    ASSUME NEW X, NEW g \in Seq(Seq(X))
    PROVE  \E f : Flattens(f, X, g)
<1> DEFINE n == Len(g)
           V == Seq(X)
           step == [x \in (1 .. n) \X V |-> x[2] \o g[x[1]]]
           Rec(f) == [i \in 1 .. n |-> IF i = 1 THEN g[i] ELSE f[i - 1] \o g[i]]
           none == <<>>
<1>1. n \in Nat /\ \A k \in 1 .. n : g[k] \in V
  OBVIOUS
<1>2. step \in [(1 .. n) \X V -> V] /\ none \in V
  <2>1. \A v \in V, k \in 1 .. n : v \o g[k] \in V
    BY <1>1, ConcatProperties
  <2> HIDE DEF n, V
  <2>2. step \in [(1 .. n) \X V -> V]
    BY <2>1
  <2> QED
    BY <2>2 DEF V
<1>3. \A k \in 1 .. n, v \in V : step[k, v] = v \o g[k]
  OBVIOUS
<1>4. \A v \in V : none \o v = v
  OBVIOUS
<1> HIDE DEF step, V, none
<1>5. PICK f : Recurs(f, V, none, n, step)
  BY <1>1, <1>2, RecursionExists
<1>6. ASSUME NEW i \in 1 .. n PROVE f[i] = f[i - 1] \o g[i] /\ f[i] \in V
  <2>1. i - 1 \in 0 .. n /\ i \in 0 .. n
    BY <1>1
  <2> HIDE DEF n
  <2>2. f[i - 1] \in V /\ f[i] = step[i, f[i - 1]] /\ f[i] \in V
    BY <1>5, <2>1 DEF Recurs
  <2> QED
    BY <1>3, <2>2
<1>7. f[0] = none /\ f \in [0 .. n -> V]
  BY <1>5 DEF Recurs
<1>8. ASSUME NEW i \in 1 .. n, i = 1 PROVE f[i] = g[i]
  <2>1. f[i - 1] = none /\ g[i] \in V
    BY <1>1, <1>7, <1>8
  <2>2. f[i] = f[i - 1] \o g[i]
    BY <1>6
  <2> QED
    BY <1>4, <2>1, <2>2
<1>9. CASE n = 0
  <2>1. FlattenSeq(g) = none /\ g = <<>>
    BY <1>9 DEF FlattenSeq, none
  <2> QED
    BY <1>6, <1>7, <1>9, <2>1 DEF Flattens, V, none
<1>10. CASE n # 0
  <2> DEFINE one == [i \in 1 .. n |-> f[i]]
             joined == CHOOSE h : h = Rec(h)
  <2>1. one = Rec(one)
    <3>1. ASSUME NEW i \in 1 .. n PROVE one[i] = IF i = 1 THEN g[i] ELSE one[i - 1] \o g[i]
      <4>1. CASE i = 1
        <5>1. f[i] = g[i]
          BY <1>8, <4>1
        <5> QED
          BY <4>1, <5>1
      <4>2. CASE i # 1
        <5>1. i - 1 \in 1 .. n
          BY <1>1, <4>2
        <5>2. one[i] = f[i] /\ one[i - 1] = f[i - 1]
          BY <5>1
        <5> HIDE DEF one, n
        <5> QED
          BY <1>6, <4>2, <5>2
      <4> QED
        BY <4>1, <4>2
    <3> QED
      BY <3>1
  <2>2. joined = Rec(joined)
    <3> HIDE DEF Rec, one
    <3> QED
      BY <2>1
  <2>3. FlattenSeq(g) = joined[n]
    BY <1>10 DEF FlattenSeq
  <2> HIDE DEF joined
  <2>4. \A i \in 1 .. n : joined[i] = IF i = 1 THEN g[i] ELSE joined[i - 1] \o g[i]
    <3> HIDE DEF n
    <3> QED
      BY <2>2
  <2> DEFINE T == {k \in Nat : k \in 1 .. n => joined[k] = f[k]}
  <2>5. 0 \in T
    OBVIOUS
  <2>6. ASSUME NEW k \in Nat, k \in T PROVE k + 1 \in T
    <3> SUFFICES ASSUME k + 1 \in 1 .. n PROVE joined[k + 1] = f[k + 1]
      OBVIOUS
    <3>1. CASE k = 0
      <4> DEFINE m == k + 1
      <4>1. m \in 1 .. n /\ m = 1
        BY <3>1
      <4> HIDE DEF m, n
      <4>2. joined[m] = f[m]
        BY <1>8, <2>4, <4>1
      <4> QED
        BY <4>2 DEF m
    <3>2. CASE k # 0
      <4> DEFINE m == k + 1
      <4>1. m \in 1 .. n /\ m # 1 /\ m - 1 = k /\ k \in 1 .. n
        BY <1>1, <3>2
      <4>2. joined[k] = f[k]
        BY <2>6, <4>1
      <4> HIDE DEF m, n
      <4>3. joined[m] = joined[m - 1] \o g[m] /\ f[m] = f[m - 1] \o g[m]
        BY <1>6, <2>4, <4>1
      <4>4. joined[m] = f[m]
        BY <4>1, <4>2, <4>3
      <4> QED
        BY <4>4 DEF m
    <3> QED
      BY <3>1, <3>2
  <2>7. Nat \subseteq T
    <3> HIDE DEF T
    <3> QED
      BY <2>5, <2>6, Climb
  <2>8. joined[n] = f[n]
    <3>1. n \in T /\ n \in 1 .. n
      BY <1>1, <1>10, <2>7
    <3> QED
      BY <3>1
  <2> QED
    BY <1>6, <1>7, <2>3, <2>8 DEF Flattens, V, none
<1> QED
  BY <1>9, <1>10

\* The i-th of the flattened is the m-th of the k-th.
From(r, g, i, k, m) == k \in 1 .. Len(g) /\ m \in 1 .. Len(g[k]) /\ r[i] = g[k][m]

\* Each of the flattened comes from one of the sequences, two from two places, and
\* none is lost.
LEMMA FlattenIs ==
    ASSUME NEW X, NEW g \in Seq(Seq(X))
    PROVE  LET r == FlattenSeq(g) IN
           /\ r \in Seq(X)
           /\ \A i \in 1 .. Len(r) : \E k, m : From(r, g, i, k, m)
           /\ \A k \in 1 .. Len(g) : \A m \in 1 .. Len(g[k]) :
                 \E i \in 1 .. Len(r) : r[i] = g[k][m]
           /\ \A i, j \in 1 .. Len(r) : i # j =>
                 \E k, m, l, o : /\ From(r, g, i, k, m) /\ From(r, g, j, l, o)
                                 /\ k # l \/ m # o
<1> DEFINE n == Len(g)
<1>1. PICK f : Flattens(f, X, g)
  BY FlattenSteps
<1>2. n \in Nat /\ \A k \in 1 .. n : g[k] \in Seq(X)
  OBVIOUS
<1>3. /\ f \in [0 .. n -> Seq(X)] /\ f[0] = <<>> /\ FlattenSeq(g) = f[n]
      /\ \A i \in 1 .. n : f[i] = f[i - 1] \o g[i]
  BY <1>1 DEF Flattens
<1> DEFINE Comes(t, i, k, m, q) == /\ k \in 1 .. q /\ k \in 1 .. n /\ m \in 1 .. Len(g[k])
                                   /\ t[i] = g[k][m]
           Good(q) ==
             LET t == f[q] IN
             /\ \A i \in 1 .. Len(t) : \E k, m : Comes(t, i, k, m, q)
             /\ \A k \in 1 .. q : \A m \in 1 .. Len(g[k]) : \E i \in 1 .. Len(t) : t[i] = g[k][m]
             /\ \A i, j \in 1 .. Len(t) : i # j =>
                   \E k, m, l, o : Comes(t, i, k, m, q) /\ Comes(t, j, l, o, q) /\ (k # l \/ m # o)
           T == {q \in Nat : q <= n => Good(q)}
<1>4. ASSUME NEW q \in Nat, q + 1 <= n, Good(q) PROVE Good(q + 1)
  <2> DEFINE p == q + 1
             t == f[q]
             u == f[p]
             b == Len(t)
  <2>0. q + 1 \in 1 .. n /\ (q + 1) - 1 = q /\ q \in 0 .. n /\ q + 1 \in 0 .. n
    <3> HIDE DEF Good, n
    <3> QED
      BY <1>2, <1>4
  <2>1. p \in 1 .. n /\ p - 1 = q /\ q \in 0 .. n /\ p \in 0 .. n /\ p = q + 1
    BY <2>0
  <2> HIDE DEF n, p
  <2>2. t \in Seq(X) /\ u \in Seq(X) /\ g[p] \in Seq(X) /\ u = t \o g[p]
    BY <1>2, <1>3, <2>1
  <2>3. /\ \A i \in 1 .. Len(t) : \E k, m : Comes(t, i, k, m, q)
        /\ \A k \in 1 .. q : \A m \in 1 .. Len(g[k]) : \E i \in 1 .. Len(t) : t[i] = g[k][m]
        /\ \A i, j \in 1 .. Len(t) : i # j =>
              \E k, m, l, o : Comes(t, i, k, m, q) /\ Comes(t, j, l, o, q) /\ (k # l \/ m # o)
    BY <1>4 DEF p
  <2> HIDE DEF t, u
  <2>4. /\ b \in Nat /\ Len(g[p]) \in Nat /\ Len(u) = b + Len(g[p])
        /\ \A i \in 1 .. b : u[i] = t[i]
        /\ \A i \in 1 .. Len(g[p]) : u[b + i] = g[p][i]
    BY <2>2
  <2> HIDE DEF b
  <2>5. ASSUME NEW i \in 1 .. Len(u)
        PROVE  (i <= b /\ i \in 1 .. b) \/ (i > b /\ i - b \in 1 .. Len(g[p]) /\ b + (i - b) = i)
    BY <2>4
  \* The first ones come from where they did, the others from the one added.
  <2>6. ASSUME NEW i \in 1 .. b, NEW k, NEW m, Comes(t, i, k, m, q) PROVE Comes(u, i, k, m, p)
    BY <2>1, <2>4, <2>6
  <2>7. ASSUME NEW i \in 1 .. Len(u), i > b PROVE Comes(u, i, p, i - b, p)
    BY <2>1, <2>4, <2>5, <2>7
  <2> HIDE DEF Comes
  <2>8. ASSUME NEW i \in 1 .. Len(u) PROVE \E k, m : Comes(u, i, k, m, p)
    <3>1. CASE i <= b
      BY <2>3, <2>5, <2>6, <3>1 DEF b
    <3>2. CASE i > b
      BY <2>7, <3>2
    <3> QED
      BY <2>5, <3>1, <3>2
  <2>9. ASSUME NEW k \in 1 .. p, NEW m \in 1 .. Len(g[k])
        PROVE  \E i \in 1 .. Len(u) : u[i] = g[k][m]
    <3>1. CASE k \in 1 .. q
      <4>1. PICK i \in 1 .. b : t[i] = g[k][m]
        BY <2>3, <3>1 DEF b
      <4>2. i \in 1 .. Len(u) /\ u[i] = g[k][m]
        BY <2>4, <4>1
      <4> QED
        BY <4>2
    <3>2. CASE k = p
      <4>1. b + m \in 1 .. Len(u) /\ u[b + m] = g[k][m]
        BY <2>4, <3>2
      <4> QED
        BY <4>1
    <3> QED
      BY <2>1, <3>1, <3>2
  <2>10. ASSUME NEW i \in 1 .. b, NEW j \in 1 .. Len(u), j > b
         PROVE  \E k, m, l, o : Comes(u, i, k, m, p) /\ Comes(u, j, l, o, p) /\ (k # l \/ m # o)
    <3>1. PICK k, m : Comes(t, i, k, m, q)
      BY <2>3 DEF b
    <3>2. Comes(u, i, k, m, p) /\ k # p
      <4>1. k # p
        BY <2>1, <3>1 DEF Comes
      <4> QED
        BY <2>6, <3>1, <4>1
    <3>3. Comes(u, j, p, j - b, p)
      BY <2>7, <2>10
    <3> QED
      BY <3>2, <3>3
  <2>11. ASSUME NEW i \in 1 .. Len(u), NEW j \in 1 .. Len(u), i # j
         PROVE  \E k, m, l, o : Comes(u, i, k, m, p) /\ Comes(u, j, l, o, p) /\ (k # l \/ m # o)
    <3>1. CASE i <= b /\ j <= b
      <4>1. i \in 1 .. b /\ j \in 1 .. b
        BY <2>5, <3>1
      <4>2. PICK k, m, l, o : Comes(t, i, k, m, q) /\ Comes(t, j, l, o, q) /\ (k # l \/ m # o)
        BY <2>3, <2>11, <4>1 DEF b
      <4>3. Comes(u, i, k, m, p) /\ Comes(u, j, l, o, p)
        BY <2>6, <4>1, <4>2
      <4> QED
        BY <4>2, <4>3
    <3>2. CASE i <= b /\ j > b
      <4>1. i \in 1 .. b
        BY <2>5, <3>2
      <4> QED
        BY <2>10, <3>2, <4>1
    <3>3. CASE i > b /\ j <= b
      <4>1. j \in 1 .. b
        BY <2>5, <3>3
      <4>2. PICK k, m, l, o : Comes(u, j, k, m, p) /\ Comes(u, i, l, o, p) /\ (k # l \/ m # o)
        BY <2>10, <3>3, <4>1
      <4> QED
        BY <4>2
    <3>4. CASE i > b /\ j > b
      <4>1. Comes(u, i, p, i - b, p) /\ Comes(u, j, p, j - b, p)
        BY <2>7, <3>4
      <4>2. i - b # j - b
        BY <2>4, <2>11
      <4> QED
        BY <4>1, <4>2
    <3> QED
      BY <2>5, <3>1, <3>2, <3>3, <3>4
  <2> QED
    BY <2>8, <2>9, <2>11 DEF u, p
<1>5. 0 \in T
  <2>1. f[0] = <<>> /\ Len(f[0]) = 0
    BY <1>3
  <2> QED
    BY <2>1
<1>6. ASSUME NEW q \in Nat, q \in T PROVE q + 1 \in T
  <2> HIDE DEF Good, n
  <2> QED
    BY <1>2, <1>4, <1>6
<1>7. Nat \subseteq T
  <2> HIDE DEF T
  <2> QED
    BY <1>5, <1>6, Climb
<1>8. Good(n)
  <2> HIDE DEF Good
  <2> QED
    BY <1>2, <1>7
<1> DEFINE r == FlattenSeq(g)
<1>9. r = f[n] /\ r \in Seq(X)
  BY <1>2, <1>3
<1> HIDE DEF r
<1>10. \A i, k, m : Comes(r, i, k, m, n) => From(r, g, i, k, m)
  BY DEF From
<1>11. /\ \A i \in 1 .. Len(r) : \E k, m : Comes(r, i, k, m, n)
       /\ \A k \in 1 .. n : \A m \in 1 .. Len(g[k]) : \E i \in 1 .. Len(r) : r[i] = g[k][m]
       /\ \A i, j \in 1 .. Len(r) : i # j =>
             \E k, m, l, o : Comes(r, i, k, m, n) /\ Comes(r, j, l, o, n) /\ (k # l \/ m # o)
  BY <1>8, <1>9
<1> HIDE DEF Comes
<1> QED
  BY <1>9, <1>10, <1>11 DEF r, n

-----------------------------------------------------------------------------
(* rects().                                                                *)

Box == Nat \X Nat
Placed == [pane : Nat, x : Nat, y : Nat, w : Nat, h : Nat]
Here(d, at) == [pane |-> d.pane, x |-> at[1], y |-> at[2], w |-> d.w, h |-> d.h]
KidAt(d, at, i) == <<at[1] + Offset(d, i)[1], at[2] + Offset(d, i)[2]>>

\* The cells before child i and their dividers.
Before(c, i) == SumTo(Extents(c), i - 1) + i - 1

\* A child begins after those before it and their dividers.
LEMMA OffsetIs ==
    ASSUME NEW c \in AllCells, ~ IsLeaf(c), NEW i \in DOMAIN c.kids, NEW at \in Box
    PROVE  /\ Before(c, i) \in Nat
           /\ Offset(c, i) = IF c.axis = "horizontal" THEN <<Before(c, i), 0>> ELSE <<0, Before(c, i)>>
           /\ KidAt(c, at, i) \in Box
<1>1. /\ DOMAIN c.kids = 1 .. Len(c.kids) /\ Len(c.kids) \in Nat
      /\ Extents(c) \in Seq(Nat) /\ Len(Extents(c)) = Len(c.kids)
  BY CellIs, ExtentsAre
<1>2. i - 1 \in 0 .. Len(Extents(c)) /\ i - 1 \in Nat
  BY <1>1
<1>3. SumTo(Extents(c), i - 1) \in Nat
  BY <1>1, <1>2, SumIs
<1>4. Before(c, i) \in Nat
  BY <1>2, <1>3 DEF Before
<1>5. Offset(c, i) = IF c.axis = "horizontal" THEN <<Before(c, i), 0>> ELSE <<0, Before(c, i)>>
  BY DEF Offset, Before
<1>6. at[1] \in Nat /\ at[2] \in Nat
  BY DEF Box
<1> QED
  BY <1>4, <1>5, <1>6 DEF KidAt, Box

\* What Walk makes of a cell.
LEMMA WalkIs ==
    ASSUME NEW c \in Cells, NEW at \in Box
    PROVE  /\ Walk(c, at[1], at[2]) \in Seq(Placed)
           /\ IsLeaf(c) => Walk(c, at[1], at[2]) = <<Here(c, at)>>
           /\ ~ IsLeaf(c) =>
                 Walk(c, at[1], at[2]) =
                    FlattenSeq([i \in DOMAIN c.kids |->
                        Walk(c.kids[i], KidAt(c, at, i)[1], KidAt(c, at, i)[2])])
<1> DEFINE V == [Box -> Seq(Placed)]
           base == [d \in Leaves |-> [a \in Box |-> <<Here(d, a)>>]]
           Made(d, vs, a) ==
              FlattenSeq([i \in DOMAIN d.kids |->
                             IF i \in DOMAIN vs THEN vs[i][KidAt(d, a, i)] ELSE <<>>])
           comb == [x \in SplitsOver(AllCells) \X Seq(V) |-> [a \in Box |-> Made(x[1], x[2], a)]]
           Rec(f) ==
            [d \in Cells |->
              [a \in Nat \X Nat |->
                IF IsLeaf(d)
                THEN <<[pane |-> d.pane, x |-> a[1], y |-> a[2], w |-> d.w, h |-> d.h]>>
                ELSE FlattenSeq([i \in DOMAIN d.kids |->
                        f[d.kids[i]][a[1] + Offset(d, i)[1], a[2] + Offset(d, i)[2]]])]]
           Back(f, d, a) ==
              IF IsLeaf(d) THEN <<Here(d, a)>>
              ELSE FlattenSeq([i \in DOMAIN d.kids |-> f[d.kids[i]][KidAt(d, a, i)]])
<1>0. \A f : Rec(f) = [d \in Cells |-> [a \in Box |-> Back(f, d, a)]]
  BY DEF KidAt, Here, Box
<1>1. base \in [Leaves -> V]
  <2>1. ASSUME NEW d \in Leaves, NEW a \in Box PROVE <<Here(d, a)>> \in Seq(Placed)
    <3>1. d.pane \in Nat /\ d.w \in Nat /\ d.h \in Nat /\ a[1] \in Nat /\ a[2] \in Nat
      BY LeafOrSplit DEF Box
    <3>2. Here(d, a) \in Placed
      BY <3>1 DEF Here, Placed
    <3> QED
      BY <3>2
  <2> QED
    BY <2>1
<1>2. ASSUME NEW d \in AllCells, ~ IsLeaf(d), NEW a \in Box, NEW i \in DOMAIN d.kids
      PROVE  KidAt(d, a, i) \in Box
  BY <1>2, OffsetIs
<1>3. ASSUME NEW d \in SplitsOver(AllCells), NEW vs \in Seq(V), NEW a \in Box
      PROVE  Made(d, vs, a) \in Seq(Placed)
  <2>1. d \in AllCells /\ ~ IsLeaf(d)
    BY AllCellsAre, LeafOrSplit
  <2>2. DOMAIN d.kids = 1 .. Len(d.kids) /\ Len(d.kids) \in Nat
    BY <2>1, CellIs
  <2>3. \A i \in DOMAIN vs : vs[i] \in V
    OBVIOUS
  <2> DEFINE kid(i) == IF i \in DOMAIN vs THEN vs[i][KidAt(d, a, i)] ELSE <<>>
             P == Seq(Placed)
  <2>4. \A i \in DOMAIN d.kids : kid(i) \in P
    <3>1. <<>> \in P
      OBVIOUS
    <3> HIDE DEF P
    <3>2. ASSUME NEW i \in DOMAIN d.kids, i \in DOMAIN vs PROVE vs[i][KidAt(d, a, i)] \in P
      BY <1>2, <2>1, <2>3, <3>2 DEF P
    <3> QED
      BY <3>1, <3>2
  <2> HIDE DEF kid, P, V
  <2>5. [i \in 1 .. Len(d.kids) |-> kid(i)] \in Seq(P)
    <3> DEFINE n == Len(d.kids)
    <3>1. n \in Nat /\ \A i \in 1 .. n : kid(i) \in P
      BY <2>2, <2>4
    <3> HIDE DEF n
    <3>2. [i \in 1 .. n |-> kid(i)] \in Seq(P)
      BY ONLY <3>1
    <3> QED
      BY <3>2 DEF n
  <2> DEFINE g == [i \in DOMAIN d.kids |-> kid(i)]
  <2>6. g \in Seq(P)
    BY <2>2, <2>5
  <2> HIDE DEF g
  <2>7. FlattenSeq(g) \in Seq(Placed)
    BY <2>6, FlattenIs DEF P
  <2> QED
    BY <2>7 DEF g, kid
<1>4. comb \in [SplitsOver(AllCells) \X Seq(V) -> V]
  <2> HIDE DEF Made
  <2> QED
    BY <1>3
<1>5. /\ \A d \in Leaves, a \in Box : base[d][a] = <<Here(d, a)>>
      /\ \A d \in SplitsOver(AllCells), vs \in Seq(V), a \in Box :
            comb[d, vs][a] = Made(d, vs, a)
  <2> HIDE DEF Made
  <2> QED
    OBVIOUS
<1> HIDE DEF base, comb
<1>6. PICK F : F \in [Cells -> V] /\ \A d \in Cells : F[d] = Walked(F, base, comb, d)
  <2>1. MaxPanes \in Nat
    BY BoundsAssumption
  <2>2. \E F : Walks(F, CellsTo[MaxPanes], V, base, comb)
    <3> HIDE DEF V
    <3> QED
      BY <1>1, <1>4, <2>1, WalkExists
  <2> QED
    BY <2>2 DEF Walks, Cells
<1>7. ASSUME NEW d \in Cells, NEW a \in Box PROVE F[d][a] = Back(F, d, a)
  <2>1. d \in AllCells
    BY CellsAre
  <2>2. CASE IsLeaf(d)
    BY <1>5, <1>6, <2>1, <2>2, CellIs DEF Walked
  <2>3. CASE ~ IsLeaf(d)
    <3> DEFINE vs == [i \in DOMAIN d.kids |-> F[d.kids[i]]]
    <3>1. d \in SplitsOver(AllCells) /\ \A i \in DOMAIN d.kids : d.kids[i] \in Cells
      BY <2>1, <2>3, CellIs, CellsAre
    <3>2. vs \in Seq(V)
      <4>1. Len(d.kids) \in Nat /\ DOMAIN d.kids = 1 .. Len(d.kids)
        BY <2>1, <2>3, CellIs
      <4> HIDE DEF V
      <4>2. \A i \in 1 .. Len(d.kids) : F[d.kids[i]] \in V
        BY <1>6, <3>1, <4>1
      <4>3. [i \in 1 .. Len(d.kids) |-> F[d.kids[i]]] \in Seq(V)
        BY <4>1, <4>2
      <4> QED
        BY <4>1, <4>3
    <3>3. F[d] = comb[d, vs]
      BY <1>6, <2>3 DEF Walked
    <3>4. comb[d, vs][a] = Made(d, vs, a)
      <4> HIDE DEF vs, V, Made
      <4> QED
        BY <1>5, <3>1, <3>2
    <3>5. Made(d, vs, a) = Back(F, d, a)
      BY <2>3
    <3> QED
      BY <3>3, <3>4, <3>5
  <2> QED
    BY <2>2, <2>3
<1>8. F = Rec(F)
  <2>1. F = [d \in Cells |-> [a \in Box |-> Back(F, d, a)]]
    <3> HIDE DEF Back
    <3> QED
      BY <1>6, <1>7
  <2> HIDE DEF Rec, Back
  <2> QED
    BY <1>0, <2>1
<1> DEFINE P == CHOOSE f : f = Rec(f)
<1>9. P = Rec(P)
  <2> HIDE DEF Rec
  <2> QED
    BY <1>8
<1>10. \A d, x, y : Walk(d, x, y) = P[d][x, y]
  BY DEF Walk
<1>11. P = [d \in Cells |-> [a \in Box |-> Back(P, d, a)]]
  <2> HIDE DEF Rec, Back, P
  <2> QED
    BY <1>0, <1>9
<1> HIDE DEF P, Rec
<1>12. ASSUME NEW d \in Cells, NEW a \in Box
       PROVE  /\ IsLeaf(d) => Walk(d, a[1], a[2]) = <<Here(d, a)>>
              /\ ~ IsLeaf(d) =>
                   Walk(d, a[1], a[2]) =
                    FlattenSeq([i \in DOMAIN d.kids |->
                        Walk(d.kids[i], KidAt(d, a, i)[1], KidAt(d, a, i)[2])])
  <2>1. a = <<a[1], a[2]>>
    BY DEF Box
  <2>2. P[d][a] = Back(P, d, a)
    <3> HIDE DEF Back
    <3>1. \A b \in Box : P[d][b] = Back(P, d, b)
      BY <1>11
    <3> QED
      BY <3>1
  <2>3. Walk(d, a[1], a[2]) = P[d][a]
    BY <1>10, <2>1
  <2>4. ASSUME ~ IsLeaf(d), NEW i \in DOMAIN d.kids
        PROVE  P[d.kids[i]][KidAt(d, a, i)]
                 = Walk(d.kids[i], KidAt(d, a, i)[1], KidAt(d, a, i)[2])
    <3>1. KidAt(d, a, i) = <<KidAt(d, a, i)[1], KidAt(d, a, i)[2]>>
      BY DEF KidAt
    <3> QED
      BY <1>10, <3>1
  <2>5. ~ IsLeaf(d) =>
          [i \in DOMAIN d.kids |-> P[d.kids[i]][KidAt(d, a, i)]]
            = [i \in DOMAIN d.kids |->
                 Walk(d.kids[i], KidAt(d, a, i)[1], KidAt(d, a, i)[2])]
    BY <2>4
  <2> QED
    BY <2>2, <2>3, <2>5
<1> DEFINE T == {d \in AllCells : d \in Cells =>
                    \A a \in Box : Walk(d, a[1], a[2]) \in Seq(Placed)}
<1>13. Leaves \subseteq T
  <2>1. ASSUME NEW d \in Leaves, d \in Cells, NEW a \in Box
        PROVE  Walk(d, a[1], a[2]) \in Seq(Placed)
    <3>1. Walk(d, a[1], a[2]) = <<Here(d, a)>>
      BY <1>12, <2>1, LeafOrSplit
    <3>2. d.pane \in Nat /\ d.w \in Nat /\ d.h \in Nat /\ a[1] \in Nat /\ a[2] \in Nat
      BY LeafOrSplit DEF Box
    <3>3. Here(d, a) \in Placed
      BY <3>2 DEF Here, Placed
    <3> QED
      BY <3>1, <3>3
  <2> QED
    BY <2>1, AllCellsAre
<1>14. ASSUME NEW d \in SplitsOver(AllCells), \A i \in DOMAIN d.kids : d.kids[i] \in T
       PROVE  d \in T
  <2>1. d \in AllCells /\ ~ IsLeaf(d)
    BY AllCellsAre, LeafOrSplit
  <2> SUFFICES ASSUME d \in Cells, NEW a \in Box
               PROVE  Walk(d, a[1], a[2]) \in Seq(Placed)
    BY <2>1
  <2> DEFINE kid(i) == Walk(d.kids[i], KidAt(d, a, i)[1], KidAt(d, a, i)[2])
             P2 == Seq(Placed)
  <2>2. DOMAIN d.kids = 1 .. Len(d.kids) /\ Len(d.kids) \in Nat
    BY <2>1, CellIs
  <2>3. ASSUME NEW i \in DOMAIN d.kids PROVE kid(i) \in P2
    <3>1. KidAt(d, a, i) \in Box
      BY <1>2, <2>1
    <3>2. d.kids[i] \in Cells
      BY <2>1, CellsAre
    <3> QED
      BY <1>14, <3>1, <3>2
  <2> HIDE DEF kid, P2
  <2>4. [i \in 1 .. Len(d.kids) |-> kid(i)] \in Seq(P2)
    BY <2>2, <2>3
  <2> DEFINE g == [i \in DOMAIN d.kids |-> kid(i)]
  <2>5. g \in Seq(P2)
    BY <2>2, <2>4
  <2> HIDE DEF g
  <2>6. FlattenSeq(g) \in Seq(Placed)
    BY <2>5, FlattenIs DEF P2
  <2>7. Walk(d, a[1], a[2]) = FlattenSeq(g)
    BY <1>12, <2>1 DEF g, kid
  <2> QED
    BY <2>6, <2>7
<1>15. AllCells \subseteq T
  <2> HIDE DEF T
  <2> QED
    BY <1>13, <1>14, TreeInduction
<1> QED
  BY <1>12, <1>15, CellsAre

\* More of a sequence adds up to no less.
LEMMA SumGrows ==
    ASSUME NEW s \in Seq(Nat), NEW i \in Nat, NEW j \in Nat, i <= j, j <= Len(s)
    PROVE  SumTo(s, i) <= SumTo(s, j)
<1> DEFINE T == {k \in Nat : i <= k /\ k <= Len(s) => SumTo(s, i) <= SumTo(s, k)}
<1>1. 0 \in T
  <2>1. 0 \in 0 .. Len(s)
    OBVIOUS
  <2>2. SumTo(s, 0) \in Nat
    BY <2>1, SumIs
  <2> QED
    BY <2>2
<1>2. ASSUME NEW k \in Nat, k \in T PROVE k + 1 \in T
  <2> SUFFICES ASSUME i <= k + 1, k + 1 <= Len(s) PROVE SumTo(s, i) <= SumTo(s, k + 1)
    OBVIOUS
  <2> DEFINE m == k + 1
  <2>1. /\ m \in 1 .. Len(s) /\ m - 1 = k /\ k \in 0 .. Len(s) /\ i \in 0 .. Len(s)
        /\ m \in 0 .. Len(s) /\ s[m] \in Nat
    OBVIOUS
  <2> HIDE DEF m
  <2>2. SumTo(s, m) = SumTo(s, m - 1) + s[m]
    BY <2>1, SumIs
  <2>3. SumTo(s, m) \in Nat /\ SumTo(s, k) \in Nat /\ SumTo(s, i) \in Nat
    BY <2>1, SumIs
  <2>4. CASE i = k + 1
    BY <2>3, <2>4 DEF m
  <2>5. CASE i <= k
    <3>1. SumTo(s, i) <= SumTo(s, k)
      BY <1>2, <2>1, <2>5
    <3> QED
      BY <2>1, <2>2, <2>3, <3>1 DEF m
  <2> QED
    BY <2>4, <2>5
<1>3. Nat \subseteq T
  <2> HIDE DEF T
  <2> QED
    BY <1>1, <1>2, Climb
<1> QED
  BY <1>3

\* r is a rectangle with an area, in the box of d at `at`.
Inside(r, d, at) == /\ r.x >= at[1] /\ Right(r) <= at[1] + d.w /\ r.w > 0
                    /\ r.y >= at[2] /\ Bottom(r) <= at[2] + d.h /\ r.h > 0

\* The children of a filled split have boxes of their own in its box, one after the
\* other along the axis.
LEMMA KidsApart ==
    ASSUME NEW c \in AllCells, ~ IsLeaf(c), c \in Settled, c \in Filled, c.w > 0, c.h > 0,
           NEW at \in Box
    PROVE  /\ \A i \in DOMAIN c.kids :
                 /\ KidAt(c, at, i) \in Box /\ c.kids[i].w > 0 /\ c.kids[i].h > 0
                 /\ at[1] <= KidAt(c, at, i)[1] /\ KidAt(c, at, i)[1] + c.kids[i].w <= at[1] + c.w
                 /\ at[2] <= KidAt(c, at, i)[2] /\ KidAt(c, at, i)[2] + c.kids[i].h <= at[2] + c.h
           /\ \A i, j \in DOMAIN c.kids : i < j =>
                 IF c.axis = "horizontal"
                 THEN KidAt(c, at, i)[1] + c.kids[i].w < KidAt(c, at, j)[1]
                 ELSE KidAt(c, at, i)[2] + c.kids[i].h < KidAt(c, at, j)[2]
<1> DEFINE E == Extents(c)
           n == Len(c.kids)
<1>1. /\ n \in Nat /\ DOMAIN c.kids = 1 .. n /\ c.axis \in Axes /\ c.w \in Nat /\ c.h \in Nat
      /\ \A i \in 1 .. n : c.kids[i] \in AllCells
  BY CellIs
<1>2. E \in Seq(Nat) /\ Len(E) = n /\ \A i \in 1 .. n : E[i] = Along(c.axis, c.kids[i]) /\ E[i] \in Nat
  BY <1>1, ExtentsAre
<1>3. SumTo(E, n) + n - 1 = Along(c.axis, c)
  BY <1>2 DEF Filled, FilledBy, Total
<1>4. \A i \in 1 .. n : E[i] >= 3 /\ Across(c.axis, c.kids[i]) = Across(c.axis, c)
  BY <1>1, <1>2 DEF Settled, PaneMin
<1>5. at[1] \in Nat /\ at[2] \in Nat
  BY DEF Box
<1> HIDE DEF E, n
\* A child ends a divider before what comes after it begins.
<1>6. ASSUME NEW i \in 1 .. n
      PROVE  Before(c, i) \in Nat /\ Before(c, i) + E[i] = SumTo(E, i) + i - 1 /\ SumTo(E, i) \in Nat
  <2>1. i \in 1 .. Len(E) /\ i \in 0 .. Len(E)
    BY <1>1, <1>2
  <2>2. SumTo(E, i) = SumTo(E, i - 1) + E[i] /\ SumTo(E, i) \in Nat
    BY <1>2, <2>1, SumIs
  <2>3. Before(c, i) = SumTo(E, i - 1) + i - 1
    BY DEF Before, E
  <2>4. Before(c, i) \in Nat
    BY <1>1, OffsetIs
  <2>5. i - 1 \in 0 .. Len(E)
    BY <2>1
  <2>6. SumTo(E, i - 1) \in Nat
    BY <1>2, <2>5, SumIs
  <2> QED
    BY <1>2, <2>2, <2>3, <2>4, <2>6
<1>7. ASSUME NEW i \in 1 .. n PROVE Before(c, i) + E[i] <= Along(c.axis, c)
  <2>1. i \in Nat /\ i <= n /\ n <= Len(E)
    BY <1>1, <1>2
  <2>2. SumTo(E, i) <= SumTo(E, n)
    BY <1>1, <1>2, <2>1, SumGrows
  <2>3. n \in 1 .. n /\ n \in Nat
    BY <1>1
  <2>4. SumTo(E, n) \in Nat
    BY <1>6, <2>3
  <2> QED
    BY <1>3, <1>6, <2>1, <2>2, <2>3, <2>4
<1>8. ASSUME NEW i \in 1 .. n, NEW j \in 1 .. n, i < j PROVE Before(c, i) + E[i] < Before(c, j)
  <2> DEFINE k == j - 1
  <2>1. i \in Nat /\ k \in Nat /\ i <= k /\ k <= Len(E) /\ k \in 1 .. n
    BY <1>1, <1>2, <1>8
  <2>2. Before(c, j) = SumTo(E, k) + k
    BY DEF Before, E
  <2> HIDE DEF k
  <2>3. SumTo(E, i) <= SumTo(E, k)
    BY <1>2, <2>1, SumGrows
  <2>4. SumTo(E, k) \in Nat /\ SumTo(E, i) \in Nat
    BY <1>6, <2>1
  <2> QED
    BY <1>6, <2>1, <2>2, <2>3, <2>4
<1>9. ASSUME NEW i \in 1 .. n
      PROVE  /\ KidAt(c, at, i) \in Box
             /\ Offset(c, i) = IF c.axis = "horizontal" THEN <<Before(c, i), 0>>
                                                        ELSE <<0, Before(c, i)>>
             /\ c.kids[i].w \in Nat /\ c.kids[i].h \in Nat
  BY <1>1, OffsetIs, CellIs
<1> DEFINE X(i) == KidAt(c, at, i)[1]
           Y(i) == KidAt(c, at, i)[2]
           W(i) == c.kids[i].w
           H(i) == c.kids[i].h
           B(i) == Before(c, i)
           x == at[1]
           y == at[2]
           cw == c.w
           ch == c.h
<1>10. /\ x \in Nat /\ y \in Nat /\ cw \in Nat /\ ch \in Nat /\ cw > 0 /\ ch > 0
       /\ \A i \in 1 .. n : B(i) \in Nat /\ E[i] \in Nat /\ E[i] >= 3
  BY <1>1, <1>2, <1>4, <1>5, <1>6
<1>11. CASE c.axis = "horizontal"
  <2>1. ASSUME NEW i \in 1 .. n PROVE X(i) = x + B(i) /\ Y(i) = y /\ W(i) = E[i] /\ H(i) = ch
    <3>1. Offset(c, i)[1] = B(i) /\ Offset(c, i)[2] = 0
      BY <1>9, <1>11
    <3>2. X(i) = x + B(i) /\ Y(i) = y + 0
      BY <3>1 DEF KidAt
    <3>3. W(i) = E[i] /\ H(i) = ch
      BY <1>2, <1>4, <1>11 DEF Along, Across
    <3> HIDE DEF X, Y, W, H, B, x, y
    <3> QED
      BY <1>10, <3>2, <3>3
  <2>2. \A i \in 1 .. n : B(i) + E[i] <= cw
    BY <1>7, <1>11 DEF Along
  <2>3. \A i, j \in 1 .. n : i < j => B(i) + E[i] < B(j)
    BY <1>8
  <2> HIDE DEF X, Y, W, H, B, x, y, cw, ch
  <2>4. ASSUME NEW i \in 1 .. n
        PROVE  /\ W(i) > 0 /\ H(i) > 0 /\ x <= X(i) /\ X(i) + W(i) <= x + cw
               /\ y <= Y(i) /\ Y(i) + H(i) <= y + ch
    BY <1>10, <2>1, <2>2
  <2>5. ASSUME NEW i \in 1 .. n, NEW j \in 1 .. n, i < j PROVE X(i) + W(i) < X(j)
    BY <1>10, <2>1, <2>3, <2>5
  <2> QED
    BY <1>1, <1>9, <1>11, <2>4, <2>5 DEF X, Y, W, H, x, y, cw, ch
<1>12. CASE c.axis # "horizontal"
  <2>1. ASSUME NEW i \in 1 .. n PROVE Y(i) = y + B(i) /\ X(i) = x /\ H(i) = E[i] /\ W(i) = cw
    <3>1. Offset(c, i)[2] = B(i) /\ Offset(c, i)[1] = 0
      BY <1>9, <1>12
    <3>2. Y(i) = y + B(i) /\ X(i) = x + 0
      BY <3>1 DEF KidAt
    <3>3. H(i) = E[i] /\ W(i) = cw
      BY <1>2, <1>4, <1>12 DEF Along, Across
    <3> HIDE DEF X, Y, W, H, B, x, y
    <3> QED
      BY <1>10, <3>2, <3>3
  <2>2. \A i \in 1 .. n : B(i) + E[i] <= ch
    BY <1>7, <1>12 DEF Along
  <2>3. \A i, j \in 1 .. n : i < j => B(i) + E[i] < B(j)
    BY <1>8
  <2> HIDE DEF X, Y, W, H, B, x, y, cw, ch
  <2>4. ASSUME NEW i \in 1 .. n
        PROVE  /\ W(i) > 0 /\ H(i) > 0 /\ x <= X(i) /\ X(i) + W(i) <= x + cw
               /\ y <= Y(i) /\ Y(i) + H(i) <= y + ch
    BY <1>10, <2>1, <2>2
  <2>5. ASSUME NEW i \in 1 .. n, NEW j \in 1 .. n, i < j PROVE Y(i) + H(i) < Y(j)
    BY <1>10, <2>1, <2>3, <2>5
  <2> QED
    BY <1>1, <1>9, <1>12, <2>4, <2>5 DEF X, Y, W, H, x, y, cw, ch
<1> QED
  BY <1>11, <1>12

\* What is drawn inside two children of a filled split does not overlap.
LEMMA DrawnApart ==
    ASSUME NEW c \in AllCells, ~ IsLeaf(c), c \in Settled, c \in Filled, c.w > 0, c.h > 0,
           NEW at \in Box, NEW i \in DOMAIN c.kids, NEW j \in DOMAIN c.kids, i # j,
           NEW r \in Placed, NEW s \in Placed,
           Inside(r, c.kids[i], KidAt(c, at, i)), Inside(s, c.kids[j], KidAt(c, at, j))
    PROVE  ~ Overlaps(r, s)
<1> DEFINE a == KidAt(c, at, i)
           b == KidAt(c, at, j)
           k == c.kids[i]
           l == c.kids[j]
<1>1. /\ r.x \in Nat /\ r.y \in Nat /\ r.w \in Nat /\ r.h \in Nat
      /\ s.x \in Nat /\ s.y \in Nat /\ s.w \in Nat /\ s.h \in Nat
  BY DEF Placed
<1>2. /\ a[1] \in Nat /\ a[2] \in Nat /\ b[1] \in Nat /\ b[2] \in Nat
      /\ k.w \in Nat /\ k.h \in Nat /\ l.w \in Nat /\ l.h \in Nat
  <2>1. a \in Box /\ b \in Box /\ k \in AllCells /\ l \in AllCells
    BY KidsApart, CellIs
  <2> HIDE DEF a, b, k, l
  <2> QED
    BY <2>1, CellIs DEF Box
<1>3. i < j \/ j < i
  <2>1. DOMAIN c.kids = 1 .. Len(c.kids) /\ Len(c.kids) \in Nat
    BY CellIs
  <2> QED
    BY <2>1
<1>4. /\ i < j => IF c.axis = "horizontal" THEN a[1] + k.w < b[1] ELSE a[2] + k.h < b[2]
      /\ j < i => IF c.axis = "horizontal" THEN b[1] + l.w < a[1] ELSE b[2] + l.h < a[2]
  BY KidsApart
<1>5. /\ r.x >= a[1] /\ r.x + r.w <= a[1] + k.w /\ r.y >= a[2] /\ r.y + r.h <= a[2] + k.h
      /\ s.x >= b[1] /\ s.x + s.w <= b[1] + l.w /\ s.y >= b[2] /\ s.y + s.h <= b[2] + l.h
  BY DEF Inside, Right, Bottom
<1> HIDE DEF a, b, k, l
<1> QED
  BY <1>1, <1>2, <1>3, <1>4, <1>5 DEF Overlaps, Overlap1D

\* The rectangles in r tile the box of d at `at`: inside it, one for each pane, apart.
Tiles(r, d, at) ==
    /\ \A i \in 1 .. Len(r) : Inside(r[i], d, at) /\ r[i].pane \in AllPanes(d)
    /\ \A p \in AllPanes(d) : \E i \in 1 .. Len(r) : r[i].pane = p
    /\ \A i, j \in 1 .. Len(r) : i # j => r[i].pane # r[j].pane /\ ~ Overlaps(r[i], r[j])

\* walk() on a filled tree tiles its box, whatever the nesting.
LEMMA WalkTiles ==
    ASSUME NEW c \in Cells, Every(c, Settled), Every(c, Filled), c.w > 0, c.h > 0, NEW at \in Box
    PROVE  Tiles(Walk(c, at[1], at[2]), c, at)
<1> DEFINE Good(d) == \A a \in Box : Tiles(Walk(d, a[1], a[2]), d, a)
           T == {d \in AllCells :
                   d \in Cells /\ Every(d, Settled) /\ Every(d, Filled) /\ d.w > 0 /\ d.h > 0
                     => Good(d)}
<1>1. Leaves \subseteq T
  <2> SUFFICES ASSUME NEW d \in Leaves, d \in Cells, d.w > 0, d.h > 0, NEW a \in Box
               PROVE  Tiles(Walk(d, a[1], a[2]), d, a)
    BY AllCellsAre
  <2>1. IsLeaf(d) /\ d.pane \in Nat /\ d.w \in Nat /\ d.h \in Nat /\ d \in AllCells
    BY LeafOrSplit, AllCellsAre
  <2>2. Walk(d, a[1], a[2]) = <<Here(d, a)>> /\ AllPanes(d) = {d.pane}
    BY <2>1, WalkIs, AllPanesAre
  <2>3. a[1] \in Nat /\ a[2] \in Nat
    BY DEF Box
  <2> DEFINE r == Here(d, a)
  <2>4. Inside(r, d, a) /\ r.pane = d.pane
    BY <2>1, <2>3 DEF Here, Inside, Right, Bottom
  <2> HIDE DEF r
  <2>5. Walk(d, a[1], a[2]) = <<r>>
    BY <2>2 DEF r
  <2>6. Len(<<r>>) = 1 /\ <<r>>[1] = r /\ 1 .. 1 = {1}
    OBVIOUS
  <2> DEFINE w == <<r>>
  <2> HIDE DEF w
  <2>7. Tiles(w, d, a)
    BY <2>2, <2>4, <2>6 DEF Tiles, w
  <2> QED
    BY <2>5, <2>7 DEF w
<1>2. ASSUME NEW d \in SplitsOver(AllCells), \A i \in DOMAIN d.kids : d.kids[i] \in T
      PROVE  d \in T
  <2>1. d \in AllCells /\ ~ IsLeaf(d)
    BY AllCellsAre, LeafOrSplit
  <2> SUFFICES ASSUME d \in Cells, Every(d, Settled), Every(d, Filled), d.w > 0, d.h > 0,
                      NEW a \in Box
               PROVE  Tiles(Walk(d, a[1], a[2]), d, a)
    BY <2>1
  <2>2. d \in Settled /\ d \in Filled
    BY <2>1, EveryIs
  <2> DEFINE n == Len(d.kids)
             kid(i) == Walk(d.kids[i], KidAt(d, a, i)[1], KidAt(d, a, i)[2])
             P == Seq(Placed)
  <2>3. n \in Nat /\ DOMAIN d.kids = 1 .. n
    BY <2>1, CellIs
  <2>4. ASSUME NEW i \in 1 .. n
        PROVE  d.kids[i] \in Cells /\ KidAt(d, a, i) \in Box /\ kid(i) \in P
    BY <2>1, <2>2, <2>3, KidsApart, CellsAre, WalkIs
  <2>5. ASSUME NEW i \in 1 .. n PROVE Tiles(kid(i), d.kids[i], KidAt(d, a, i))
    <3>1. d.kids[i] \in T /\ d.kids[i] \in Cells
      BY <1>2, <2>3, <2>4
    <3>2. /\ Every(d.kids[i], Settled) /\ Every(d.kids[i], Filled)
          /\ d.kids[i].w > 0 /\ d.kids[i].h > 0
      BY <2>1, <2>2, <2>3, EveryIs, KidsApart
    <3>3. Good(d.kids[i])
      <4> HIDE DEF Good
      <4> QED
        BY <3>1, <3>2
    <3> QED
      BY <2>4, <3>3
  <2>6. d \in Shaped
    BY <2>2 DEF Settled
  <2> HIDE DEF kid, P, T, n
  <2>7. [i \in 1 .. n |-> kid(i)] \in Seq(P)
    BY ONLY <2>3, <2>4
  <2> DEFINE g == [i \in DOMAIN d.kids |-> kid(i)]
             r == FlattenSeq(g)
  <2>8. g \in Seq(P) /\ Len(g) = n /\ \A i \in 1 .. n : g[i] = kid(i)
    BY <2>3, <2>7
  <2> HIDE DEF g, r
  <2>9. Walk(d, a[1], a[2]) = r
    BY <2>1, WalkIs DEF g, kid, r
  <2>10. /\ r \in P
         /\ \A i \in 1 .. Len(r) : \E k, m : From(r, g, i, k, m)
         /\ \A k \in 1 .. Len(g) : \A m \in 1 .. Len(g[k]) :
               \E i \in 1 .. Len(r) : r[i] = g[k][m]
         /\ \A i, j \in 1 .. Len(r) : i # j =>
               \E k, m, l, o : /\ From(r, g, i, k, m) /\ From(r, g, j, l, o)
                               /\ k # l \/ m # o
    BY <2>8, FlattenIs DEF r, P
  \* What is drawn is drawn in one of the children, where nothing else is.
  <2>11. ASSUME NEW i \in 1 .. Len(r), NEW k, NEW m, From(r, g, i, k, m)
         PROVE  /\ k \in 1 .. n /\ m \in 1 .. Len(kid(k)) /\ r[i] = kid(k)[m]
                /\ Inside(r[i], d.kids[k], KidAt(d, a, k)) /\ r[i].pane \in AllPanes(d.kids[k])
    <3>1. k \in 1 .. n /\ m \in 1 .. Len(kid(k)) /\ r[i] = kid(k)[m]
      BY <2>8, <2>11 DEF From
    <3>2. Tiles(kid(k), d.kids[k], KidAt(d, a, k))
      BY <2>5, <3>1
    <3> QED
      BY <3>1, <3>2 DEF Tiles
  <2>12. ASSUME NEW i \in 1 .. Len(r) PROVE r[i] \in Placed
    BY <2>10 DEF P
  <2>13. ASSUME NEW i \in 1 .. Len(r)
         PROVE  Inside(r[i], d, a) /\ r[i].pane \in AllPanes(d)
    <3>1. PICK k, m : From(r, g, i, k, m)
      BY <2>10
    <3>2. k \in 1 .. n /\ Inside(r[i], d.kids[k], KidAt(d, a, k)) /\ r[i].pane \in AllPanes(d.kids[k])
      BY <2>11, <3>1
    <3>3. r[i].pane \in AllPanes(d)
      BY <2>1, <2>3, <3>2, AllPanesAre
    <3> DEFINE b == KidAt(d, a, k)
               e == d.kids[k]
               q == r[i]
    <3>4. q.x \in Nat /\ q.y \in Nat /\ q.w \in Nat /\ q.h \in Nat
      BY <2>12 DEF Placed
    <3>5. /\ b \in Box /\ a[1] <= b[1] /\ b[1] + e.w <= a[1] + d.w
          /\ a[2] <= b[2] /\ b[2] + e.h <= a[2] + d.h
      BY <2>1, <2>2, <2>3, <3>2, KidsApart
    <3>6. e \in AllCells
      BY <2>4, <3>2, CellsAre
    <3> HIDE DEF b, e, q
    <3>7. /\ a[1] \in Nat /\ a[2] \in Nat /\ b[1] \in Nat /\ b[2] \in Nat
          /\ e.w \in Nat /\ e.h \in Nat /\ d.w \in Nat /\ d.h \in Nat
      BY <2>1, <3>5, <3>6, CellIs DEF Box
    <3>8. /\ q.x >= b[1] /\ q.x + q.w <= b[1] + e.w /\ q.w > 0
          /\ q.y >= b[2] /\ q.y + q.h <= b[2] + e.h /\ q.h > 0
      BY <3>2 DEF q, e, b, Inside, Right, Bottom
    <3>9. /\ q.x >= a[1] /\ q.x + q.w <= a[1] + d.w
          /\ q.y >= a[2] /\ q.y + q.h <= a[2] + d.h
      <4>1. \A o, u, x, w, e0, d0 \in Nat :
               x >= u /\ x + w <= u + e0 /\ o <= u /\ u + e0 <= o + d0
                 => x >= o /\ x + w <= o + d0
        OBVIOUS
      <4>2. q.x >= a[1] /\ q.x + q.w <= a[1] + d.w
        BY ONLY <3>4, <3>5, <3>7, <3>8, <4>1
      <4>3. q.y >= a[2] /\ q.y + q.h <= a[2] + d.h
        BY ONLY <3>4, <3>5, <3>7, <3>8, <4>1
      <4> QED
        BY <4>2, <4>3
    <3>10. Inside(q, d, a)
      BY <3>8, <3>9 DEF Inside, Right, Bottom
    <3> QED
      BY <3>3, <3>10 DEF q
  <2>14. ASSUME NEW p \in AllPanes(d) PROVE \E i \in 1 .. Len(r) : r[i].pane = p
    <3>1. PICK k \in 1 .. n : p \in AllPanes(d.kids[k])
      BY <2>1, <2>3, AllPanesAre
    <3>2. PICK m \in 1 .. Len(kid(k)) : kid(k)[m].pane = p
      BY <2>5, <3>1 DEF Tiles
    <3>3. PICK i \in 1 .. Len(r) : r[i] = g[k][m]
      BY <2>8, <2>10, <3>1, <3>2
    <3>4. r[i].pane = p
      BY <2>8, <3>1, <3>2, <3>3
    <3> QED
      BY <3>4
  <2>15. ASSUME NEW i \in 1 .. Len(r), NEW j \in 1 .. Len(r), i # j
         PROVE  r[i].pane # r[j].pane /\ ~ Overlaps(r[i], r[j])
    <3>1. PICK k, m, l, o : From(r, g, i, k, m) /\ From(r, g, j, l, o) /\ (k # l \/ m # o)
      BY <2>10, <2>15
    <3>2. /\ k \in 1 .. n /\ m \in 1 .. Len(kid(k)) /\ r[i] = kid(k)[m]
          /\ Inside(r[i], d.kids[k], KidAt(d, a, k)) /\ r[i].pane \in AllPanes(d.kids[k])
      BY <2>11, <3>1
    <3>3. /\ l \in 1 .. n /\ o \in 1 .. Len(kid(l)) /\ r[j] = kid(l)[o]
          /\ Inside(r[j], d.kids[l], KidAt(d, a, l)) /\ r[j].pane \in AllPanes(d.kids[l])
      BY <2>11, <3>1
    <3>4. CASE k = l
      <4>1. m # o /\ o \in 1 .. Len(kid(k)) /\ r[j] = kid(k)[o]
        BY <3>1, <3>3, <3>4
      <4>2. Tiles(kid(k), d.kids[k], KidAt(d, a, k))
        BY <2>5, <3>2
      <4> QED
        BY <3>2, <4>1, <4>2 DEF Tiles
    <3>5. CASE k # l
      <4>1. AllPanes(d.kids[k]) \cap AllPanes(d.kids[l]) = {}
        BY <2>3, <2>6, <3>2, <3>3, <3>5 DEF Shaped
      <4>2. r[i] \in Placed /\ r[j] \in Placed
        BY <2>12
      <4>3. ~ Overlaps(r[i], r[j])
        BY <2>1, <2>2, <2>3, <3>2, <3>3, <3>5, <4>2, DrawnApart
      <4> QED
        BY <3>2, <3>3, <4>1, <4>3
    <3> QED
      BY <3>4, <3>5
  <2>16. Tiles(r, d, a)
    BY <2>13, <2>14, <2>15 DEF Tiles
  <2> QED
    BY <2>9, <2>16
<1>3. AllCells \subseteq T
  <2> HIDE DEF T
  <2> QED
    BY <1>1, <1>2, TreeInduction
<1>4. c \in T
  BY <1>3, CellsAre
<1> QED
  BY <1>4

\* On a terminal of its own size a filled tree is drawn whole: nothing is cut.
LEMMA RectsAre ==
    ASSUME NEW c \in Cells, Every(c, Settled), Every(c, Filled),
           NEW t \in Nat \X Nat, t[1] = c.w, t[2] = c.h, t[1] > 0, t[2] > 0
    PROVE  LET r == Walk(c, 0, 0) IN
           /\ Rects(c, NoPane, t) = r /\ r \in Seq(Placed)
           /\ \A i \in 1 .. Len(r) : r[i].pane \in AllPanes(c)
           /\ \A p \in AllPanes(c) : \E i \in 1 .. Len(r) : r[i].pane = p
           /\ \A i, j \in 1 .. Len(r) : i # j => r[i].pane # r[j].pane /\ ~ Overlaps(r[i], r[j])
<1> DEFINE at == <<0, 0>>
           r == Walk(c, 0, 0)
<1>1. at \in Box /\ at[1] = 0 /\ at[2] = 0
  BY DEF Box
<1> HIDE DEF at
<1>2. r \in Seq(Placed) /\ Tiles(r, c, at)
  BY <1>1, WalkIs, WalkTiles
<1> HIDE DEF r
<1>3. DOMAIN r = 1 .. Len(r) /\ \A i \in 1 .. Len(r) : r[i] \in Placed
  BY <1>2
<1>4. ASSUME NEW i \in 1 .. Len(r) PROVE Clipped(r[i], t) = r[i] /\ r[i].w > 0 /\ r[i].h > 0
  <2> DEFINE q == r[i]
             tw == t[1]
             th == t[2]
  <2>1. q \in Placed /\ tw \in Nat /\ th \in Nat
    BY <1>3
  <2>2. q.x + q.w <= 0 + c.w /\ q.y + q.h <= 0 + c.h /\ q.w > 0 /\ q.h > 0
    BY <1>1, <1>2 DEF Tiles, Inside, Right, Bottom
  <2>3. tw = c.w /\ th = c.h
    OBVIOUS
  <2>4. Clipped(q, t) = [q EXCEPT !.w = Smaller(q.x + q.w, tw) - q.x,
                                  !.h = Smaller(q.y + q.h, th) - q.y]
    BY DEF Clipped, Right, Bottom
  <2> HIDE DEF q, tw, th
  <2>5. q.x \in Nat /\ q.y \in Nat /\ q.w \in Nat /\ q.h \in Nat
    BY <2>1 DEF Placed
  <2>6. Smaller(q.x + q.w, tw) - q.x = q.w /\ Smaller(q.y + q.h, th) - q.y = q.h
    <3>1. q.x + q.w <= tw /\ q.y + q.h <= th
      BY <2>1, <2>2, <2>3
    <3>2. \A a, w, b \in Nat : a + w <= b => Smaller(a + w, b) - a = w
      BY DEF Smaller
    <3> QED
      BY <2>1, <2>5, <3>1, <3>2
  <2>7. Clipped(q, t) = [q EXCEPT !.w = q.w, !.h = q.h]
    BY <2>4, <2>6
  <2>8. [q EXCEPT !.w = q.w, !.h = q.h] = q
    BY <2>1 DEF Placed
  <2> QED
    BY <2>2, <2>7, <2>8 DEF q
<1> DEFINE cut == [i \in DOMAIN r |-> Clipped(r[i], t)]
           whole == {b \in ToSet(cut) : b.w > 0 /\ b.h > 0}
<1>5. cut = r
  BY <1>2, <1>3, <1>4
<1>6. Rects(c, NoPane, t) = Only(cut, whole)
  BY DEF Rects, r
<1>7. \A i \in 1 .. Len(r) : r[i] \in whole
  BY <1>3, <1>4, <1>5 DEF ToSet
<1> HIDE DEF cut, whole
<1>8. Only(r, whole) = r
  BY <1>2, <1>7, OnlyIs
<1>9. Rects(c, NoPane, t) = r
  BY <1>5, <1>6, <1>8
<1> QED
  BY <1>2, <1>9 DEF Tiles, r

\* On a terminal with no room nothing is drawn.
LEMMA NothingDrawn ==
    ASSUME NEW c \in Cells, NEW t \in Nat \X Nat, t[1] = 0 \/ t[2] = 0
    PROVE  ToSet(Rects(c, NoPane, t)) = {}
<1> DEFINE at == <<0, 0>>
           r == Walk(c, 0, 0)
<1>1. at \in Box /\ at[1] = 0 /\ at[2] = 0
  BY DEF Box
<1> HIDE DEF at
<1>2. r \in Seq(Placed)
  BY <1>1, WalkIs
<1> HIDE DEF r
<1>3. DOMAIN r = 1 .. Len(r) /\ Len(r) \in Nat /\ \A i \in 1 .. Len(r) : r[i] \in Placed
  BY <1>2
<1> DEFINE cut == [i \in DOMAIN r |-> Clipped(r[i], t)]
           whole == {b \in ToSet(cut) : b.w > 0 /\ b.h > 0}
<1>4. ASSUME NEW i \in 1 .. Len(r) PROVE ~ (Clipped(r[i], t).w > 0 /\ Clipped(r[i], t).h > 0)
  <2> DEFINE q == r[i]
             tw == t[1]
             th == t[2]
  <2>1. q \in Placed /\ (tw = 0 \/ th = 0)
    BY <1>3
  <2>2. Clipped(q, t) = [q EXCEPT !.w = Smaller(q.x + q.w, tw) - q.x,
                                  !.h = Smaller(q.y + q.h, th) - q.y]
    BY DEF Clipped, Right, Bottom
  <2> HIDE DEF q, tw, th
  <2>3. /\ Clipped(q, t).w = Smaller(q.x + q.w, tw) - q.x
        /\ Clipped(q, t).h = Smaller(q.y + q.h, th) - q.y
    BY <2>1, <2>2 DEF Placed
  <2>4. q.x \in Nat /\ q.y \in Nat /\ q.w \in Nat /\ q.h \in Nat
    BY <2>1 DEF Placed
  <2>5. \A a, w \in Nat : ~ (Smaller(a + w, 0) - a > 0)
    BY DEF Smaller
  <2> QED
    BY <2>1, <2>3, <2>4, <2>5 DEF q
<1>5. Rects(c, NoPane, t) = Only(cut, whole)
  BY DEF Rects, r
<1>6. whole = {}
  BY <1>3, <1>4 DEF ToSet
<1> DEFINE X == {cut[i] : i \in 1 .. Len(r)}
<1>7. cut \in Seq(X)
  <2> DEFINE n == Len(r)
             put(i) == Clipped(r[i], t)
  <2>1. n \in Nat /\ cut = [i \in 1 .. n |-> put(i)] /\ X = {put(i) : i \in 1 .. n}
    BY <1>3
  <2> HIDE DEF n, put, cut, X
  <2> QED
    BY <2>1
<1> HIDE DEF cut, X, whole
<1>8. ToSet(Only(cut, whole)) = ToSet(cut) \cap whole
  BY <1>7, OnlyIs
<1> QED
  BY <1>5, <1>6, <1>8

\* A set of numbers has a least one, and a bounded one a greatest.
LEMMA LeastIs ==
    ASSUME NEW S, S \subseteq Nat, S # {}
    PROVE  \E m \in S : \A k \in S : m <= k
<1>1. PICK m \in S : \A k \in S : ~ (<<k, m>> \in OpToRel(<, Nat))
  BY NatLessThanWellFounded, WFMin
<1>2. ASSUME NEW k \in S PROVE m <= k
  <2>1. ~ (k < m)
    BY <1>1 DEF OpToRel
  <2>2. k \in Nat /\ m \in Nat
    OBVIOUS
  <2> QED
    BY <2>1, <2>2
<1> QED
  BY <1>2

\* A bounded set of numbers has a greatest one.
LEMMA GreatestIs ==
    ASSUME NEW S, NEW b \in Nat, S \subseteq 0 .. b, S # {}
    PROVE  \E m \in S : \A k \in S : k <= m
<1> DEFINE U == {b - k : k \in S}
<1>1. U \subseteq Nat /\ U # {}
  OBVIOUS
<1>2. PICK u \in U : \A v \in U : u <= v
  <2> HIDE DEF U
  <2> QED
    BY <1>1, LeastIs
<1>3. PICK m \in S : u = b - m
  OBVIOUS
<1>4. ASSUME NEW k \in S PROVE k <= m
  <2>1. b - k \in U
    OBVIOUS
  <2>2. b - m <= b - k
    BY <1>2, <1>3, <2>1
  <2>3. k \in Nat /\ m \in Nat
    OBVIOUS
  <2> QED
    BY <2>2, <2>3
<1> QED
  BY <1>4

\* First picks one of the places.
LEMMA FirstIs ==
    ASSUME NEW S, S \subseteq Nat, S # {}
    PROVE  First(S) \in S
<1>1. \E m \in S : \A k \in S : m <= k
  BY LeastIs
<1> QED
  BY <1>1 DEF First

\* No pane twice.
NoRepeats(m) == \A i, j \in 1 .. Len(m) : m[i] = m[j] => i = j

\* Touching a pane puts it last, once, and disturbs the order of no others.
LEMMA TouchedIs ==
    ASSUME NEW m \in Seq(Nat), NoRepeats(m), NEW q \in Nat
    PROVE  /\ Touched(m, q) \in Seq(Nat) /\ NoRepeats(Touched(m, q))
           /\ ToSet(Touched(m, q)) = ToSet(m) \cup {q}
<1> DEFINE kept == Only(m, ToSet(m) \ {q})
           n == Len(kept)
           r == Append(kept, q)
<1>1. ToSet(kept) = ToSet(m) \cap (ToSet(m) \ {q}) /\ kept \in Seq(Nat) /\ NoRepeats(kept)
  BY OnlyIs DEF NoRepeats
<1>2. Touched(m, q) = r
  BY DEF Touched
<1> HIDE DEF kept
<1>3. n \in Nat /\ DOMAIN kept = 1 .. n /\ \A i \in 1 .. n : kept[i] \in Nat /\ kept[i] # q
  <2>1. n \in Nat /\ DOMAIN kept = 1 .. n /\ \A i \in 1 .. n : kept[i] \in Nat
    BY <1>1
  <2>2. \A i \in 1 .. n : kept[i] \in ToSet(kept)
    BY <2>1 DEF ToSet
  <2> QED
    BY <1>1, <2>1, <2>2
<1>4. /\ r \in Seq(Nat) /\ Len(r) = n + 1 /\ DOMAIN r = 1 .. n + 1 /\ r[n + 1] = q
      /\ \A i \in 1 .. n : r[i] = kept[i]
  BY <1>1, <1>3
<1> HIDE DEF n, r
<1>5. ASSUME NEW i \in 1 .. n + 1 PROVE i \in 1 .. n \/ i = n + 1
  BY <1>3
<1>6. NoRepeats(r)
  <2> SUFFICES ASSUME NEW i \in 1 .. n + 1, NEW j \in 1 .. n + 1, r[i] = r[j] PROVE i = j
    BY <1>4 DEF NoRepeats
  <2>1. CASE i \in 1 .. n /\ j \in 1 .. n
    BY <1>1, <1>4, <2>1 DEF NoRepeats, n
  <2>2. CASE i = n + 1 \/ j = n + 1
    BY <1>3, <1>4, <1>5, <2>2
  <2> QED
    BY <1>5, <2>1, <2>2
<1>7. ToSet(r) = ToSet(kept) \cup {q}
  <2>1. n + 1 \in 1 .. n + 1 /\ \A i \in 1 .. n : i \in 1 .. n + 1
    BY <1>3
  <2>2. ASSUME NEW x \in ToSet(r) PROVE x \in ToSet(kept) \cup {q}
    <3>1. PICK i \in 1 .. n + 1 : x = r[i]
      BY <1>4 DEF ToSet
    <3> QED
      BY <1>3, <1>4, <1>5, <3>1 DEF ToSet
  <2>3. ASSUME NEW x \in ToSet(kept) \cup {q} PROVE x \in ToSet(r)
    <3>1. CASE x = q
      BY <1>4, <2>1, <3>1 DEF ToSet
    <3>2. CASE x \in ToSet(kept)
      <4>1. PICK i \in 1 .. n : x = kept[i]
        BY <1>3, <3>2 DEF ToSet
      <4> QED
        BY <1>4, <2>1, <4>1 DEF ToSet
    <3> QED
      BY <3>1, <3>2
  <2> QED
    BY <2>2, <2>3
<1>8. ToSet(r) = ToSet(m) \cup {q}
  BY <1>1, <1>7
<1> QED
  BY <1>2, <1>4, <1>6, <1>8

\* A rank is a place in the order, or 0.
LEMMA RankIs ==
    ASSUME NEW m \in Seq(Nat), NoRepeats(m), NEW p
    PROVE  /\ Rank(p, m) \in 0 .. Len(m)
           /\ p \notin ToSet(m) => Rank(p, m) = 0
           /\ \A i \in 1 .. Len(m) : m[i] = p => Rank(p, m) = i
<1>1. DOMAIN m = 1 .. Len(m) /\ Len(m) \in Nat
  OBVIOUS
<1>2. CASE p \notin ToSet(m)
  BY <1>1, <1>2 DEF Rank, ToSet
<1>3. CASE p \in ToSet(m)
  <2>1. PICK i \in 1 .. Len(m) : m[i] = p
    BY <1>1, <1>3 DEF ToSet
  <2>2. \A j \in 1 .. Len(m) : m[j] = p => j = i
    BY <2>1 DEF NoRepeats
  <2>3. Rank(p, m) = CHOOSE j \in 1 .. Len(m) : m[j] = p
    BY <1>1, <1>3 DEF Rank
  <2>4. Rank(p, m) = i
    BY <2>1, <2>2, <2>3
  <2> QED
    BY <1>1, <1>3, <2>1, <2>2, <2>4
<1> QED
  BY <1>2, <1>3

\* Once another is touched, the pane that was last is above all but that one.
LEMMA LastRanksHighest ==
    ASSUME NEW m \in Seq(Nat), NoRepeats(m), Len(m) > 0,
           NEW p, p = m[Len(m)], NEW q \in Nat, q # p, NEW x, x # p, x # q
    PROVE  Rank(x, Touched(m, q)) < Rank(p, Touched(m, q))
<1> DEFINE kept == Only(m, ToSet(m) \ {q})
           n == Len(kept)
           r == Append(kept, q)
<1>1. kept \in Seq(Nat)
  BY OnlyIs
<1>2. Len(kept) > 0 /\ kept[Len(kept)] = p
  <2>1. m[Len(m)] \in ToSet(m) \ {q}
    BY DEF ToSet
  <2> QED
    BY <2>1, OnlyIs
<1>3. Touched(m, q) = r
  BY DEF Touched
<1>4. r \in Seq(Nat) /\ NoRepeats(r)
  BY <1>3, TouchedIs
<1> HIDE DEF kept
<1>5. /\ n \in Nat /\ n > 0 /\ Len(r) = n + 1 /\ DOMAIN r = 1 .. n + 1 /\ r[n + 1] = q /\ r[n] = p
      /\ n \in 1 .. n + 1
  BY <1>1, <1>2
<1> HIDE DEF n, r
<1>6. Rank(p, r) = n
  BY <1>4, <1>5, RankIs
<1>7. x \notin ToSet(r) => Rank(x, r) < Rank(p, r)
  <2>1. x \notin ToSet(r) => Rank(x, r) = 0
    BY <1>4, RankIs
  <2> QED
    BY <1>5, <1>6, <2>1
<1>8. ASSUME x \in ToSet(r) PROVE Rank(x, r) < Rank(p, r)
  <2>1. PICK i \in 1 .. n + 1 : r[i] = x
    BY <1>5, <1>8 DEF ToSet
  <2>2. i # n /\ i # n + 1
    BY <1>5, <2>1
  <2>3. Rank(x, r) = i
    BY <1>4, <1>5, <2>1, RankIs
  <2> QED
    BY <1>5, <1>6, <2>1, <2>2, <2>3
<1> QED
  BY <1>3, <1>7, <1>8

Dirs == {"left", "right", "up", "down"}

\* Seen from the other pane, it lies the other way.
LEMMA AdjacentBothWays ==
    ASSUME NEW me \in Placed, NEW r \in Placed, NEW dir \in Dirs
    PROVE  /\ dir \in DOMAIN Opposite /\ Opposite[dir] \in Dirs
           /\ Adjacent(me, r, dir) => Adjacent(r, me, Opposite[dir])
<1>1. /\ me.x \in Nat /\ me.y \in Nat /\ me.w \in Nat /\ me.h \in Nat
      /\ r.x \in Nat /\ r.y \in Nat /\ r.w \in Nat /\ r.h \in Nat
  BY DEF Placed
<1>2. \A a, al, b, bl \in Nat : Overlap1D(a, al, b, bl) => Overlap1D(b, bl, a, al)
  BY DEF Overlap1D
<1>3. CASE dir = "left"
  <2>1. dir \in DOMAIN Opposite /\ Opposite[dir] = "right"
    BY <1>3 DEF Opposite
  <2> QED
    BY <1>1, <1>2, <1>3, <2>1 DEF Adjacent, Dirs
<1>4. CASE dir = "right"
  <2>1. dir \in DOMAIN Opposite /\ Opposite[dir] = "left"
    BY <1>4 DEF Opposite
  <2> QED
    BY <1>1, <1>2, <1>4, <2>1 DEF Adjacent, Dirs
<1>5. CASE dir = "up"
  <2>1. dir \in DOMAIN Opposite /\ Opposite[dir] = "down"
    BY <1>5 DEF Opposite
  <2> QED
    BY <1>1, <1>2, <1>5, <2>1 DEF Adjacent, Dirs
<1>6. CASE dir = "down"
  <2>1. dir \in DOMAIN Opposite /\ Opposite[dir] = "up"
    BY <1>6 DEF Opposite
  <2> QED
    BY <1>1, <1>2, <1>6, <2>1 DEF Adjacent, Dirs
<1> QED
  BY <1>3, <1>4, <1>5, <1>6 DEF Dirs

\* Rectangles, one for each pane.
Distinct(r) == r \in Seq(Placed) /\ \A i, j \in 1 .. Len(r) : i # j => r[i].pane # r[j].pane

\* The places Neighbour chooses between.
Best(r, m, p, dir) ==
    {i \in Near(r, p, dir) : \A j \in Near(r, p, dir) : Rank(r[j].pane, m) <= Rank(r[i].pane, m)}

\* The places next to the k-th rectangle.
LEMMA NearIs ==
    ASSUME NEW r, Distinct(r), NEW k \in 1 .. Len(r), NEW dir
    PROVE  \A i : i \in Near(r, r[k].pane, dir) <=>
                     i \in 1 .. Len(r) /\ r[i].pane # r[k].pane /\ Adjacent(r[k], r[i], dir)
<1>1. DOMAIN r = 1 .. Len(r)
  BY DEF Distinct
<1> DEFINE me == CHOOSE b \in ToSet(r) : b.pane = r[k].pane
<1>2. me = r[k]
  <2>1. r[k] \in ToSet(r)
    BY <1>1 DEF ToSet
  <2>2. \A b \in ToSet(r) : b.pane = r[k].pane => b = r[k]
    BY <1>1 DEF ToSet, Distinct
  <2> QED
    BY <2>1, <2>2
<1> QED
  BY <1>1, <1>2 DEF Near

\* Neighbour leads to a pane that is drawn, one of those next to where it starts.
LEMMA NeighbourDrawn ==
    ASSUME NEW r, DOMAIN r = 1 .. Len(r), Len(r) \in Nat, NEW m \in Seq(Nat), NoRepeats(m),
           NEW p, NEW dir, Neighbour(r, m, p, dir) # NoPane
    PROVE  /\ \E k \in 1 .. Len(r) : r[k].pane = p
           /\ \E l \in Near(r, p, dir) : l \in 1 .. Len(r) /\ r[l].pane = Neighbour(r, m, p, dir)
<1>1. /\ p \in {b.pane : b \in ToSet(r)} /\ Near(r, p, dir) # {}
      /\ Neighbour(r, m, p, dir) = r[First(Best(r, m, p, dir))].pane
  BY DEF Neighbour, Best
<1>2. Near(r, p, dir) \subseteq 1 .. Len(r)
  BY DEF Near
<1> DEFINE near == Near(r, p, dir)
           rank(i) == Rank(r[i].pane, m)
           ranks == {rank(i) : i \in near}
<1>3. ranks \subseteq 0 .. Len(m) /\ ranks # {} /\ Len(m) \in Nat
  <2>1. \A i \in near : rank(i) \in 0 .. Len(m)
    BY RankIs
  <2>2. near # {}
    BY <1>1
  <2> HIDE DEF near, rank
  <2> QED
    BY <2>1, <2>2
<1>4. PICK g \in ranks : \A k \in ranks : k <= g
  <2> HIDE DEF ranks
  <2> QED
    BY <1>3, GreatestIs
<1>5. PICK i \in near : g = rank(i)
  OBVIOUS
<1>6. i \in Best(r, m, p, dir)
  BY <1>4, <1>5 DEF Best
<1> DEFINE l == First(Best(r, m, p, dir))
<1>7. l \in Best(r, m, p, dir)
  <2>1. Best(r, m, p, dir) \subseteq Nat
    BY <1>2 DEF Best
  <2> QED
    BY <1>6, <2>1, FirstIs
<1>8. l \in Near(r, p, dir)
  <2> HIDE DEF l
  <2> QED
    BY <1>7 DEF Best
<1> HIDE DEF l
<1>9. r[l].pane = Neighbour(r, m, p, dir)
  BY <1>1 DEF l
<1>10. PICK k \in 1 .. Len(r) : r[k].pane = p
  BY <1>1 DEF ToSet
<1> QED
  BY <1>2, <1>8, <1>9, <1>10

\* Where Neighbour leads is next to where it starts.
LEMMA NeighbourIs ==
    ASSUME NEW r, Distinct(r), NEW m \in Seq(Nat), NoRepeats(m),
           NEW p, NEW dir, Neighbour(r, m, p, dir) # NoPane
    PROVE  \E k, l \in 1 .. Len(r) :
              /\ r[k].pane = p /\ r[l].pane = Neighbour(r, m, p, dir) /\ r[l].pane # p
              /\ Adjacent(r[k], r[l], dir)
<1>1. DOMAIN r = 1 .. Len(r) /\ Len(r) \in Nat
  BY DEF Distinct
<1>2. PICK k \in 1 .. Len(r) : r[k].pane = p
  BY <1>1, NeighbourDrawn
<1>3. PICK l \in Near(r, p, dir) : l \in 1 .. Len(r) /\ r[l].pane = Neighbour(r, m, p, dir)
  BY <1>1, NeighbourDrawn
<1>4. r[l].pane # p /\ Adjacent(r[k], r[l], dir)
  BY <1>2, <1>3, NearIs
<1> QED
  BY <1>2, <1>3, <1>4

\* A step to the neighbour and the step back.
LEMMA StepBack ==
    ASSUME NEW r, Distinct(r), NEW m \in Seq(Nat), NoRepeats(m), Len(m) > 0,
           NEW p, p = m[Len(m)], NEW dir \in Dirs,
           NEW q, q = Neighbour(r, m, p, dir), q # NoPane
    PROVE  Neighbour(r, Touched(m, q), q, Opposite[dir]) = p
<1>1. PICK k, l \in 1 .. Len(r) :
         r[k].pane = p /\ r[l].pane = q /\ q # p /\ Adjacent(r[k], r[l], dir)
  BY NeighbourIs
<1>2. /\ DOMAIN r = 1 .. Len(r) /\ Len(r) \in Nat /\ r[k] \in Placed /\ r[l] \in Placed
      /\ q \in Nat
  <2>1. DOMAIN r = 1 .. Len(r) /\ Len(r) \in Nat /\ r[k] \in Placed /\ r[l] \in Placed
    BY <1>1 DEF Distinct
  <2>2. r[l].pane \in Nat
    BY <2>1 DEF Placed
  <2> QED
    BY <1>1, <2>1, <2>2
<1> DEFINE back == Opposite[dir]
           m2 == Touched(m, q)
<1>3. Adjacent(r[l], r[k], back)
  BY <1>1, <1>2, AdjacentBothWays
<1> HIDE DEF back
<1>4. \A i : i \in Near(r, q, back) <=>
                i \in 1 .. Len(r) /\ r[i].pane # q /\ Adjacent(r[l], r[i], back)
  BY <1>1, NearIs
<1>5. k \in Near(r, q, back)
  BY <1>1, <1>3, <1>4
\* All the others next to it were touched before.
<1>6. ASSUME NEW i \in Near(r, q, back), i # k
      PROVE  Rank(r[i].pane, m2) < Rank(p, m2)
  <2> DEFINE x == r[i].pane
  <2>1. x # p /\ x # q
    BY <1>1, <1>4, <1>6 DEF Distinct
  <2> HIDE DEF x
  <2>2. Rank(x, m2) < Rank(p, m2)
    BY <1>1, <1>2, <2>1, LastRanksHighest
  <2> QED
    BY <2>2 DEF x
<1>7. \A i \in Near(r, q, back) : Rank(r[i].pane, m2) \in Nat
  <2>1. m2 \in Seq(Nat) /\ NoRepeats(m2)
    BY <1>2, TouchedIs
  <2> HIDE DEF m2
  <2>2. Len(m2) \in Nat
    BY <2>1
  <2>3. \A x : Rank(x, m2) \in 0 .. Len(m2)
    BY <2>1, RankIs
  <2> QED
    BY <2>2, <2>3
<1> HIDE DEF m2
<1>8. Best(r, m2, q, back) = {k}
  <2>1. k \in Best(r, m2, q, back)
    <3>1. ASSUME NEW j \in Near(r, q, back) PROVE Rank(r[j].pane, m2) <= Rank(r[k].pane, m2)
      <4>1. Rank(r[j].pane, m2) \in Nat /\ Rank(r[k].pane, m2) \in Nat
        BY <1>5, <1>7
      <4>2. j # k => Rank(r[j].pane, m2) < Rank(r[k].pane, m2)
        BY <1>1, <1>6
      <4> QED
        BY <4>1, <4>2
    <3> QED
      BY <1>5, <3>1 DEF Best
  <2>2. ASSUME NEW i \in Best(r, m2, q, back), i # k PROVE FALSE
    <3>1. i \in Near(r, q, back) /\ Rank(r[k].pane, m2) <= Rank(r[i].pane, m2)
      BY <1>5 DEF Best
    <3>2. Rank(r[i].pane, m2) < Rank(r[k].pane, m2)
      BY <1>1, <1>6, <2>2, <3>1
    <3>3. Rank(r[i].pane, m2) \in Nat /\ Rank(r[k].pane, m2) \in Nat
      BY <1>5, <1>7, <3>1
    <3> QED
      BY <3>1, <3>2, <3>3
  <2> QED
    BY <2>1, <2>2
<1>9. First({k}) = k
  BY <1>1 DEF First
<1>10. q \in {b.pane : b \in ToSet(r)} /\ Near(r, q, back) # {}
  BY <1>1, <1>2, <1>5 DEF ToSet
<1>11. Neighbour(r, m2, q, back) = r[First(Best(r, m2, q, back))].pane
  BY <1>10 DEF Neighbour, Best
<1> QED
  BY <1>1, <1>8, <1>9, <1>11 DEF back, m2

\* Only panes of the tree are drawn, whatever its sizes.
LEMMA WalkPanes ==
    ASSUME NEW c \in Cells, NEW at \in Box
    PROVE  LET r == Walk(c, at[1], at[2]) IN \A i \in 1 .. Len(r) : r[i].pane \in AllPanes(c)
<1> DEFINE Drawn(r, d) == \A i \in 1 .. Len(r) : r[i].pane \in AllPanes(d)
           Good(d) == \A a \in Box : Drawn(Walk(d, a[1], a[2]), d)
           T == {d \in AllCells : d \in Cells => Good(d)}
<1>1. Leaves \subseteq T
  <2> SUFFICES ASSUME NEW d \in Leaves, d \in Cells, NEW a \in Box
               PROVE  Drawn(Walk(d, a[1], a[2]), d)
    BY AllCellsAre
  <2>1. Walk(d, a[1], a[2]) = <<Here(d, a)>> /\ AllPanes(d) = {d.pane}
    BY WalkIs, AllPanesAre, AllCellsAre, LeafOrSplit
  <2> DEFINE r == Here(d, a)
             w == <<r>>
  <2>2. r.pane = d.pane
    BY DEF Here
  <2> HIDE DEF r
  <2>3. Len(w) = 1 /\ w[1] = r /\ 1 .. 1 = {1}
    OBVIOUS
  <2> HIDE DEF w
  <2>4. Drawn(w, d)
    BY <2>1, <2>2, <2>3
  <2> QED
    BY <2>1, <2>4 DEF w, r
<1>2. ASSUME NEW d \in SplitsOver(AllCells), \A i \in DOMAIN d.kids : d.kids[i] \in T
      PROVE  d \in T
  <2>1. d \in AllCells /\ ~ IsLeaf(d)
    BY AllCellsAre, LeafOrSplit
  <2> SUFFICES ASSUME d \in Cells, NEW a \in Box
               PROVE  Drawn(Walk(d, a[1], a[2]), d)
    BY <2>1
  <2> DEFINE n == Len(d.kids)
             kid(i) == Walk(d.kids[i], KidAt(d, a, i)[1], KidAt(d, a, i)[2])
             P == Seq(Placed)
  <2>2. n \in Nat /\ DOMAIN d.kids = 1 .. n
    BY <2>1, CellIs
  <2>3. ASSUME NEW i \in 1 .. n
        PROVE  d.kids[i] \in Cells /\ KidAt(d, a, i) \in Box /\ kid(i) \in P
    BY <2>1, <2>2, OffsetIs, CellsAre, WalkIs
  <2>4. ASSUME NEW i \in 1 .. n PROVE Drawn(kid(i), d.kids[i])
    <3>1. d.kids[i] \in T /\ d.kids[i] \in Cells
      BY <1>2, <2>2, <2>3
    <3>2. Good(d.kids[i])
      <4> HIDE DEF Good
      <4> QED
        BY <3>1
    <3> QED
      BY <2>3, <3>2
  <2> HIDE DEF kid, P, T, n
  <2>5. [i \in 1 .. n |-> kid(i)] \in Seq(P)
    BY ONLY <2>2, <2>3
  <2> DEFINE g == [i \in DOMAIN d.kids |-> kid(i)]
             r == FlattenSeq(g)
  <2>6. g \in Seq(P) /\ Len(g) = n /\ \A i \in 1 .. n : g[i] = kid(i)
    BY <2>2, <2>5
  <2> HIDE DEF g, r
  <2>7. Walk(d, a[1], a[2]) = r
    BY <2>1, WalkIs DEF g, kid, r
  <2>8. \A i \in 1 .. Len(r) : \E k, m : From(r, g, i, k, m)
    BY <2>6, FlattenIs DEF r, P
  <2>9. ASSUME NEW i \in 1 .. Len(r) PROVE r[i].pane \in AllPanes(d)
    <3>1. PICK k, m : From(r, g, i, k, m)
      BY <2>8
    <3>2. k \in 1 .. n /\ m \in 1 .. Len(kid(k)) /\ r[i] = kid(k)[m]
      BY <2>6, <3>1 DEF From
    <3>3. r[i].pane \in AllPanes(d.kids[k])
      BY <2>4, <3>2
    <3> QED
      BY <2>1, <2>2, <3>2, <3>3, AllPanesAre
  <2> QED
    BY <2>7, <2>9
<1>3. AllCells \subseteq T
  <2> HIDE DEF T
  <2> QED
    BY <1>1, <1>2, TreeInduction
<1>4. c \in T
  BY <1>3, CellsAre
<1> QED
  BY <1>4

\* rects() draws panes of the tree only, whatever the terminal.
LEMMA RectsDrawn ==
    ASSUME NEW c \in Cells, NEW t
    PROVE  LET r == Rects(c, NoPane, t) IN
           /\ DOMAIN r = 1 .. Len(r) /\ Len(r) \in Nat
           /\ \A i \in 1 .. Len(r) : r[i].pane \in AllPanes(c)
<1> DEFINE at == <<0, 0>>
           raw == Walk(c, 0, 0)
<1>1. at \in Box /\ at[1] = 0 /\ at[2] = 0
  BY DEF Box
<1> HIDE DEF at
<1>2. raw \in Seq(Placed) /\ \A i \in 1 .. Len(raw) : raw[i].pane \in AllPanes(c)
  BY <1>1, WalkIs, WalkPanes
<1> HIDE DEF raw
<1>3. DOMAIN raw = 1 .. Len(raw) /\ Len(raw) \in Nat /\ \A i \in 1 .. Len(raw) : raw[i] \in Placed
  BY <1>2
<1> DEFINE n == Len(raw)
           put(i) == Clipped(raw[i], t)
           cut == [i \in DOMAIN raw |-> put(i)]
           X == {put(i) : i \in 1 .. n}
           S == {b \in ToSet(cut) : b.w > 0 /\ b.h > 0}
           r == Only(cut, S)
<1>4. Rects(c, NoPane, t) = r
  BY DEF Rects, raw
<1>5. ASSUME NEW i \in 1 .. n PROVE put(i).pane = raw[i].pane
  BY <1>3 DEF Clipped, Placed
<1>6. cut = [i \in 1 .. n |-> put(i)] /\ n \in Nat
  BY <1>3
<1> HIDE DEF put, n, cut
<1>7. cut \in Seq(X)
  BY <1>6
<1>8. ASSUME NEW x \in X PROVE x.pane \in AllPanes(c)
  BY <1>2, <1>5 DEF n
<1> HIDE DEF X, S
<1>9. r \in Seq(X)
  BY <1>7, OnlyIs
<1> HIDE DEF r
<1>10. DOMAIN r = 1 .. Len(r) /\ Len(r) \in Nat /\ \A i \in 1 .. Len(r) : r[i] \in X
  BY <1>9
<1> QED
  BY <1>4, <1>8, <1>10

-----------------------------------------------------------------------------
(* The presets.                                                            *)

\* A split of new leaves, not yet sized.
LEMMA ColumnIs ==
    ASSUME NEW axis \in Axes, NEW a \in Nat, NEW b \in Nat, a < b
    PROVE  LET s == SplitCell(axis, Column(a, b), 0, 0) IN
           /\ s \in AllCells /\ s.w = 0 /\ s.h = 0 /\ AllPanes(s) = a .. b /\ Every(s, Fittable)
<1> DEFINE ks == Column(a, b)
           s == SplitCell(axis, ks, 0, 0)
           n == b - a + 1
           leaf(i) == Leaf(a + i - 1, 0, 0)
<1>1. n \in Nat /\ n >= 2 /\ \A i \in 1 .. n : a + i - 1 \in Nat
  OBVIOUS
<1>2. ASSUME NEW i \in 1 .. n
      PROVE  /\ leaf(i) \in AllCells /\ IsLeaf(leaf(i)) /\ leaf(i).pane = a + i - 1
             /\ leaf(i).w = 0 /\ leaf(i).h = 0
  <2> DEFINE p == a + i - 1
  <2>1. p \in Nat /\ 0 \in Nat
    BY <1>1
  <2> HIDE DEF p
  <2>2. /\ Leaf(p, 0, 0) \in AllCells /\ IsLeaf(Leaf(p, 0, 0)) /\ Leaf(p, 0, 0).pane = p
        /\ Leaf(p, 0, 0).w = 0 /\ Leaf(p, 0, 0).h = 0
    BY <2>1, LeafIs
  <2> QED
    BY <2>2 DEF p
<1>3. ks = [i \in 1 .. n |-> leaf(i)]
  BY DEF Column
<1> HIDE DEF leaf, n
<1>4. ks \in Seq(AllCells) /\ Len(ks) = n /\ DOMAIN ks = 1 .. n /\ \A i \in 1 .. n : ks[i] = leaf(i)
  BY <1>1, <1>2, <1>3
<1> HIDE DEF ks
<1>5. s \in AllCells /\ ~ IsLeaf(s) /\ s.axis = axis /\ s.kids = ks /\ s.w = 0 /\ s.h = 0
  <2>1. 0 \in Nat
    OBVIOUS
  <2> QED
    BY <1>4, <2>1, SplitCellIs
<1> HIDE DEF s
<1>6. \A i \in 1 .. n : AllPanes(ks[i]) = {a + i - 1}
  BY <1>2, <1>4, AllPanesAre
<1>7. AllPanes(s) = UNION {{a + i - 1} : i \in 1 .. n}
  <2>1. AllPanes(s) = UNION {AllPanes(ks[i]) : i \in 1 .. n}
    BY <1>4, <1>5, AllPanesAre
  <2> QED
    BY <1>6, <2>1
<1>8. AllPanes(s) = a .. b
  <2>1. ASSUME NEW x \in a .. b PROVE \E i \in 1 .. n : x = a + i - 1
    <3>1. x - a + 1 \in 1 .. n /\ x = a + (x - a + 1) - 1
      BY DEF n
    <3> QED
      BY <3>1
  <2>2. ASSUME NEW i \in 1 .. n PROVE a + i - 1 \in a .. b
    BY DEF n
  <2>3. \A x : x \in AllPanes(s) <=> \E i \in 1 .. n : x = a + i - 1
    BY <1>7
  <2>4. \A x : x \in AllPanes(s) <=> x \in a .. b
    BY ONLY <2>1, <2>2, <2>3
  <2> QED
    BY <2>4
<1>9. s \in Fittable
  <2>1. \A i \in 1 .. n : Along(axis, ks[i]) = 0
    BY <1>2, <1>4 DEF Along
  <2>2. ASSUME NEW i \in 1 .. n, NEW j \in 1 .. n, AllPanes(ks[i]) \cap AllPanes(ks[j]) # {}
        PROVE  i = j
    <3>1. a + i - 1 = a + j - 1
      BY <1>6, <2>2
    <3> QED
      BY <3>1
  <2>3. s \in Shaped
    BY <1>1, <1>4, <1>5, <2>2 DEF Shaped
  <2> QED
    BY <1>4, <1>5, <2>1, <2>3 DEF Fittable
<1>10. Every(s, Fittable)
  <2>1. \A i \in 1 .. n : Every(ks[i], Fittable)
    BY <1>2, <1>4, EveryIs
  <2> QED
    BY <1>4, <1>5, <1>9, <2>1, EveryIs
<1> QED
  BY <1>5, <1>8, <1>10 DEF s, ks

\* The first n panes, arranged and not yet sized.
Arranged(c, n) == /\ c \in AllCells /\ c.w = 0 /\ c.h = 0
                  /\ AllPanes(c) = 0 .. n - 1 /\ Every(c, Fittable)

\* A new leaf, not yet sized.
LEMMA OneLeaf ==
    ASSUME NEW p \in Nat
    PROVE  LET c == Leaf(p, 0, 0) IN
           c \in AllCells /\ c.w = 0 /\ c.h = 0 /\ AllPanes(c) = p .. p /\ Every(c, Fittable)
<1> DEFINE c == Leaf(p, 0, 0)
<1>1. c \in AllCells /\ IsLeaf(c) /\ c.pane = p /\ c.w = 0 /\ c.h = 0
  <2>1. 0 \in Nat
    OBVIOUS
  <2> QED
    BY <2>1, LeafIs
<1> HIDE DEF c
<1>2. AllPanes(c) = p .. p
  BY <1>1, AllPanesAre
<1>3. Every(c, Fittable)
  BY <1>1, EveryIs
<1> QED
  BY <1>1, <1>2, <1>3 DEF c

\* Every preset arranges the first n panes, each once.
LEMMA PresetsAre ==
    ASSUME NEW n \in Nat \ {0}, NEW c \in Presets(n)
    PROVE  Arranged(c, n)
<1>0. "vertical" \in Axes /\ "horizontal" \in Axes
  BY DEF Axes
<1>1. ASSUME n = 1 PROVE Arranged(Leaf(0, 0, 0), n)
  <2>1. 0 \in Nat
    OBVIOUS
  <2>2. 0 .. n - 1 = 0 .. 0
    BY <1>1
  <2> QED
    BY <2>1, <2>2, OneLeaf DEF Arranged
<1>2. ASSUME NEW axis \in Axes PROVE Arranged(Even(n, axis), n)
  <2>1. CASE n = 1
    BY <1>1, <2>1 DEF Even
  <2>2. CASE n # 1
    <3> DEFINE b == n - 1
               o == 0
    <3>1. o \in Nat /\ b \in Nat /\ o < b
      BY <2>2
    <3>2. Even(n, axis) = SplitCell(axis, Column(o, b), 0, 0)
      BY <2>2 DEF Even
    <3> HIDE DEF b, o
    <3>3. LET s == SplitCell(axis, Column(o, b), 0, 0) IN
          s \in AllCells /\ s.w = 0 /\ s.h = 0 /\ AllPanes(s) = o .. b /\ Every(s, Fittable)
      BY <3>1, ColumnIs
    <3> QED
      BY <3>2, <3>3 DEF Arranged, o, b
  <2> QED
    BY <2>1, <2>2
<1>3. Arranged(MainVertical(n), n)
  <2>1. CASE n = 1
    BY <1>1, <2>1 DEF MainVertical
  <2>2. CASE n # 1
    <3> DEFINE main == Leaf(0, 0, 0)
               side == IF n = 2 THEN Leaf(1, 0, 0)
                       ELSE SplitCell("vertical", Column(1, n - 1), 0, 0)
               ks == <<main, side>>
               s == SplitCell("horizontal", ks, 0, 0)
    <3>1. MainVertical(n) = s
      BY <2>2 DEF MainVertical
    <3>2. /\ main \in AllCells /\ main.w = 0 /\ main.h = 0 /\ AllPanes(main) = 0 .. 0
          /\ Every(main, Fittable)
      <4>1. 0 \in Nat
        OBVIOUS
      <4> QED
        BY <4>1, OneLeaf
    <3>3. /\ side \in AllCells /\ side.w = 0 /\ side.h = 0 /\ AllPanes(side) = 1 .. n - 1
          /\ Every(side, Fittable)
      <4>1. CASE n = 2
        <5>1. 1 \in Nat /\ n - 1 = 1 /\ side = Leaf(1, 0, 0)
          BY <4>1
        <5> HIDE DEF side
        <5>2. LET l == Leaf(1, 0, 0) IN
              l \in AllCells /\ l.w = 0 /\ l.h = 0 /\ AllPanes(l) = 1 .. 1 /\ Every(l, Fittable)
          BY <5>1, OneLeaf
        <5> QED
          BY <5>1, <5>2
      <4>2. CASE n # 2
        <5> DEFINE b == n - 1
                   o == 1
        <5>1. o \in Nat /\ b \in Nat /\ o < b
          BY <2>2, <4>2
        <5>2. side = SplitCell("vertical", Column(o, b), 0, 0)
          BY <4>2
        <5> HIDE DEF b, o, side
        <5>3. LET l == SplitCell("vertical", Column(o, b), 0, 0) IN
              l \in AllCells /\ l.w = 0 /\ l.h = 0 /\ AllPanes(l) = o .. b /\ Every(l, Fittable)
          BY <1>0, <5>1, ColumnIs
        <5> QED
          BY <5>2, <5>3 DEF o, b
      <4> QED
        BY <4>1, <4>2
    <3> HIDE DEF main, side
    <3>4. /\ ks \in Seq(AllCells) /\ Len(ks) = 2 /\ DOMAIN ks = 1 .. 2 /\ ks[1] = main /\ ks[2] = side
          /\ 1 .. 2 = {1, 2}
      BY <3>2, <3>3
    <3> HIDE DEF ks
    <3>5. s \in AllCells /\ ~ IsLeaf(s) /\ s.axis = "horizontal" /\ s.kids = ks /\ s.w = 0 /\ s.h = 0
      <4>1. 0 \in Nat
        OBVIOUS
      <4> QED
        BY <1>0, <3>4, <4>1, SplitCellIs
    <3> HIDE DEF s
    <3>6. AllPanes(s) = 0 .. n - 1
      <4>1. AllPanes(s) = UNION {AllPanes(ks[i]) : i \in {1, 2}}
        BY <3>4, <3>5, AllPanesAre
      <4>2. AllPanes(s) = (0 .. 0) \cup (1 .. n - 1)
        BY <3>2, <3>3, <3>4, <4>1
      <4> QED
        BY <2>2, <4>2
    <3>7. s \in Fittable
      <4>1. \A i \in 1 .. 2 : Along("horizontal", ks[i]) = 0
        BY <3>2, <3>3, <3>4 DEF Along
      <4>2. AllPanes(main) \cap AllPanes(side) = {}
        BY <3>2, <3>3
      <4>3. \A i, j \in 1 .. 2 : AllPanes(ks[i]) \cap AllPanes(ks[j]) # {} => i = j
        BY <3>4, <4>2
      <4>4. s \in Shaped
        <5>1. Len(s.kids) >= 2 /\ DOMAIN s.kids = 1 .. 2
          <6>1. 2 >= 2
            OBVIOUS
          <6>2. Len(s.kids) = 2 /\ DOMAIN s.kids = 1 .. 2
            BY <3>4, <3>5
          <6> QED
            BY <6>1, <6>2, Zenon
        <5>2. \A i, j \in DOMAIN s.kids :
                 AllPanes(s.kids[i]) \cap AllPanes(s.kids[j]) # {} => i = j
          BY <3>5, <4>3, <5>1
        <5> QED
          BY <3>5, <5>1, <5>2 DEF Shaped
      <4> QED
        BY <3>4, <3>5, <4>1, <4>4 DEF Fittable
    <3>8. Every(s, Fittable)
      <4>1. \A i \in 1 .. 2 : Every(ks[i], Fittable)
        BY <3>2, <3>3, <3>4
      <4> QED
        BY <3>4, <3>5, <3>7, <4>1, EveryIs
    <3> QED
      BY <3>1, <3>5, <3>6, <3>8 DEF Arranged
  <2> QED
    BY <2>1, <2>2
<1> QED
  BY <1>2, <1>3 DEF Presets

-----------------------------------------------------------------------------
(* The invariant: a tree as fit() leaves it, of the terminal's size, and    *)
(* panes from the counter.                                                 *)

Fitted == /\ tree \in AllCells /\ Every(tree, Settled)
          /\ tree.w = term[1] /\ tree.h = term[2] /\ term \in Terminals
Numbered == /\ nextPane \in 1 .. MaxPanes /\ AllPanes(tree) \subseteq 0 .. nextPane - 1
            /\ mru \in Seq(Nat) /\ NoRepeats(mru) /\ ToSet(mru) \subseteq 0 .. nextPane - 1
            /\ zoom \in AllPanes(tree) \cup {NoPane}
LayoutInv == Fitted /\ Numbered

\* What the invariant gives of the tree.
LEMMA TreeIs ==
    ASSUME LayoutInv
    PROVE  /\ tree \in AllCells /\ tree \in Cells /\ AllPanes(tree) \subseteq 0 .. MaxPanes
           /\ Every(tree, Settled) /\ Every(tree, Fittable) /\ Every(tree, Shaped)
           /\ Panes(tree) = AllPanes(tree)
           /\ nextPane \in Nat /\ nextPane \notin AllPanes(tree) /\ nextPane <= MaxPanes
           /\ term \in Nat \X Nat /\ AllPanes(tree) \subseteq Nat
<1>1. tree \in AllCells /\ Every(tree, Settled) /\ term \in Terminals
  BY DEF LayoutInv, Fitted
<1>2. nextPane \in 1 .. MaxPanes /\ AllPanes(tree) \subseteq 0 .. nextPane - 1 /\ MaxPanes \in Nat
  BY BoundsAssumption DEF LayoutInv, Numbered
<1>3. AllPanes(tree) \subseteq 0 .. MaxPanes /\ nextPane \notin AllPanes(tree)
  BY <1>2
<1>4. tree \in Cells /\ Every(tree, Shaped)
  BY <1>1, <1>3, PartIs, AllPartsAre
<1>5. Every(tree, Fittable)
  BY <1>1, SettledIs, EveryGrows
<1>6. Panes(tree) = AllPanes(tree)
  BY <1>4, PanesIs
<1>7. term \in Nat \X Nat
  BY <1>1, BoundsAssumption
<1> QED
  BY <1>1, <1>2, <1>3, <1>4, <1>5, <1>6, <1>7

\* A preset fitted to the terminal is a tree as fit() leaves it.
LEMMA LayoutInitInv == ASSUME LayoutInit PROVE LayoutInv
<1>1. nextPane \in 1 .. MaxPanes /\ MaxPanes \in Nat /\ nextPane \in Nat \ {0} /\ nextPane <= MaxPanes
  BY BoundsAssumption DEF LayoutInit
<1>2. term \in Terminals /\ zoom = NoPane /\ mru = <<>>
  BY DEF LayoutInit
<1>3. PICK c \in Presets(nextPane) : tree = Fit(c, term[1], term[2])
  BY DEF LayoutInit
<1>4. c \in AllCells /\ AllPanes(c) = 0 .. nextPane - 1 /\ Every(c, Fittable)
  BY <1>1, PresetsAre DEF Arranged
<1>5. c \in Cells
  <2>1. Every(c, Shaped)
    BY <1>4, SettledIs, EveryGrows
  <2>2. AllPanes(c) \subseteq 0 .. MaxPanes
    BY <1>1, <1>4
  <2> QED
    BY <1>4, <2>1, <2>2, FewPanesAreLow
<1>6. term[1] \in Nat /\ term[2] \in Nat
  <2>1. term \in Nat \X Nat
    BY <1>2, BoundsAssumption
  <2> QED
    BY <2>1
<1>7. /\ tree \in AllCells /\ tree.w = term[1] /\ tree.h = term[2]
      /\ AllPanes(tree) = AllPanes(c) /\ Every(tree, Settled)
  <2> DEFINE w == term[1]
             h == term[2]
  <2>1. w \in Nat /\ h \in Nat /\ tree = Fit(c, w, h)
    BY <1>3, <1>6
  <2> HIDE DEF w, h
  <2>2. /\ tree \in AllCells /\ tree.w = w /\ tree.h = h
        /\ AllPanes(tree) = AllPanes(c) /\ Every(tree, Settled)
    BY <1>4, <1>5, <2>1, FitSettles
  <2> QED
    BY <2>2 DEF w, h
<1>8. mru \in Seq(Nat) /\ NoRepeats(mru) /\ ToSet(mru) = {}
  BY <1>2 DEF NoRepeats, ToSet
<1> QED
  BY <1>1, <1>2, <1>4, <1>7, <1>8 DEF LayoutInv, Fitted, Numbered

\* resize_tree() fits the tree again, and fills it when the terminal has grown.
LEMMA ResizeKeeps ==
    ASSUME LayoutInv, Resize
    PROVE  /\ LayoutInv'
           /\ Every(tree, Filled) /\ term'[1] >= term[1] /\ term'[2] >= term[2]
                => Every(tree', Filled)
<1>1. PICK t \in Terminals : tree' = Fit(tree, t[1], t[2]) /\ term' = t
  BY DEF Resize
<1>2. nextPane' = nextPane /\ zoom' = zoom /\ mru' = mru
  BY DEF Resize
<1> DEFINE w == t[1]
           h == t[2]
<1>3. w \in Nat /\ h \in Nat /\ tree' = Fit(tree, w, h) /\ term'[1] = w /\ term'[2] = h
  <2>1. t \in Nat \X Nat
    BY <1>1, BoundsAssumption
  <2> QED
    BY <1>1, <2>1
<1>4. tree.w = term[1] /\ tree.h = term[2]
  BY DEF LayoutInv, Fitted
<1> HIDE DEF w, h
<1>5. /\ tree' \in AllCells /\ tree'.w = w /\ tree'.h = h
      /\ AllPanes(tree') = AllPanes(tree) /\ Every(tree', Settled)
  BY <1>3, TreeIs, FitSettles
<1>6. Every(tree, Filled) /\ term'[1] >= term[1] /\ term'[2] >= term[2] => Every(tree', Filled)
  BY <1>3, <1>4, TreeIs, FitFills
<1>7. Fitted'
  BY <1>1, <1>3, <1>5 DEF Fitted
<1>8. Numbered'
  BY <1>2, <1>5 DEF LayoutInv, Numbered
<1> QED
  BY <1>6, <1>7, <1>8 DEF LayoutInv

\* split() adds the minted pane and keeps sizes, floors and filling.
LEMMA SplitKeeps ==
    ASSUME LayoutInv, Split
    PROVE  LayoutInv' /\ (Every(tree, Filled) => Every(tree', Filled))
<1>1. PICK p \in Panes(tree), axis \in Axes :
         /\ CanSplit(tree, p, axis)
         /\ tree' = SplitIn(tree, p, axis, nextPane)
         /\ mru' = Touched(mru, nextPane)
  BY DEF Split
<1>2. nextPane < MaxPanes /\ nextPane' = nextPane + 1 /\ term' = term /\ zoom' = zoom
  BY DEF Split
<1> DEFINE new == nextPane
<1>3. /\ new \in Nat /\ new \notin AllPanes(tree) /\ p \in AllPanes(tree)
      /\ tree' = SplitIn(tree, p, axis, new) /\ mru' = Touched(mru, new)
  BY <1>1, TreeIs
<1> HIDE DEF new
<1>4. /\ tree' \in AllCells /\ tree'.w = tree.w /\ tree'.h = tree.h
      /\ AllPanes(tree') = AllPanes(tree) \cup {new} /\ Every(tree', Settled)
      /\ Every(tree, Filled) => Every(tree', Filled)
  BY <1>1, <1>3, TreeIs, SplitInIs
<1>5. mru' \in Seq(Nat) /\ NoRepeats(mru') /\ ToSet(mru') = ToSet(mru) \cup {new}
  BY <1>3, TouchedIs DEF LayoutInv, Numbered
<1>6. Fitted'
  BY <1>2, <1>4 DEF LayoutInv, Fitted
<1>7. Numbered'
  <2>1. /\ nextPane \in 1 .. MaxPanes /\ AllPanes(tree) \subseteq 0 .. nextPane - 1
        /\ ToSet(mru) \subseteq 0 .. nextPane - 1 /\ zoom \in AllPanes(tree) \cup {NoPane}
        /\ MaxPanes \in Nat
    BY BoundsAssumption DEF LayoutInv, Numbered
  <2>2. /\ nextPane' \in 1 .. MaxPanes /\ 0 .. nextPane - 1 \subseteq 0 .. nextPane' - 1
        /\ nextPane \in 0 .. nextPane' - 1
    BY <1>2, <2>1
  <2>3. zoom' \in AllPanes(tree') \cup {NoPane}
    BY <1>2, <1>4, <2>1
  <2> QED
    BY <1>4, <1>5, <2>1, <2>2, <2>3 DEF Numbered, new
<1> QED
  BY <1>4, <1>6, <1>7 DEF LayoutInv

\* close() takes one pane away and keeps sizes, floors and filling.
LEMMA CloseKeeps ==
    ASSUME LayoutInv, Close
    PROVE  LayoutInv' /\ (Every(tree, Filled) => Every(tree', Filled))
<1>1. PICK p \in Panes(tree) : tree' = CloseIn(tree, p) /\ zoom' = IF zoom = p THEN NoPane ELSE zoom
  BY DEF Close
<1>2. ~ IsLeaf(tree) /\ term' = term /\ nextPane' = nextPane /\ mru' = mru
  BY DEF Close
<1>3. p \in AllPanes(tree)
  BY TreeIs
<1>4. /\ tree' \in AllCells /\ tree'.w = tree.w /\ tree'.h = tree.h
      /\ AllPanes(tree') = AllPanes(tree) \ {p} /\ Every(tree', Settled)
      /\ Every(tree, Filled) => Every(tree', Filled)
  BY <1>1, <1>2, <1>3, TreeIs, CloseInIs
<1>5. Fitted'
  BY <1>2, <1>4 DEF LayoutInv, Fitted
<1>6. Numbered'
  BY <1>1, <1>2, <1>4 DEF LayoutInv, Numbered
<1> QED
  BY <1>4, <1>5, <1>6 DEF LayoutInv

\* toggle_zoom() leaves the tree alone.
LEMMA ToggleZoomKeeps ==
    ASSUME LayoutInv, ToggleZoom
    PROVE  LayoutInv' /\ (Every(tree, Filled) => Every(tree', Filled))
<1>1. PICK p \in Panes(tree) : zoom' = IF zoom = p THEN NoPane ELSE p
  BY DEF ToggleZoom
<1>2. tree' = tree /\ term' = term /\ nextPane' = nextPane /\ mru' = mru
  BY DEF ToggleZoom
<1>3. p \in AllPanes(tree)
  BY TreeIs
<1>4. Fitted'
  BY <1>2 DEF LayoutInv, Fitted
<1>5. Numbered'
  BY <1>1, <1>2, <1>3 DEF LayoutInv, Numbered
<1> QED
  BY <1>2, <1>4, <1>5 DEF LayoutInv

\* Focus moves to a pane of the tree.
LEMMA NavigateKeeps ==
    ASSUME LayoutInv, Navigate
    PROVE  LayoutInv' /\ (Every(tree, Filled) => Every(tree', Filled))
<1> DEFINE r == Rects(tree, zoom, term)
           to(dir) == Neighbour(r, mru, Last(mru), dir)
<1>1. PICK dir \in {"left", "right", "up", "down"} :
         to(dir) # NoPane /\ mru' = Touched(mru, to(dir))
  BY DEF Navigate
<1>2. /\ zoom = NoPane
      /\ tree' = tree /\ term' = term /\ nextPane' = nextPane /\ zoom' = zoom
  BY DEF Navigate
<1>3. mru \in Seq(Nat) /\ NoRepeats(mru) /\ ToSet(mru) \subseteq 0 .. nextPane - 1
  BY DEF LayoutInv, Numbered
<1>4. /\ DOMAIN r = 1 .. Len(r) /\ Len(r) \in Nat
      /\ \A i \in 1 .. Len(r) : r[i].pane \in AllPanes(tree)
  BY <1>2, TreeIs, RectsDrawn
<1> DEFINE p == Last(mru)
           q == to(dir)
<1>5. q \in AllPanes(tree)
  <2> HIDE DEF r, p
  <2>1. PICK l \in 1 .. Len(r) : r[l].pane = q
    BY <1>1, <1>3, <1>4, NeighbourDrawn DEF p
  <2> QED
    BY <1>4, <2>1
<1>6. q \in Nat /\ q \in 0 .. nextPane - 1
  BY <1>5, TreeIs DEF LayoutInv, Numbered
<1> HIDE DEF q
<1>7. mru' = Touched(mru, q)
  BY <1>1 DEF q
<1>8. mru' \in Seq(Nat) /\ NoRepeats(mru') /\ ToSet(mru') = ToSet(mru) \cup {q}
  BY <1>3, <1>6, <1>7, TouchedIs
<1>9. Fitted'
  BY <1>2 DEF LayoutInv, Fitted
<1>10. Numbered'
  BY <1>2, <1>3, <1>6, <1>8 DEF LayoutInv, Numbered
<1> QED
  BY <1>2, <1>9, <1>10 DEF LayoutInv

\* Every step keeps the invariant, and filling unless the terminal shrinks.
LEMMA LayoutStep ==
    ASSUME LayoutInv, [LayoutNext]_layoutVars
    PROVE  /\ LayoutInv'
           /\ Every(tree, Filled) /\ term'[1] >= term[1] /\ term'[2] >= term[2]
                => Every(tree', Filled)
<1>1. CASE Resize
  BY <1>1, ResizeKeeps
<1>2. CASE Split
  BY <1>2, SplitKeeps
<1>3. CASE Close
  BY <1>3, CloseKeeps
<1>4. CASE ToggleZoom
  BY <1>4, ToggleZoomKeeps
<1>5. CASE Navigate
  BY <1>5, NavigateKeeps
<1>6. CASE UNCHANGED layoutVars
  BY <1>6 DEF layoutVars, LayoutInv, Fitted, Numbered
<1> QED
  BY <1>1, <1>2, <1>3, <1>4, <1>5, <1>6 DEF LayoutNext

\* The invariant holds in every state.
THEOREM LayoutInvariant == LayoutSpec => []LayoutInv
<1>1. LayoutInit => LayoutInv
  BY LayoutInitInv
<1>2. LayoutInv /\ [LayoutNext]_layoutVars => LayoutInv'
  BY LayoutStep
<1> QED
  BY <1>1, <1>2, PTL DEF LayoutSpec

\* Exact, as the property says it, is that all splits are filled.
LEMMA ExactIs ==
    ASSUME NEW c \in Cells
    PROVE  Exact(c) <=> Every(c, Filled)
<1>1. Parts(c) = AllParts(c) /\ AllParts(c) \subseteq AllCells
  BY PartsIs, AllPartsAre, CellsAre
<1> QED
  BY <1>1 DEF Exact, Every, Filled, Splits

\* LayoutTypeOK: every variable keeps its shape, and the tree is one.
THEOREM LayoutTypeCorrect == LayoutSpec => []LayoutTypeOK
<1>1. LayoutInv => LayoutTypeOK
  <2> SUFFICES ASSUME LayoutInv PROVE LayoutTypeOK
    OBVIOUS
  <2>1. ASSUME NEW s \in Splits(tree)
        PROVE  /\ Len(s.kids) >= 2
               /\ \A i, j \in DOMAIN s.kids :
                     Panes(s.kids[i]) \cap Panes(s.kids[j]) # {} => i = j
    <3>1. s \in AllParts(tree) /\ ~ IsLeaf(s)
      BY TreeIs, PartsIs DEF Splits
    <3>2. s \in Cells /\ s \in Shaped
      BY <3>1, TreeIs, PartIs
    <3>3. \A i \in DOMAIN s.kids : Panes(s.kids[i]) = AllPanes(s.kids[i])
      BY <3>1, <3>2, CellsAre, PanesIs
    <3> QED
      BY <3>2, <3>3 DEF Shaped
  <2> QED
    BY <2>1, TreeIs DEF LayoutTypeOK, LayoutInv, Fitted, Numbered
<1> QED
  BY <1>1, LayoutInvariant, PTL

\* FilledStaysFilled: splits and closes at any depth, and a terminal that only
\* grows, keep every split of the tree filled.
THEOREM FilledAlwaysStaysFilled == LayoutSpec => FilledStaysFilled
<1>1. LayoutInv /\ LayoutInv' /\ [LayoutNext]_layoutVars
        => [Exact(tree) /\ term'[1] >= term[1] /\ term'[2] >= term[2] => Exact(tree')]_layoutVars
  <2> SUFFICES ASSUME LayoutInv, LayoutInv', [LayoutNext]_layoutVars,
                      Exact(tree), term'[1] >= term[1], term'[2] >= term[2]
               PROVE  Exact(tree')
    OBVIOUS
  <2>1. tree \in Cells
    BY TreeIs
  <2>2. tree' \in Cells
    <3>1. tree' \in AllCells /\ Every(tree', Settled)
      BY DEF LayoutInv, Fitted
    <3>2. AllPanes(tree') \subseteq 0 .. MaxPanes
      <4>1. /\ nextPane' \in 1 .. MaxPanes /\ AllPanes(tree') \subseteq 0 .. nextPane' - 1
            /\ MaxPanes \in Nat
        BY BoundsAssumption DEF LayoutInv, Numbered
      <4> QED
        BY <4>1
    <3> QED
      BY <3>1, <3>2, PartIs, AllPartsAre
  <2>3. Every(tree, Filled)
    BY <2>1, ExactIs
  <2>4. Every(tree', Filled)
    BY <2>3, LayoutStep
  <2> QED
    BY <2>2, <2>4, ExactIs
<1> QED
  BY <1>1, LayoutInvariant, PTL DEF LayoutSpec, FilledStaysFilled

\* PanesTile: the panes of a filled tree are drawn whole, each once, and never on
\* top of each other.
THEOREM PanesAlwaysTile == LayoutSpec => []PanesTile
<1>1. LayoutInv => PanesTile
  <2> SUFFICES ASSUME LayoutInv, Exact(tree), term[1] > 0, term[2] > 0
               PROVE  LET rects == Rects(tree, NoPane, term) IN
                      /\ rects = Walk(tree, 0, 0)
                      /\ {b.pane : b \in ToSet(rects)} = Panes(tree)
                      /\ \A i, j \in DOMAIN rects :
                            i # j => rects[i].pane # rects[j].pane /\ ~ Overlaps(rects[i], rects[j])
    BY DEF PanesTile
  <2> DEFINE r == Walk(tree, 0, 0)
  <2>1. Every(tree, Filled)
    BY TreeIs, ExactIs
  <2>2. tree.w = term[1] /\ tree.h = term[2]
    BY DEF LayoutInv, Fitted
  <2>3. /\ Rects(tree, NoPane, term) = r /\ r \in Seq(Placed)
        /\ \A i \in 1 .. Len(r) : r[i].pane \in AllPanes(tree)
        /\ \A p \in AllPanes(tree) : \E i \in 1 .. Len(r) : r[i].pane = p
        /\ \A i, j \in 1 .. Len(r) : i # j => r[i].pane # r[j].pane /\ ~ Overlaps(r[i], r[j])
    BY <2>1, <2>2, TreeIs, RectsAre
  <2> HIDE DEF r
  <2>4. DOMAIN r = 1 .. Len(r)
    BY <2>3
  <2>5. {b.pane : b \in ToSet(r)} = AllPanes(tree)
    BY <2>3, <2>4 DEF ToSet
  <2> QED
    BY <2>3, <2>4, <2>5, TreeIs DEF r
<1> QED
  BY <1>1, LayoutInvariant, PTL

\* WaysBack: closing the pane a split has just made restores the tree, and the step
\* back from a neighbour returns to the pane stepped from.
THEOREM AlwaysWaysBack == LayoutSpec => []WaysBack
<1>1. LayoutInv => CloseUndoesSplit
  <2> SUFFICES ASSUME LayoutInv, NEW p \in Panes(tree), NEW axis \in Axes,
                      CanSplit(tree, p, axis)
               PROVE  CloseIn(SplitIn(tree, p, axis, nextPane), nextPane) = tree
    BY DEF CloseUndoesSplit
  <2> DEFINE new == nextPane
  <2>1. new \in Nat /\ new \notin AllPanes(tree) /\ new <= MaxPanes /\ p \in AllPanes(tree)
    BY TreeIs
  <2> HIDE DEF new
  <2>2. CloseIn(SplitIn(tree, p, axis, new), new) = tree
    BY <2>1, TreeIs, SplitBack
  <2> QED
    BY <2>2 DEF new
<1>2. LayoutInv => StepBackReturns
  <2> DEFINE r == Rects(tree, NoPane, term)
             p == Last(mru)
             to(dir) == Neighbour(r, mru, p, dir)
  <2> SUFFICES ASSUME LayoutInv, Exact(tree), mru # <<>>, NEW dir \in DOMAIN Opposite,
                      to(dir) # NoPane
               PROVE  Neighbour(r, Touched(mru, to(dir)), to(dir), Opposite[dir]) = p
    BY DEF StepBackReturns
  <2>1. mru \in Seq(Nat) /\ NoRepeats(mru) /\ Len(mru) > 0 /\ p = mru[Len(mru)]
    <3>1. mru \in Seq(Nat) /\ NoRepeats(mru)
      BY DEF LayoutInv, Numbered
    <3> QED
      BY <3>1 DEF Last
  <2>2. dir \in Dirs
    BY DEF Opposite, Dirs
  <2>3. term[1] > 0 /\ term[2] > 0
    <3>1. term \in Nat \X Nat
      BY TreeIs
    <3>2. ASSUME term[1] = 0 \/ term[2] = 0 PROVE FALSE
      <4>1. ToSet(r) = {}
        BY <3>1, <3>2, TreeIs, NothingDrawn
      <4> HIDE DEF r, p
      <4>2. to(dir) = NoPane
        BY <4>1 DEF Neighbour
      <4> QED
        BY <4>2
    <3> QED
      BY <3>1, <3>2
  <2>4. Distinct(r)
    <3>1. Every(tree, Filled)
      BY TreeIs, ExactIs
    <3>2. tree.w = term[1] /\ tree.h = term[2]
      BY DEF LayoutInv, Fitted
    <3> DEFINE w == Walk(tree, 0, 0)
    <3>3. /\ r = w /\ w \in Seq(Placed)
          /\ \A i, j \in 1 .. Len(w) : i # j => w[i].pane # w[j].pane /\ ~ Overlaps(w[i], w[j])
      BY <2>3, <3>1, <3>2, TreeIs, RectsAre
    <3> HIDE DEF w, r
    <3> QED
      BY <3>3 DEF Distinct
  <2> DEFINE q == to(dir)
  <2>5. q = Neighbour(r, mru, p, dir) /\ q # NoPane
    OBVIOUS
  <2> HIDE DEF r, p, q
  <2>6. Neighbour(r, Touched(mru, q), q, Opposite[dir]) = p
    BY <2>1, <2>2, <2>4, <2>5, StepBack
  <2> QED
    BY <2>6 DEF q
<1>3. LayoutInv => WaysBack
  BY <1>1, <1>2 DEF WaysBack
<1> QED
  BY <1>3, LayoutInvariant, PTL
=============================================================================
