--------------------------- MODULE KeyDispatcher ---------------------------
(***************************************************************************)
(* The prefix-table key dispatcher (keys.rs) behind its two front ends:    *)
(* the cockpit's loop (route_app_key and the key arm of run_cockpit) and   *)
(* the cowork loop (route_key and the key arm of run_cowork).              *)
(*                                                                         *)
(* A key is a normalized combination, or one the dispatcher has no word    *)
(* for (Delete, Insert, BackTab).  A binding is the class of its action:   *)
(* the literal prefix, a move (focus and resize, which repeat), or a plain *)
(* action.  Time is what is left of the repeat window, since that is all   *)
(* on_key compares.                                                        *)
(***************************************************************************)
EXTENDS Integers

CONSTANTS
    Frontend,       \* "cockpit" or "cowork"
    PlainKeys,      \* keys the default Prefix table binds to plain actions
    ArrowKeys,      \* keys it binds to moves
    OtherKeys,      \* keys nothing is bound to
    Wordless,       \* keys to_key_combo maps to None
    DefaultPrefix, QuitKey, SwapKey,
    ConfigKeys,     \* the keys a configuration rebinds, or makes the prefix
    RepeatTimeout   \* length of the repeat window in clock ticks

Combos == PlainKeys \cup ArrowKeys \cup OtherKeys
            \cup {DefaultPrefix, QuitKey, SwapKey}
Keys == Combos \cup Wordless

ASSUME KeysAssumption ==
    /\ Frontend \in {"cockpit", "cowork"}
    /\ ConfigKeys \subseteq Combos
    /\ Wordless \cap Combos = {}
    /\ "none" \notin Keys /\ QuitKey # SwapKey
    /\ RepeatTimeout \in Nat

VARIABLES
    root,        \* the Root table: key -> action
    prefixed,    \* the Prefix table: key -> action
    prefix,      \* the prefix combination
    current,     \* the table in force
    repeating,
    left,        \* repeat_deadline - now; below 0 the window has closed
    key,         \* the key of this step, or "none"
    out          \* where that key went, or "none"

vars == <<root, prefixed, prefix, current, repeating, left, key, out>>
tables == <<root, prefixed, prefix>>

Actions == {"send-prefix", "move", "plain"}
Repeats(action) == action = "move"
Closed == -1

DefaultPrefixTable(p) ==
    [k \in PlainKeys \cup ArrowKeys \cup {p} |->
        IF k = p THEN "send-prefix" ELSE IF k \in ArrowKeys THEN "move"
        ELSE "plain"]

With(f, x, v) == [y \in DOMAIN f \cup {x} |-> IF y = x THEN v ELSE f[y]]
Without(f, x) == [y \in DOMAIN f \ {x} |-> f[y]]

Init ==
    /\ root = [k \in {} |-> "plain"]
    /\ prefixed = DefaultPrefixTable(DefaultPrefix)
    /\ prefix = DefaultPrefix
    /\ current = "root"
    /\ repeating = FALSE
    /\ left = Closed
    /\ key = "none" /\ out = "none"

-----------------------------------------------------------------------------
(* on_key: each operator below is one outcome for key k.                   *)

Reset == current' = "root" /\ repeating' = FALSE /\ left' = Closed

Goes(where) == out' = where

\* on_root_key: the prefix is compared before any table.
RootKey(k) ==
    \/ /\ k = prefix
       /\ current' = "prefix" /\ repeating' = FALSE /\ left' = Closed
       /\ Goes("pending")
    \/ k # prefix /\ k \in DOMAIN root /\ Reset /\ Goes(root[k])
    \/ k # prefix /\ k \notin DOMAIN root /\ Reset /\ Goes("forward")

OpenWindow ==
    current' = "prefix" /\ repeating' = TRUE /\ left' = RepeatTimeout

\* Slip: the deadline is not looked at.
RepeatKeyTimeless(k) ==
    LET again == k \in DOMAIN prefixed /\ Repeats(prefixed[k])
    IN \/ again /\ OpenWindow /\ Goes(prefixed[k])
       \/ ~again /\ RootKey(k)

\* A key inside the repeat window, or the first after it closed.
RepeatKey(k) ==
    LET again == left >= 0 /\ k \in DOMAIN prefixed /\ Repeats(prefixed[k])
    IN \/ again /\ OpenWindow /\ Goes(prefixed[k])
       \/ ~again /\ RootKey(k)

\* Slip: a miss after the fallback is handed on.
MissForwards(k) == Reset /\ Goes("forward")

\* A miss after the fallback to Root reaches nothing.
Miss(k) == Reset /\ Goes("swallow")

\* The key after the prefix.
PrefixKey(k) ==
    \/ /\ k \in DOMAIN prefixed /\ Repeats(prefixed[k])
       /\ OpenWindow /\ Goes(prefixed[k])
    \/ /\ k \in DOMAIN prefixed /\ ~Repeats(prefixed[k])
       /\ Reset /\ Goes(prefixed[k])
    \/ k \notin DOMAIN prefixed /\ k \in DOMAIN root /\ Reset /\ Goes(root[k])
    \/ k \notin DOMAIN prefixed /\ k \notin DOMAIN root /\ Miss(k)

OnKey(k) ==
    CASE current = "root" -> RootKey(k)
      [] current = "prefix" /\ repeating -> RepeatKey(k)
      [] current = "prefix" /\ ~repeating -> PrefixKey(k)

Armed == current = "prefix"
Dispatcher == <<current, repeating, left>>

-----------------------------------------------------------------------------
(* The front ends.                                                         *)

\* route_app_key and the key arm of run_cockpit.
CockpitKey(k) ==
    \/ k = QuitKey /\ ~Armed /\ Goes("quit") /\ UNCHANGED Dispatcher
    \/ k \in Combos /\ ~(k = QuitKey /\ ~Armed) /\ OnKey(k)
    \/ k \in Wordless /\ Armed /\ Reset /\ Goes("swallow")
    \/ k \in Wordless /\ ~Armed /\ Goes("forward") /\ UNCHANGED Dispatcher

\* route_key and the key arm of run_cowork: a wordless key takes the forward
\* path and leaves an armed prefix as it is.
CoworkKey(k) ==
    \/ k = QuitKey /\ ~Armed /\ Goes("quit") /\ UNCHANGED Dispatcher
    \/ k = SwapKey /\ ~Armed /\ Goes("swap") /\ UNCHANGED Dispatcher
    \/ k \in Combos /\ ~(k \in {QuitKey, SwapKey} /\ ~Armed) /\ OnKey(k)
    \/ k \in Wordless /\ Goes("forward") /\ UNCHANGED Dispatcher

Press ==
    /\ \E k \in Keys :
          /\ key' = k
          /\ IF Frontend = "cockpit" THEN CockpitKey(k) ELSE CoworkKey(k)
    /\ UNCHANGED tables

Quiet == key' = "none" /\ out' = "none"

\* A clock tick while a repeat window is open.
Wait ==
    /\ left >= 0
    /\ left' = left - 1
    /\ Quiet
    /\ UNCHANGED <<tables, current, repeating>>

-----------------------------------------------------------------------------
(* Configuration.  The prefix key's own binding is not rebound.            *)

\* Slip: the new prefix gets no binding of its own.
SetPrefixUnbound(p) ==
    /\ prefixed' = Without(prefixed, prefix)
    /\ prefix' = p

\* The literal-prefix binding moves to the new prefix, over whatever was
\* bound there.
SetPrefix(p) ==
    /\ prefixed' = With(Without(prefixed, prefix), p, "send-prefix")
    /\ prefix' = p

Bind(k, action) ==
    \/ root' = With(root, k, action) /\ UNCHANGED <<prefixed, prefix>>
    \/ prefixed' = With(prefixed, k, action) /\ UNCHANGED <<root, prefix>>

Unbind(k) ==
    \/ root' = Without(root, k) /\ UNCHANGED <<prefixed, prefix>>
    \/ prefixed' = Without(prefixed, k) /\ UNCHANGED <<root, prefix>>

Configure ==
    /\ \/ \E p \in ConfigKeys : SetPrefix(p) /\ UNCHANGED root
       \/ \E k \in ConfigKeys \ {prefix}, a \in Actions : Bind(k, a)
       \/ \E k \in ConfigKeys \ {prefix} : Unbind(k)
    /\ Quiet
    /\ UNCHANGED Dispatcher

Next == Press \/ Wait \/ Configure

Spec == Init /\ [][Next]_vars

-----------------------------------------------------------------------------
(* Properties.                                                             *)

Fresh == current = "prefix" /\ ~repeating

\* Every variable keeps its shape; a repeat window is open only while the
\* Prefix table is in force.
TypeOK ==
    /\ DOMAIN root \subseteq Combos /\ DOMAIN prefixed \subseteq Combos
    /\ \A k \in DOMAIN root : root[k] \in Actions
    /\ \A k \in DOMAIN prefixed : prefixed[k] \in Actions
    /\ prefix \in Combos
    /\ current \in {"root", "prefix"}
    /\ left \in Closed .. RepeatTimeout
    /\ repeating \in BOOLEAN /\ (repeating => current = "prefix")
    /\ (left >= 0 => repeating)
    /\ key \in Keys \cup {"none"}
    /\ out \in Actions \cup {"none", "pending", "forward", "swallow", "quit", "swap"}

\* "The single most important safety rule": the key after a bare prefix is
\* never handed to the pane, be it a typo, a key with no combination, or a
\* key the configuration moved.
PostPrefixKeyIsHeld == [][Fresh => out' # "forward"]_vars

\* A sequence ends with its key: whatever follows the prefix, only a move
\* leaves the Prefix table in force, so no later keystroke is taken for a
\* command.
SequenceEnds ==
    [][Fresh /\ key' # "none" =>
         current' = "root" \/ (repeating' /\ out' = "move")]_vars

\* A move that nobody asked for does not happen: with the window closed an
\* arrow is an ordinary key again, unless the Root table binds it.
NoMoveAfterTheWindow ==
    [][repeating /\ left < 0 /\ out' = "move" => key' \in DOMAIN root]_vars

\* However the prefix was moved, pressing it twice types it: its own binding
\* follows it.
LiteralPrefixReachable ==
    prefix \in DOMAIN prefixed /\ prefixed[prefix] = "send-prefix"

\* The way out cannot be configured away or armed away: a Ctrl+Q that does
\* not quit leaves the Root table in force, so that the next one does, unless
\* the configuration made Ctrl+Q a move or the prefix.
SecondQuitLeaves ==
    [][(/\ key' = QuitKey /\ QuitKey # prefix
        /\ (QuitKey \in DOMAIN prefixed => ~Repeats(prefixed[QuitKey])))
       => current' = "root" /\ (current = "root" => out' = "quit")]_vars
=============================================================================
