------------------------------ MODULE KeyNames ------------------------------
(***************************************************************************)
(* What a key is called and what it sends: the key strings of the          *)
(* bindings (parse_key_string), the events of the terminal as combinations *)
(* (to_key_combo), the way back that delivers the literal prefix           *)
(* (prefix_bytes in the cowork loop, combo_to_crossterm in the cockpit)    *)
(* and the bytes of a key (encode_key).                                    *)
(*                                                                         *)
(* A key string is a sequence of characters in which a key's name is one   *)
(* member.  A combination and an event are [code, mods].  The bytes of a   *)
(* key are a pair that tells them apart.                                   *)
(***************************************************************************)
EXTENDS Naturals, Sequences

CONSTANTS
    Lower, Upper,  \* letters; Upper[c] is the other case of c in Lower
    Punctuation,   \* other characters ctrl has a byte for, "-" not among them
    NoByte,         \* characters it has none for, "-" among them
    Named,         \* the names of keys that are no characters
    Function,      \* F1 .. F12
    Misnamed,      \* words that name no key
    Extra          \* events no combination stands for

\* What is upper case is not lower case.
ASSUME CasesAssumption == \A c \in Lower : Upper[c] \notin Lower

VARIABLES
    text,       \* the key string the prefix was set from
    combo,      \* its combination, or NoKey
    event,      \* the key event pressed twice
    literal     \* what the second press delivers, by front end

namesVars == <<text, combo, event, literal>>

Letters == Lower \cup {Upper[c] : c \in Lower}
Chars == Letters \cup Punctuation \cup NoByte
Modifiers == {"C", "M", "S"}
NoKey == [code |-> "none", mods |-> {}]
Nothing == <<"none", "none">>

FoldCase(c) == IF c \in Lower THEN Upper[c] ELSE c
LowerCase(c) == IF \E l \in Lower : Upper[l] = c
                THEN CHOOSE l \in Lower : Upper[l] = c ELSE c

\* KeyCombo::normalized.
Normalized(key) ==
    IF key.code \in Chars
    THEN [code |-> IF "C" \in key.mods THEN LowerCase(key.code) ELSE key.code,
          mods |-> key.mods \ {"S"}]
    ELSE key

\* The modifiers stack in front: as many pairs of a modifier and a dash as
\* there are, whatever follows them.
Pairs(s) ==
    CHOOSE n \in 0 .. Len(s) \div 2 :
        /\ \A i \in 1 .. n : s[2 * i - 1] \in Modifiers /\ s[2 * i] = "-"
        /\ \/ 2 * n + 2 > Len(s)
           \/ ~(s[2 * n + 1] \in Modifiers /\ s[2 * n + 2] = "-")

\* parse_key_string; NoKey stands for the error.
Parse(s) ==
    LET n    == Pairs(s)
        rest == SubSeq(s, 2 * n + 1, Len(s))
        mods == {s[2 * i - 1] : i \in 1 .. n}
    IN IF Len(rest) = 1 /\ rest[1] \in Chars \cup Named \cup Function
       THEN Normalized([code |-> rest[1], mods |-> mods])
       ELSE NoKey

\* to_key_combo: the event as a combination, NoKey for None.
ToKeyCombo(key) == IF key.code \in Extra THEN NoKey ELSE Normalized(key)

\* Slip: ctrl is looked up by the letter as it comes.
EncodeByCase(key) ==
    IF key.code \in Chars
    THEN IF "C" \notin key.mods THEN <<"char", key.code>>
         ELSE IF key.code \in {Upper[c] : c \in Lower} \cup Punctuation
         THEN <<"control", key.code>> ELSE Nothing
    ELSE IF key.code \in Function THEN Nothing ELSE <<"sequence", key.code>>

\* encode_key: alt and shift are not sent.
Encode(key) ==
    IF key.code \in Chars
    THEN IF "C" \notin key.mods THEN <<"char", key.code>>
         ELSE IF key.code \in Letters \cup Punctuation
         THEN <<"control", FoldCase(key.code)>> ELSE Nothing
    ELSE IF key.code \in Function THEN Nothing ELSE <<"sequence", key.code>>

\* prefix_bytes: only characters and four keys have a way back, without shift.
FourKeys == {"Enter", "Tab", "BSpace", "Escape"}
PrefixBytes(key) ==
    IF key.code \in Chars \cup FourKeys
    THEN Encode([key EXCEPT !.mods = @ \ {"S"}]) ELSE Nothing

\* combo_to_crossterm and the shell pane's encode_key: every combination has.
ComboToCrossterm(key) == Encode(key)

-----------------------------------------------------------------------------
Words == Chars \cup Named \cup Function \cup Misnamed
Texts ==
    {<<w>> : w \in Words} \cup {<<m, "-">> : m \in Modifiers}
        \cup {<<m, "-", w>> : m \in Modifiers \cup {"x"}, w \in Words}
        \cup {<<m, "-", o, "-", w>> : m, o \in Modifiers, w \in Words}
Events == [code : Chars \cup Named \cup Function \cup Extra, mods : SUBSET Modifiers]

NamesInit ==
    /\ text = <<>> /\ combo = NoKey
    /\ event = NoKey /\ literal = [cowork |-> Nothing, cockpit |-> Nothing]

\* set_prefix from a key string, refused when it names no key.
SetPrefixFrom ==
    /\ combo = NoKey
    /\ \E s \in Texts : text' = s /\ combo' = Parse(s)
    /\ UNCHANGED <<event, literal>>

\* A key that is the prefix is pressed and pressed again (send-prefix).
PressTwice ==
    /\ combo # NoKey
    /\ \E key \in Events :
          /\ ToKeyCombo(key) = combo
          /\ event' = key
    /\ literal' = [cowork |-> PrefixBytes(combo), cockpit |-> ComboToCrossterm(combo)]
    /\ UNCHANGED <<text, combo>>

NamesNext == SetPrefixFrom \/ PressTwice

NamesSpec == NamesInit /\ [][NamesNext]_namesVars

-----------------------------------------------------------------------------
(* Properties.                                                             *)

\* prefix_bytes: "the emitted byte is exactly what the same physical key would
\* produce".  Whatever the terminal called the key (either case, shifted or
\* not), what the cockpit delivers is what that key press would have sent, and
\* so is what the cowork loop delivers, when it delivers anything.
LiteralIsTheKey ==
    event # NoKey =>
        /\ literal.cockpit = Encode(event)
        /\ literal.cowork \in {Encode(event), Nothing}

=============================================================================
