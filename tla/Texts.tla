------------------------------- MODULE Texts -------------------------------
(***************************************************************************)
(* The strings the driver handles, as members of a small set.  A string    *)
(* matters to the driver only through the tests and conversions named      *)
(* here; each is a set or a function that an instance gives explicitly.    *)
(***************************************************************************)
EXTENDS Naturals, Sequences, FiniteSets

CONSTANTS
    Texts,          \* every name, type, default and attribute text in play
    Trimmed,        \* strings.TrimSpace
    Folded,         \* the representative of a text under strings.EqualFold
    Displayed,      \* sanitizeDisplay: what a caller sees of a catalog text
    ControlTexts,   \* texts with a control character in them
    SemicolonTexts, \* texts with a semicolon in them
    TypeTexts,      \* texts of letters, digits, spaces and _(),' only
    LiteralTexts,   \* NULL, CURRENT_DATE / _TIME / _TIMESTAMP and numbers
    PkeyTexts,      \* texts that end in "_pkey"
    Nil             \* Go's nil, where a *string may be absent

Blank  == ""
Public == "public"

ASSUME TextsAssumption ==
    /\ {Blank, Public, "NULL"} \subseteq Texts
    /\ Nil \notin Texts
    /\ Trimmed \in [Texts -> Texts]
    /\ Folded \in [Texts -> Texts]
    /\ Displayed \in [Texts -> Texts]
    /\ ControlTexts \subseteq Texts
    /\ SemicolonTexts \subseteq Texts
    /\ TypeTexts \subseteq Texts
    /\ LiteralTexts \subseteq Texts
    /\ PkeyTexts \subseteq Texts

\* What sanitizeDisplay promises, and all that is used of it here: a displayed
\* text has no control characters, and a text without them is left alone.
ASSUME DisplayAssumption ==
    /\ \A t \in Texts : Displayed[t] \notin ControlTexts
    /\ \A t \in Texts \ ControlTexts : Displayed[t] = t
    /\ Displayed[Blank] = Blank

IsBlank(t) == Trimmed[t] = Blank

EqualFold(s, t) == Folded[s] = Folded[t]

(***************************************************************************)
(* A caller names a table with one text.  It is written here as the parts  *)
(* that its first dot separates: <<"t">> is "t", <<"s", "t">> is "s.t".    *)
(***************************************************************************)
TableText == (Texts \X Texts) \cup {<<t>> : t \in Texts}

\* postgresTableParts: the schema and the name, "public" without a dot.
TableParts(text) == IF Len(text) = 2 THEN text ELSE <<Public, text[1]>>

Distinct(seq) == \A i, j \in DOMAIN seq : seq[i] = seq[j] => i = j
=============================================================================
