------------------------------ MODULE Display -------------------------------
(***************************************************************************)
(* sanitizeDisplay, one step for each turn of its loop.  A text is a       *)
(* sequence of bytes, of which one stands for its kind: "ESC", "BEL" for   *)
(* the control characters, "\n" for the ends of lines, "a" for letters,    *)
(* "1" for digits, "]" for the openers of long escape sequences, and "C2", *)
(* "C3", "80" for the bytes of longer characters.                          *)
(***************************************************************************)
EXTENDS Naturals, Sequences

CONSTANTS
    Shown,  \* bound: the texts to display
    Limits  \* bound: the limits on their length; 0 is none

Bytes == {"a", "1", " ", "\n", "BEL", "ESC", "[", "]", "\\", "C2", "C3", "80"}

\* Bytes from 0x40 to 0x7e end a short escape sequence.
Final == {"a", "[", "]", "\\"}

\* Two-byte characters: "C3","80" is a letter, "C2","80" a control character.
\* A byte that belongs to no character reads as U+FFFD.
Letter == "U+00C0"
Control == "U+0080"
Unreadable == "U+FFFD"
Ignored == {"BEL", Control}
IsControl == Ignored \cup {"ESC", "\n"}
Visible == {"a", "1", " ", "[", "]", "\\", Letter, Unreadable}
Mark == "..."

ASSUME DisplayAssumption == Shown \subseteq Seq(Bytes) /\ Limits \subseteq Nat

VARIABLE display
(***************************************************************************)
(* display.index         the next byte                                     *)
(* display.out           what has been written                             *)
(* display.lastWasSpace  an end of line would add nothing                  *)
(* display.truncated     the limit was reached                             *)
(***************************************************************************)
DisplayInit ==
    \E text \in Shown, limit \in Limits :
        display = [pc |-> "loop", text |-> text, limit |-> limit, index |-> 1, out |-> <<>>,
                   lastWasSpace |-> FALSE, truncated |-> FALSE]

First(positions, default) ==
    IF positions = {} THEN default ELSE CHOOSE p \in positions : \A q \in positions : p <= q

\* Where the escape sequence that begins at i ends: the search goes on to a
\* byte that ends it, or an ESC that the "\\" which ends it comes after.
AnsiSequenceEnd(text, i) ==
    LET n == Len(text)
        stops == {j \in (i + 2)..n :
                    IF text[i + 1] = "[" THEN text[j] \in Final
                    ELSE \/ text[j] = "BEL"
                         \/ text[j] = "ESC" /\ j < n /\ text[j + 1] = "\\"}
        stop == First(stops, n)
    IN  IF i = n THEN n
        ELSE IF text[i + 1] \notin {"[", "]"} THEN i + 1
        ELSE IF stop < n /\ text[stop] = "ESC" THEN stop + 1 ELSE stop

Paired(text, i) == i < Len(text) /\ text[i] \in {"C2", "C3"} /\ text[i + 1] = "80"

RuneAt(text, i) ==
    CASE Paired(text, i) -> IF text[i] = "C3" THEN Letter ELSE Control
      [] text[i] \in {"C2", "C3", "80"} /\ ~ Paired(text, i) -> Unreadable
      [] OTHER -> text[i]

RuneSize(text, i) == IF Paired(text, i) THEN 2 ELSE 1

Looping == display.pc = "loop" /\ display.index <= Len(display.text)
Rune == RuneAt(display.text, display.index)
NextIndex == display.index + RuneSize(display.text, display.index)

\* Mutants: only the ESC is stepped over, or not even that at the end.
AfterEscape(text, i) == i + 1
AfterEscapeStuck(text, i) == IF i = Len(text) THEN i ELSE AnsiSequenceEnd(text, i) + 1

AfterSequence(text, i) == AnsiSequenceEnd(text, i) + 1

SkipSequence ==
    /\ Looping /\ Rune = "ESC"
    /\ display' = [display EXCEPT !.index = AfterSequence(display.text, @)]

\* Mutant: the character that reaches the limit is not taken for the last.
ReachesLimitLate(emitted) == display.limit > 0 /\ emitted > display.limit

ReachesLimit(emitted) == display.limit > 0 /\ emitted >= display.limit

Write(rune, space) ==
    LET cut == ReachesLimit(Len(display.out) + 1)
    IN  display' = [display EXCEPT
            !.out = Append(@, rune), !.lastWasSpace = space, !.truncated = cut,
            !.pc = IF cut THEN "end" ELSE "loop", !.index = IF cut THEN @ ELSE NextIndex]

Skip == display' = [display EXCEPT !.index = NextIndex]

EndLine ==
    /\ Looping /\ Rune = "\n"
    /\ IF display.lastWasSpace THEN Skip ELSE Write(" ", TRUE)

WriteRune == Looping /\ Rune \notin IsControl /\ Write(Rune, Rune = " ")

SkipControl == Looping /\ Rune \in Ignored /\ Skip

FinishDisplay ==
    /\ display.pc # "done" /\ ~ Looping
    /\ display' = [display EXCEPT !.pc = "done",
                                  !.out = IF display.truncated THEN Append(@, Mark) ELSE @]

DisplayNext == SkipSequence \/ EndLine \/ WriteRune \/ SkipControl \/ FinishDisplay

DisplaySpec == DisplayInit /\ [][DisplayNext]_display /\ WF_display(DisplayNext)

(***************************************************************************)
(* Properties                                                              *)
(***************************************************************************)
Displayed == display.pc = "done"

\* An escape sequence is an ESC and one more byte, or goes on to the first of its
\* own ends, or, having none, to the end of the text.
SequenceEnd(text, i) ==
    LET n == Len(text)
        ends == {j \in (i + 1)..n :
                    CASE text[i + 1] = "[" -> j > i + 1 /\ text[j] \in Final
                      [] text[i + 1] = "]" ->
                            \/ text[j] = "BEL"
                            \/ j > i + 2 /\ <<text[j - 1], text[j]>> = <<"ESC", "\\">>
                      [] OTHER -> TRUE}
    IN  First(ends, n)

\* What remains of a text when its escape sequences, which begin at an ESC and
\* go on to their ends, and its control characters are taken away.
Remainder(text) ==
    LET rest[i \in 1..(Len(text) + 2)] ==
            CASE i > Len(text) -> <<>>
              [] i <= Len(text) /\ text[i] = "ESC" -> rest[SequenceEnd(text, i) + 1]
              [] OTHER -> (IF RuneAt(text, i) \in Ignored THEN <<>> ELSE <<RuneAt(text, i)>>)
                          \o rest[i + RuneSize(text, i)]
    IN  rest[1]

\* Ends of lines become a space, unless they come after one or after another.
Folded(runes) ==
    LET Kept(k) == ~ (k > 1 /\ runes[k] = "\n" /\ runes[k - 1] \in {" ", "\n"})
        fold[k \in 0..Len(runes)] ==
            IF k = 0 THEN <<>>
            ELSE fold[k - 1] \o (IF ~ Kept(k) THEN <<>>
                                 ELSE IF runes[k] = "\n" THEN <<" ">> ELSE <<runes[k]>>)
    IN  fold[Len(runes)]

\* What is displayed is the visible part of the text, with lines joined, or as
\* much of it as the limit allows and then a mark.
DisplayIsExact ==
    Displayed =>
        LET whole == Folded(Remainder(display.text))
            limit == display.limit
        IN  display.out = IF limit > 0 /\ Len(whole) >= limit
                          THEN Append(SubSeq(whole, 1, limit), Mark) ELSE whole

\* A text of visible characters that is shorter than the limit is displayed as
\* it is: names that the driver shows and is given back are the names it read.
PlainTextSurvives ==
    LET text == display.text IN
    Displayed /\ (\A k \in DOMAIN text : text[k] \in Visible)
              /\ (display.limit = 0 \/ Len(text) < display.limit)
        => display.out = text

\* Nothing of an escape sequence, whole or cut, or of a control character gets
\* through, and never more than the limit and its mark.
DisplayIsPlain ==
    /\ \A k \in DOMAIN display.out :
          \/ display.out[k] \in Visible
          \/ display.out[k] = Mark /\ k = Len(display.out) /\ Displayed
    /\ display.limit > 0 => Len(display.out) <= display.limit + (IF Displayed THEN 1 ELSE 0)

\* What the other modules assume of displayed texts (Texts!DisplayAssumption).
DisplayKeepsItsPromise == DisplayIsPlain /\ PlainTextSurvives

\* Every text is displayed in the end: each turn of the loop goes on in the text.
DisplayEnds == <>Displayed
=============================================================================
