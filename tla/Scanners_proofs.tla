-------------------------- MODULE Scanners_proofs ---------------------------
(***************************************************************************)
(* The three loops over a text, for every text.                            *)
(*                                                                         *)
(* Display.  Nothing of an escape sequence or a control character gets     *)
(* through and a short text without any is displayed as it is              *)
(* (DisplayPromiseKept); what is written is what the text says, folded and *)
(* cut at the limit (DisplaysExactly).                                     *)
(* Statements.  A text is refused when it has several statements, and one  *)
(* statement is not refused for its quotes or comments                     *)
(* (OneStatementGetsThrough).                                              *)
(* Defaults.  What is written of a default means the text that was asked   *)
(* for (DefaultsMean).                                                     *)
(***************************************************************************)
EXTENDS Display, StatementScanner, Defaults, Recursion, SequenceTheorems, FiniteSetTheorems

DisplayType ==
    [pc : {"loop", "end", "done"}, text : Seq(Bytes), limit : Nat, index : Nat \ {0},
     out : Seq(Visible \cup {Mark}), lastWasSpace : BOOLEAN, truncated : BOOLEAN]

\* The mark is only written at the end, and the limit ends the loop.
OutIsPlain ==
    /\ display.pc # "done" => display.out \in Seq(Visible)
    /\ display.pc = "loop" => ~ display.truncated
    /\ display.limit > 0 =>
          CASE display.pc = "loop" -> Len(display.out) < display.limit
            [] display.pc = "end" -> Len(display.out) <= display.limit
            [] OTHER -> Len(display.out) <= display.limit + 1

Plain(text) == \A k \in DOMAIN text : text[k] \in Visible

Short == display.limit = 0 \/ Len(display.text) < display.limit

\* A short text without control characters is written byte by byte.
PlainSoFar ==
    Plain(display.text) /\ Short =>
        IF display.pc = "done" THEN display.out = display.text
        ELSE /\ display.pc = "loop" /\ display.index = Len(display.out) + 1
             /\ Len(display.out) <= Len(display.text)
             /\ \A k \in 1..Len(display.out) : display.out[k] = display.text[k]

DisplayInv == display \in DisplayType /\ OutIsPlain /\ PlainSoFar /\ DisplayIsPlain

-----------------------------------------------------------------------------
\* The first of some positions is one of them.
LEMMA FirstType ==
    ASSUME NEW positions \in SUBSET Nat, NEW default \in Nat
    PROVE  First(positions, default) \in positions \cup {default}
<1>1. CASE positions = {}
    BY <1>1 DEF First
<1>2. CASE positions # {}
    <2>1. PICK p \in positions : \A q \in positions : ~ (<<q, p>> \in OpToRel(<, Nat))
        BY <1>2, WFMin, NatLessThanWellFounded
    <2>2. \A q \in positions : ~ (q < p)
        BY <2>1 DEF OpToRel
    <2>3. p \in Nat /\ \A q \in positions : q \in Nat
        BY <2>1
    <2>4. \A q \in positions : p <= q
        BY <2>2, <2>3
    <2>5. QED
        BY <1>2, <2>1, <2>4 DEF First
<1>3. QED
    BY <1>1, <1>2

\* The loop goes on behind an escape sequence.
LEMMA SequenceEndType ==
    ASSUME NEW text \in Seq(Bytes), NEW i \in Nat \ {0}, i <= Len(text)
    PROVE  AfterSequence(text, i) \in Nat \ {0}
<1> DEFINE n == Len(text)
           stops == {j \in (i + 2)..n :
                        IF text[i + 1] = "[" THEN text[j] \in Final
                        ELSE \/ text[j] = "BEL"
                             \/ text[j] = "ESC" /\ j < n /\ text[j + 1] = "\\"}
           stop == First(stops, n)
<1>1. n \in Nat /\ stops \in SUBSET Nat
    BY LenProperties
<1>2. stop \in stops \cup {n}
    BY <1>1, FirstType
<1>3. stop \in Nat
    BY <1>1, <1>2
<1>4. AnsiSequenceEnd(text, i) \in {n, i + 1, stop, stop + 1}
    BY DEF AnsiSequenceEnd
<1> HIDE DEF stop, stops
<1>5. QED
    BY <1>1, <1>3, <1>4 DEF AfterSequence

\* A character is visible or one of the control characters.
LEMMA RuneType ==
    ASSUME display \in DisplayType, Looping
    PROVE  /\ Rune \in Visible \cup IsControl
           /\ NextIndex \in Nat \ {0}
<1>1. display.text[display.index] \in Bytes
    BY LenProperties DEF Looping, DisplayType
<1>2. Rune \in Visible \cup IsControl
    BY <1>1 DEF Rune, RuneAt, Paired, Bytes, Visible, IsControl, Ignored, Letter, Control, Unreadable
<1>3. NextIndex \in Nat \ {0}
    BY DEF NextIndex, RuneSize, DisplayType
<1>4. QED
    BY <1>2, <1>3

\* In a text of visible characters each byte is a character.
LEMMA PlainRune ==
    ASSUME display \in DisplayType, Looping, Plain(display.text)
    PROVE  /\ Rune = display.text[display.index] /\ Rune \notin IsControl
           /\ NextIndex = display.index + 1
<1>1. display.text[display.index] \in Bytes \cap Visible
    BY LenProperties DEF Looping, DisplayType, Plain
<1>2. display.text[display.index] \notin {"C2", "C3", "80", "ESC", "\n", "BEL"}
    BY <1>1 DEF Visible, Letter, Unreadable
<1>3. ~ Paired(display.text, display.index)
    BY <1>2 DEF Paired
<1>4. QED
    BY <1>1, <1>2, <1>3
       DEF Rune, RuneAt, NextIndex, RuneSize, IsControl, Ignored, Control, Visible, Bytes

-----------------------------------------------------------------------------
\* Nothing has been written at first.
LEMMA InitInv == DisplayInit => DisplayInv
<1> SUFFICES ASSUME DisplayInit PROVE DisplayInv
    OBVIOUS
<1>1. display \in DisplayType
    BY DisplayAssumption DEF DisplayInit, DisplayType
<1>2. QED
    BY <1>1 DEF DisplayInv, DisplayInit, OutIsPlain, PlainSoFar, DisplayIsPlain, DisplayType

\* A turn of the loop that writes nothing is not one at a visible character.
LEMMA SkipKeeps ==
    ASSUME DisplayInv, Looping, NEW i \in Nat \ {0}, display' = [display EXCEPT !.index = i],
           ~ Plain(display.text)
    PROVE  DisplayInv'
<1>1. display' \in DisplayType
    BY DEF DisplayInv, DisplayType
<1>2. /\ display'.pc = display.pc /\ display'.out = display.out /\ display'.text = display.text
      /\ display'.limit = display.limit /\ display'.truncated = display.truncated
    BY DEF DisplayInv, DisplayType
<1>3. QED
    BY <1>1, <1>2 DEF DisplayInv, OutIsPlain, PlainSoFar, DisplayIsPlain, Plain, Displayed

\* Writing a character goes on with the loop, or ends it at the limit.
LEMMA WriteKeeps ==
    ASSUME DisplayInv, Looping, NEW rune \in Visible, NEW space \in BOOLEAN, Write(rune, space),
           Plain(display.text) => rune = display.text[display.index]
    PROVE  DisplayInv'
<1> DEFINE new == Append(display.out, rune)
           cut == ReachesLimit(Len(display.out) + 1)
<1>1. display \in DisplayType /\ display.pc = "loop" /\ display.out \in Seq(Visible)
    BY DEF DisplayInv, OutIsPlain, Looping
<1>2. /\ new \in Seq(Visible) /\ Len(new) = Len(display.out) + 1
      /\ \A k \in 1..Len(display.out) : new[k] = display.out[k]
      /\ new[Len(display.out) + 1] = rune /\ Len(display.out) \in Nat
    BY <1>1, AppendProperties, LenProperties
<1>3. cut \in BOOLEAN
    BY DEF ReachesLimit
<1>4. /\ display'.out = new /\ display'.truncated = cut /\ display'.text = display.text
      /\ display'.limit = display.limit /\ display'.pc = (IF cut THEN "end" ELSE "loop")
      /\ display'.index = (IF cut THEN display.index ELSE NextIndex)
    BY <1>1 DEF Write, DisplayType
<1>5. new \in Seq(Visible \cup {Mark})
    BY <1>2, SeqMonotonic
<1>6. display' \in DisplayType
    <2> HIDE DEF new, cut
    <2>1. NextIndex \in Nat \ {0}
        BY <1>1, RuneType
    <2>2. QED
        BY <1>1, <1>3, <1>5, <2>1 DEF Write, DisplayType, new, cut
<1>7. OutIsPlain'
    <2> HIDE DEF new
    <2>1. display.limit \in Nat /\ (display.limit > 0 => Len(display.out) < display.limit)
        BY <1>1 DEF DisplayInv, OutIsPlain, DisplayType
    <2>2. CASE cut
        BY <1>2, <1>4, <2>1, <2>2 DEF OutIsPlain, ReachesLimit
    <2>3. CASE ~ cut
        <3>1. display'.pc = "loop" /\ ~ display'.truncated
            BY <1>4, <2>3
        <3>2. display.limit > 0 => Len(new) < display.limit
            BY <1>2, <2>1, <2>3 DEF ReachesLimit
        <3>3. QED
            BY <1>2, <1>4, <3>1, <3>2 DEF OutIsPlain
    <2>4. QED
        BY <2>2, <2>3
<1>8. PlainSoFar'
    <2> SUFFICES ASSUME Plain(display.text), Short'
                 PROVE  /\ display'.pc = "loop" /\ display'.index = Len(display'.out) + 1
                        /\ Len(display'.out) <= Len(display'.text)
                        /\ \A k \in 1..Len(display'.out) : display'.out[k] = display'.text[k]
        BY <1>4 DEF PlainSoFar, Plain
    <2>1. Short /\ display.index = Len(display.out) + 1
          /\ \A k \in 1..Len(display.out) : display.out[k] = display.text[k]
        BY <1>1, <1>4 DEF Short, DisplayInv, PlainSoFar
    <2>2. display.index <= Len(display.text) /\ Len(display.text) \in Nat /\ display.limit \in Nat
        BY <1>1, LenProperties DEF Looping, DisplayType
    <2>3. ~ cut
        BY <1>2, <2>1, <2>2 DEF ReachesLimit, Short
    <2>4. NextIndex = display.index + 1
        BY <1>1, PlainRune
    <2> HIDE DEF new, cut
    <2>5. \A k \in 1..(Len(display.out) + 1) : new[k] = display.text[k]
        BY <1>2, <2>1
    <2>6. QED
        BY <1>2, <1>4, <2>1, <2>2, <2>3, <2>4, <2>5
<1>9. DisplayIsPlain'
    <2> HIDE DEF new, cut
    <2>1. \A k \in DOMAIN display'.out : display'.out[k] \in Visible
        BY <1>2, <1>4, LenProperties
    <2>2. display'.limit > 0 => Len(display'.out) <= display'.limit
        BY <1>2, <1>4, <1>6, <1>7 DEF OutIsPlain, DisplayType
    <2>3. QED
        BY <1>4, <1>6, <2>1, <2>2 DEF DisplayIsPlain, Displayed, DisplayType
<1>10. QED
    BY <1>6, <1>7, <1>8, <1>9 DEF DisplayInv

\* The end adds a mark to what was cut.
LEMMA FinishKeeps ==
    ASSUME DisplayInv, FinishDisplay
    PROVE  DisplayInv'
<1> DEFINE new == IF display.truncated THEN Append(display.out, Mark) ELSE display.out
<1>1. /\ display \in DisplayType /\ display.pc # "done" /\ display.out \in Seq(Visible)
      /\ display.limit \in Nat /\ display.truncated \in BOOLEAN
    BY DEF DisplayInv, OutIsPlain, FinishDisplay, DisplayType
<1>2. /\ display'.out = new /\ display'.text = display.text /\ display'.limit = display.limit
      /\ display'.pc = "done" /\ display'.truncated = display.truncated
    BY <1>1 DEF FinishDisplay, DisplayType
<1>3. display.out \in Seq(Visible \cup {Mark}) /\ Len(display.out) \in Nat
    BY <1>1, SeqMonotonic, LenProperties
<1>4. /\ new \in Seq(Visible \cup {Mark})
      /\ \A k \in DOMAIN new : new[k] \in Visible \/ (new[k] = Mark /\ k = Len(new))
      /\ Len(new) <= Len(display.out) + 1
    <2>1. CASE display.truncated
        <3>1. /\ Append(display.out, Mark) \in Seq(Visible \cup {Mark})
              /\ Len(Append(display.out, Mark)) = Len(display.out) + 1
              /\ \A k \in 1..Len(display.out) : Append(display.out, Mark)[k] = display.out[k]
              /\ Append(display.out, Mark)[Len(display.out) + 1] = Mark
            BY <1>3, AppendProperties
        <3>2. new = Append(display.out, Mark)
            BY <2>1
        <3> HIDE DEF new
        <3>3. DOMAIN new = 1..(Len(display.out) + 1)
            BY <3>1, <3>2, LenProperties
        <3>4. \A k \in 1..Len(display.out) : display.out[k] \in Visible
            BY <1>1, ElementOfSeq
        <3>5. QED
            BY <1>3, <3>1, <3>2, <3>3, <3>4
    <2>2. CASE ~ display.truncated
        BY <1>1, <1>3, <2>2, LenProperties
    <2>3. QED
        BY <1>1, <2>1, <2>2
<1>5. display' \in DisplayType
    <2> HIDE DEF new
    <2>1. QED
        BY <1>1, <1>4 DEF FinishDisplay, DisplayType, new
<1>6. display.limit > 0 => Len(new) <= display.limit + 1
    <2>1. display.limit > 0 => Len(display.out) <= display.limit
        BY <1>1, <1>3 DEF DisplayInv, OutIsPlain, DisplayType
    <2>2. Len(new) \in Nat
        BY <1>4, LenProperties
    <2> HIDE DEF new
    <2>3. QED
        BY <1>1, <1>3, <1>4, <2>1, <2>2
<1>7. OutIsPlain' /\ DisplayIsPlain'
    <2> HIDE DEF new
    <2>1. QED
        BY <1>2, <1>4, <1>6 DEF OutIsPlain, DisplayIsPlain, Displayed
<1>8. PlainSoFar'
    <2> SUFFICES ASSUME Plain(display.text), Short'
                 PROVE  display'.out = display'.text
        BY <1>2 DEF PlainSoFar, Plain
    <2>1. /\ display.pc = "loop" /\ display.index = Len(display.out) + 1
          /\ Len(display.out) <= Len(display.text)
          /\ \A k \in 1..Len(display.out) : display.out[k] = display.text[k]
        BY <1>1, <1>2 DEF Short, DisplayInv, PlainSoFar
    <2>2. ~ display.truncated
        BY <2>1 DEF DisplayInv, OutIsPlain
    <2>3. display.text \in Seq(Bytes) /\ Len(display.text) \in Nat /\ display.index \in Nat
        BY <1>1, LenProperties DEF DisplayType
    <2>4. display.index > Len(display.text)
        BY <2>1, <2>3 DEF FinishDisplay, Looping
    <2>5. Len(display.out) = Len(display.text)
        BY <1>3, <2>1, <2>3, <2>4
    <2>6. display.out \in Seq(Visible \cup Bytes) /\ display.text \in Seq(Visible \cup Bytes)
        BY <1>1, <2>3, SeqMonotonic
    <2>7. display.out = display.text
        BY <2>1, <2>5, <2>6, SeqEqual
    <2>8. QED
        BY <1>2, <2>2, <2>7
<1>9. QED
    BY <1>5, <1>7, <1>8 DEF DisplayInv

\* A text with a control character where the loop is has more than visible ones.
LEMMA ControlIsNotPlain ==
    ASSUME DisplayInv, Looping, Rune \in IsControl
    PROVE  ~ Plain(display.text)
    BY PlainRune DEF DisplayInv

\* One case for each turn of the loop.
LEMMA NextInv == DisplayInv /\ [DisplayNext]_display => DisplayInv'
<1> SUFFICES ASSUME DisplayInv, [DisplayNext]_display PROVE DisplayInv'
    OBVIOUS
<1>1. display \in DisplayType
    BY DEF DisplayInv
<1>2. CASE SkipSequence
    <2>1. Looping /\ Rune = "ESC" /\ ~ Plain(display.text)
        BY <1>2, ControlIsNotPlain DEF SkipSequence, IsControl
    <2>2. AfterSequence(display.text, display.index) \in Nat \ {0}
        BY <1>1, <2>1, SequenceEndType DEF Looping, DisplayType
    <2>3. display' = [display EXCEPT !.index = AfterSequence(display.text, display.index)]
        BY <1>2 DEF SkipSequence
    <2>4. QED
        BY <2>1, <2>2, <2>3, SkipKeeps
<1>3. ASSUME Looping, Rune \in IsControl, Skip
      PROVE  DisplayInv'
    <2>1. NextIndex \in Nat \ {0} /\ ~ Plain(display.text)
        BY <1>1, <1>3, RuneType, ControlIsNotPlain
    <2>2. display' = [display EXCEPT !.index = NextIndex]
        BY <1>3 DEF Skip
    <2>3. QED
        BY <1>3, <2>1, <2>2, SkipKeeps
<1>4. CASE EndLine
    <2>1. Looping /\ Rune \in IsControl /\ ~ Plain(display.text)
        BY <1>4, ControlIsNotPlain DEF EndLine, IsControl
    <2>2. " " \in Visible
        BY DEF Visible
    <2>3. CASE ~ display.lastWasSpace
        <3>1. Write(" ", TRUE)
            BY <1>4, <2>3 DEF EndLine
        <3>2. QED
            BY <2>1, <2>2, <3>1, WriteKeeps
    <2>4. CASE display.lastWasSpace
        <3>1. Skip
            BY <1>4, <2>4 DEF EndLine
        <3>2. QED
            BY <2>1, <3>1, <1>3
    <2>5. QED
        BY <2>3, <2>4
<1>5. CASE WriteRune
    <2>1. Looping /\ Rune \in Visible /\ Write(Rune, Rune = " ")
        BY <1>1, <1>5, RuneType DEF WriteRune
    <2>2. Plain(display.text) => Rune = display.text[display.index]
        BY <1>1, <2>1, PlainRune
    <2>3. QED
        BY <2>1, <2>2, WriteKeeps
<1>6. CASE SkipControl
    BY <1>3, <1>6 DEF SkipControl, IsControl
<1>7. CASE UNCHANGED display
    BY <1>7 DEF DisplayInv, DisplayType, OutIsPlain, PlainSoFar, Short, DisplayIsPlain, Displayed
<1>8. QED
    BY <1>2, <1>4, <1>5, <1>6, <1>7, FinishKeeps DEF DisplayNext

\* Whatever the text and the limit, what sanitizeDisplay returns has nothing of an
\* escape sequence or a control character in it and is no longer than the limit
\* and its mark, and a short text without control characters is left alone.
THEOREM DisplayPromiseKept == DisplaySpec => []DisplayKeepsItsPromise
<1>1. DisplayInv => DisplayKeepsItsPromise
    BY DEF DisplayInv, DisplayKeepsItsPromise, PlainTextSurvives, PlainSoFar, Plain, Short, Displayed
<1>2. QED
    BY <1>1, InitInv, NextInv, PTL DEF DisplaySpec

Runes == Visible \cup IsControl

\* RuneAt gives a character, and goes past the end of the text by none.
LEMMA RuneAtType ==
    ASSUME NEW text \in Seq(Bytes), NEW i \in 1..Len(text)
    PROVE  /\ RuneAt(text, i) \in Runes
           /\ RuneSize(text, i) \in {1, 2} /\ i + RuneSize(text, i) <= Len(text) + 1
<1>1. text[i] \in Bytes /\ Len(text) \in Nat
    BY ElementOfSeq, LenProperties
<1>2. RuneAt(text, i) \in Runes
    BY <1>1 DEF RuneAt, Runes, Paired, Bytes, Visible, IsControl, Ignored, Letter, Control, Unreadable
<1>3. QED
    BY <1>1, <1>2 DEF RuneSize, Paired

Escape == "ESC"
Bell == "BEL"
Bracket == "["
LongBracket == "]"
Backslash == "\\"

\* The first of some positions is the only one of them before all others.
LEMMA FirstIs ==
    ASSUME NEW positions \in SUBSET Nat, NEW default \in Nat
    PROVE  /\ positions = {} => First(positions, default) = default
           /\ \A p \in positions : (\A q \in positions : p <= q) => First(positions, default) = p
           /\ positions # {} => /\ First(positions, default) \in positions
                                /\ \A q \in positions : First(positions, default) <= q
<1>1. CASE positions = {}
    BY <1>1 DEF First
<1>2. CASE positions # {}
    <2>1. PICK p \in positions : \A q \in positions : ~ (<<q, p>> \in OpToRel(<, Nat))
        BY <1>2, WFMin, NatLessThanWellFounded
    <2>2. \A q \in positions : ~ (q < p)
        BY <2>1 DEF OpToRel
    <2>3. p \in Nat /\ \A q \in positions : q \in Nat
        BY <2>1
    <2>4. \A q \in positions : p <= q
        BY <2>2, <2>3
    <2> DEFINE first == CHOOSE x \in positions : \A q \in positions : x <= q
    <2>5. First(positions, default) = first
        BY <1>2, Zenon DEF First
    <2>6. first \in positions /\ \A q \in positions : first <= q
        BY <2>1, <2>4, Zenon
    <2> HIDE DEF first
    <2>7. ASSUME NEW x \in positions, \A q \in positions : x <= q
          PROVE  first = x
        <3>1. x <= first /\ first <= x /\ x \in Nat /\ first \in Nat
            BY <2>6, <2>7
        <3>2. QED
            BY <3>1
    <2>8. QED
        BY <1>2, <2>5, <2>6, <2>7
<1>3. QED
    BY <1>1, <1>2

\* The search for the end of an escape sequence finds it.
LEMMA SequenceEndFound ==
    ASSUME NEW text \in Seq(Bytes), NEW i \in 1..Len(text)
    PROVE  /\ AnsiSequenceEnd(text, i) = SequenceEnd(text, i)
           /\ SequenceEnd(text, i) \in i..Len(text)
<1> DEFINE n == Len(text)
           stops == {j \in (i + 2)..n :
                        IF text[i + 1] = Bracket THEN text[j] \in Final
                        ELSE \/ text[j] = Bell
                             \/ (text[j] = Escape /\ j < n /\ text[j + 1] = Backslash)}
           stop == First(stops, n)
           Ends(j) == CASE text[i + 1] = Bracket -> j > i + 1 /\ text[j] \in Final
                        [] text[i + 1] = LongBracket ->
                              \/ text[j] = Bell
                              \/ (j > i + 2 /\ <<text[j - 1], text[j]>> = <<Escape, Backslash>>)
                        [] OTHER -> TRUE
           ends == {j \in (i + 1)..n : Ends(j)}
           end == First(ends, n)
<1>1. n \in Nat /\ i \in Nat /\ i >= 1 /\ i <= n
    BY LenProperties
<1>2. AnsiSequenceEnd(text, i) =
        IF i = n THEN n
        ELSE IF text[i + 1] \notin {Bracket, LongBracket} THEN i + 1
        ELSE IF stop < n /\ text[stop] = Escape THEN stop + 1 ELSE stop
    BY Zenon DEF AnsiSequenceEnd, Bracket, LongBracket, Bell, Escape, Backslash
<1>3. SequenceEnd(text, i) = end
    BY Zenon DEF SequenceEnd, Bracket, LongBracket, Bell, Escape, Backslash
<1>4. Bracket # LongBracket /\ LongBracket # Bell /\ Escape # Bell /\ Escape \notin Final
    BY DEF Bracket, LongBracket, Bell, Escape, Final
<1> HIDE DEF Bracket, LongBracket, Bell, Escape, Backslash, Final
<1>5. stops \in SUBSET Nat /\ ends \in SUBSET Nat
    BY <1>1
<1>6. /\ \A j : j \in ends <=> (j \in (i + 1)..n /\ Ends(j))
      /\ \A j : j \in stops <=> (j \in (i + 2)..n
            /\ (IF text[i + 1] = Bracket THEN text[j] \in Final
                ELSE \/ text[j] = Bell
                     \/ (text[j] = Escape /\ j < n /\ text[j + 1] = Backslash)))
    OBVIOUS
<1> HIDE DEF stops, ends
<1>7. /\ ends = {} => end = n
      /\ \A p \in ends : (\A q \in ends : p <= q) => end = p
      /\ ends # {} => end \in ends
    BY <1>1, <1>5, FirstIs
<1>8. /\ stops = {} => stop = n
      /\ stops # {} => stop \in stops /\ \A q \in stops : stop <= q
    BY <1>1, <1>5, FirstIs
<1> HIDE DEF stop, end, n
<1>9. end \in i..n
    BY <1>1, <1>6, <1>7
<1>10. CASE i = n
    BY <1>1, <1>2, <1>3, <1>9, <1>10
<1>11. CASE i < n /\ text[i + 1] \notin {Bracket, LongBracket}
    <2>1. i + 1 \in ends /\ \A q \in ends : i + 1 <= q
        BY <1>1, <1>6, <1>11
    <2>2. QED
        BY <1>1, <1>2, <1>3, <1>7, <1>9, <1>11, <2>1 DEF n
<1>12. CASE i < n /\ text[i + 1] = Bracket
    <2>1. \A j \in (i + 1)..n : Ends(j) <=> (j > i + 1 /\ text[j] \in Final)
        BY <1>4, <1>12
    <2> HIDE DEF Ends
    <2>2. ends = stops
        <3>1. \A j : (j \in (i + 1)..n /\ j > i + 1) <=> j \in (i + 2)..n
            BY <1>1 DEF n
        <3>2. \A j : j \in ends <=> (j \in (i + 2)..n /\ text[j] \in Final)
            BY <1>6, <2>1, <3>1
        <3>3. \A j : j \in stops <=> (j \in (i + 2)..n /\ text[j] \in Final)
            BY <1>6, <1>12
        <3>4. QED
            BY <3>2, <3>3
    <2>3. stop = end /\ ~ (stop < n /\ text[stop] = Escape)
        BY <1>1, <1>4, <1>5, <1>6, <1>7, <1>8, <1>12, <2>2
    <2>4. QED
        BY <1>1, <1>2, <1>3, <1>9, <1>12, <2>3 DEF n
<1>13. CASE i < n /\ text[i + 1] = LongBracket
    <2>1. \A j \in (i + 1)..n :
             Ends(j) <=> (text[j] = Bell \/ (j > i + 2 /\ text[j - 1] = Escape /\ text[j] = Backslash))
        BY <1>4, <1>13
    <2> HIDE DEF Ends
    <2>2. \A j : j \in stops <=> (j \in (i + 2)..n /\ (\/ text[j] = Bell
                                      \/ (text[j] = Escape /\ j < n /\ text[j + 1] = Backslash)))
        BY <1>4, <1>6, <1>13
    <2>3. \A j \in ends : j \in stops \/ j - 1 \in stops
        <3> TAKE j \in ends
        <3>1. j \in (i + 1)..n /\ (text[j] = Bell \/ (j > i + 2 /\ text[j - 1] = Escape /\ text[j] = Backslash))
            BY <1>6, <2>1
        <3>2. CASE text[j] = Bell
            <4>1. j # i + 1
                BY <1>4, <1>13, <3>2
            <4>2. j \in (i + 2)..n
                BY <1>1, <3>1, <4>1
            <4>3. QED
                BY <2>2, <3>2, <4>2
        <3>3. CASE j > i + 2 /\ text[j - 1] = Escape /\ text[j] = Backslash
            <4>1. j - 1 \in (i + 2)..n /\ j - 1 < n /\ (j - 1) + 1 = j
                BY <1>1, <3>1, <3>3
            <4>2. QED
                BY <2>2, <3>3, <4>1
        <3>4. QED
            BY <3>1, <3>2, <3>3
    <2>4. CASE stops = {}
        <3>1. ends = {}
            BY <2>3, <2>4
        <3>2. stop = n /\ end = n
            BY <1>7, <1>8, <2>4, <3>1
        <3>3. QED
            BY <1>1, <1>2, <1>3, <1>9, <1>13, <3>2 DEF n
    <2>5. CASE stops # {}
        <3>1. stop \in stops /\ \A q \in stops : stop <= q
            BY <1>8, <2>5
        <3>2. stop \in (i + 2)..n
            BY <2>2, <3>1
        <3>3. CASE text[stop] = Escape
            <4>1. stop < n /\ text[stop + 1] = Backslash
                BY <1>4, <2>2, <3>1, <3>3
            <4>2. stop + 1 \in (i + 1)..n /\ (stop + 1) - 1 = stop /\ stop + 1 > i + 2
                BY <1>1, <3>2, <4>1
            <4>3. stop + 1 \in ends
                BY <1>6, <2>1, <3>3, <4>1, <4>2
            <4>4. \A q \in ends : stop + 1 <= q
                <5> TAKE q \in ends
                <5>1. q \in (i + 1)..n /\ q - 1 \in Int
                    BY <1>1, <1>6
                <5>2. q # stop
                    <6> SUFFICES ASSUME q = stop PROVE FALSE
                        OBVIOUS
                    <6>1. text[stop] # Bell
                        BY <1>4, <3>3
                    <6>2. text[stop - 1] = Escape /\ text[stop] = Backslash /\ stop > i + 2
                        BY <1>6, <2>1, <6>1
                    <6>3. stop - 1 \in (i + 2)..n /\ stop - 1 < n /\ (stop - 1) + 1 = stop
                        BY <1>1, <3>2, <6>2
                    <6>4. stop - 1 \in stops
                        BY <2>2, <6>2, <6>3
                    <6>5. stop <= stop - 1
                        BY <3>1, <6>4
                    <6>6. QED
                        BY <3>2, <6>5
                <5>3. stop <= q \/ stop <= q - 1
                    BY <2>3, <3>1
                <5>4. QED
                    BY <3>2, <5>1, <5>2, <5>3
            <4>5. end = stop + 1
                BY <1>7, <4>3, <4>4
            <4>6. QED
                BY <1>1, <1>2, <1>3, <1>9, <1>13, <3>3, <4>1, <4>5 DEF n
        <3>4. CASE text[stop] # Escape
            <4>1. text[stop] = Bell
                BY <2>2, <3>1, <3>4
            <4>2. stop \in ends
                <5>1. stop \in (i + 1)..n
                    BY <1>1, <3>2
                <5>2. QED
                    BY <1>6, <2>1, <4>1, <5>1
            <4>3. \A q \in ends : stop <= q
                <5> TAKE q \in ends
                <5>1. q \in (i + 1)..n
                    BY <1>6
                <5>2. stop <= q \/ stop <= q - 1
                    BY <2>3, <3>1
                <5>3. QED
                    BY <3>2, <5>1, <5>2
            <4>4. end = stop
                BY <1>7, <4>2, <4>3
            <4>5. QED
                BY <1>1, <1>2, <1>3, <1>9, <1>13, <3>4, <4>4 DEF n
        <3>5. QED
            BY <3>3, <3>4
    <2>6. QED
        BY <2>4, <2>5
<1>14. QED
    BY <1>1, <1>10, <1>11, <1>12, <1>13 DEF n

-----------------------------------------------------------------------------
\* What remains from a place on.
RestFrom(rest, text, i) ==
    CASE i > Len(text) -> <<>>
      [] i <= Len(text) /\ text[i] = "ESC" -> rest[SequenceEnd(text, i) + 1]
      [] OTHER -> (IF RuneAt(text, i) \in Ignored THEN <<>> ELSE <<RuneAt(text, i)>>)
                  \o rest[i + RuneSize(text, i)]

Rests(text) ==
    CHOOSE rest : rest = [i \in 1..(Len(text) + 2) |-> RestFrom(rest, text, i)]

\* The three cases one by one.
LEMMA RestCases ==
    ASSUME NEW rest, NEW text \in Seq(Bytes), NEW i \in 1..(Len(text) + 2)
    PROVE  /\ i > Len(text) => RestFrom(rest, text, i) = <<>>
           /\ i <= Len(text) /\ text[i] = Escape
                => RestFrom(rest, text, i) = rest[SequenceEnd(text, i) + 1]
           /\ i <= Len(text) /\ text[i] # Escape
                => RestFrom(rest, text, i)
                   = (IF RuneAt(text, i) \in Ignored THEN <<>> ELSE <<RuneAt(text, i)>>)
                     \o rest[i + RuneSize(text, i)]
<1>1. i \in Nat /\ Len(text) \in Nat
    BY LenProperties
<1>2. i > Len(text) <=> ~ (i <= Len(text))
    BY <1>1
<1>3. QED
    BY <1>2, Zenon DEF RestFrom, Escape

\* The remainder of a text is what remains from its first byte on.
LEMMA RestsRemain ==
    ASSUME NEW text \in Seq(Bytes)
    PROVE  /\ Rests(text) \in [1..(Len(text) + 2) -> Seq(Runes)]
           /\ \A i \in 1..(Len(text) + 2) : Rests(text)[i] = RestFrom(Rests(text), text, i)
           /\ Remainder(text) = Rests(text)[1]
<1> DEFINE n == Len(text)
           N == n + 2
           D == 1..N
           V == Seq(Runes)
           Body(f, i) == RestFrom(f, text, i)
           rank == [i \in D |-> N - i]
           Step == [z \in D \X [D -> V] |-> Body(z[2], z[1])]
           rests == Rests(text)
<1>1. n \in Nat
    BY LenProperties
<1>2. ASSUME NEW i \in D, i <= n
      PROVE  /\ SequenceEnd(text, i) + 1 \in D /\ SequenceEnd(text, i) + 1 > i
             /\ i + RuneSize(text, i) \in D /\ i + RuneSize(text, i) > i
    <2>1. i \in 1..Len(text)
        BY <1>1, <1>2
    <2>2. SequenceEnd(text, i) \in i..n
        BY <2>1, SequenceEndFound
    <2>3. RuneSize(text, i) \in {1, 2} /\ i + RuneSize(text, i) <= n + 1
        BY <2>1, RuneAtType
    <2>4. QED
        BY <1>1, <2>1, <2>2, <2>3
<1>3. ASSUME NEW i \in D, NEW f \in [D -> V]
      PROVE  Body(f, i) \in V
    <2>1. <<>> \in V
        OBVIOUS
    <2>2. \A s, t \in V : s \o t \in V
        BY ConcatProperties
    <2>3. CASE i > n
        BY <2>1, <2>3, RestCases
    <2>4. CASE i <= n
        <3>1. RuneAt(text, i) \in Runes
            BY <1>1, <2>4, RuneAtType
        <3>2. (IF RuneAt(text, i) \in Ignored THEN <<>> ELSE <<RuneAt(text, i)>>) \in V
            BY <2>1, <3>1
        <3>3. f[SequenceEnd(text, i) + 1] \in V /\ f[i + RuneSize(text, i)] \in V
            BY <1>2, <2>4
        <3> DEFINE head == IF RuneAt(text, i) \in Ignored THEN <<>> ELSE <<RuneAt(text, i)>>
        <3> HIDE DEF V, head
        <3>4. head \in V /\ head \o f[i + RuneSize(text, i)] \in V
            BY <2>2, <3>2, <3>3 DEF head
        <3>5. \/ Body(f, i) = f[SequenceEnd(text, i) + 1]
              \/ Body(f, i) = head \o f[i + RuneSize(text, i)]
            BY <2>4, RestCases DEF head
        <3>6. QED
            BY <3>3, <3>4, <3>5
    <2>5. QED
        BY <1>1, <2>3, <2>4
<1>4. ASSUME NEW i \in D, NEW f, NEW g, \A y \in D : y > i => f[y] = g[y]
      PROVE  Body(f, i) = Body(g, i)
    <2>1. CASE i > n
        BY <2>1, RestCases
    <2>2. CASE i <= n
        <3> DEFINE after == SequenceEnd(text, i) + 1
                   next == i + RuneSize(text, i)
        <3>1. after \in D /\ after > i /\ next \in D /\ next > i
            BY <1>2, <2>2
        <3>2. f[after] = g[after] /\ f[next] = g[next]
            <4> HIDE DEF D, V, after, next
            <4>1. QED
                BY <1>4, <3>1
        <3>3. QED
            BY <2>2, <3>2, RestCases
    <2>3. QED
        BY <1>1, <2>1, <2>2
<1>5. rank \in [D -> 0..N] /\ N \in Nat /\ \A i, y \in D : y > i => rank[y] < rank[i]
    BY <1>1
<1>6. V # {}
    <2>1. <<>> \in V
        OBVIOUS
    <2>2. QED
        BY <2>1
<1> HIDE DEF Body, V
<1>7. Step \in [D \X [D -> V] -> V]
    BY <1>3
<1>8. MadeOfLower(Step, D, V, rank)
    <2>1. ASSUME NEW i \in D, NEW f \in [D -> V], NEW g \in [D -> V],
                 \A y \in D : rank[y] < rank[i] => f[y] = g[y]
          PROVE  Body(f, i) = Body(g, i)
        <3> HIDE DEF D, rank
        <3>1. \A y \in D : y > i => f[y] = g[y]
            BY <1>5, <2>1
        <3>2. QED
            BY <1>4, <3>1
    <2>2. QED
        BY <2>1 DEF MadeOfLower
<1>9. PICK f \in [D -> V] : Solves(f, Step, D)
    <2> HIDE DEF D, rank, Step, N
    <2>1. QED
        BY <1>5, <1>6, <1>7, <1>8, RecursiveFunction, Zenon
<1>10. f = [i \in D |-> Body(f, i)]
    BY <1>9 DEF Solves
<1>11. rests = [i \in D |-> RestFrom(rests, text, i)]
    BY <1>10, Zenon DEF Body, Rests
<1>12. Remainder(text) = rests[1]
    BY Zenon DEF Remainder, Rests, RestFrom
<1> HIDE DEF rests
<1>13. \A i \in D : rests[i] = Body(rests, i)
    BY <1>11 DEF Body
<1>14. \A i \in D : rests[i] = f[i]
    <2> DEFINE T == {d \in Nat : \A i \in D : N - i <= d => rests[i] = f[i]}
    <2>1. \A i \in D : (\A y \in D : y > i => rests[y] = f[y]) => rests[i] = f[i]
        BY <1>4, <1>10, <1>13
    <2>2. 0 \in T
        <3>1. ASSUME NEW i \in D, N - i <= 0
              PROVE  rests[i] = f[i]
            <4>1. \A y \in D : ~ (y > i)
                BY <1>1, <3>1
            <4> HIDE DEF D
            <4>2. QED
                BY <2>1, <4>1
        <3>2. QED
            BY <3>1
    <2>3. ASSUME NEW d \in T
          PROVE  d + 1 \in T
        <3>1. d \in Nat /\ \A i \in D : N - i <= d => rests[i] = f[i]
            OBVIOUS
        <3>2. ASSUME NEW i \in D, N - i <= d + 1
              PROVE  rests[i] = f[i]
            <4>1. \A y \in D : y > i => N - y <= d
                BY <1>1, <3>1, <3>2
            <4> HIDE DEF D
            <4>2. QED
                BY <2>1, <3>1, <4>1
        <3>3. QED
            BY <3>1, <3>2
    <2>4. T = Nat
        <3>1. T \in SUBSET Nat
            OBVIOUS
        <3> HIDE DEF T
        <3>2. QED
            BY <2>2, <2>3, <3>1, SetInduction
    <2>5. N \in T
        BY <1>5, <2>4
    <2>6. \A i \in D : N - i <= N
        BY <1>1
    <2>7. QED
        BY <2>5, <2>6
<1>15. QED
    BY <1>10, <1>11, <1>12, <1>13, <1>14 DEF rests, V, Body

-----------------------------------------------------------------------------
Newline == "\n"
Blank == " "

\* What the k-th character adds when lines are joined.
Fold(runes, k) ==
    IF k > 1 /\ runes[k] = Newline /\ runes[k - 1] \in {Blank, Newline} THEN <<>>
    ELSE IF runes[k] = Newline THEN <<Blank>> ELSE <<runes[k]>>

Folds(runes) == [k \in 1..Len(runes) |-> Fold(runes, k)]

\* Folded joins them.
LEMMA FoldedJoins ==
    ASSUME NEW runes \in Seq(Runes)
    PROVE  /\ Folds(runes) \in [1..Len(runes) -> Seq(Runes)]
           /\ \E fold : /\ IsJoined(fold, Runes, <<>>, Folds(runes), Len(runes))
                        /\ Folded(runes) = fold[Len(runes)]
<1> DEFINE n == Len(runes)
           part == Folds(runes)
           Kept(k) == ~ (k > 1 /\ runes[k] = Newline /\ runes[k - 1] \in {Blank, Newline})
           Part(k) == IF ~ Kept(k) THEN <<>>
                      ELSE IF runes[k] = Newline THEN <<Blank>> ELSE <<runes[k]>>
           fold == CHOOSE f : f = [k \in 0..n |-> IF k = 0 THEN <<>> ELSE f[k - 1] \o Part(k)]
<1>1. n \in Nat /\ Blank \in Runes /\ <<>> \in Seq(Runes)
    <2>1. Blank \in Runes
        BY Zenon DEF Blank, Runes, Visible
    <2>2. QED
        BY <2>1, LenProperties
<1>2. \A k : Part(k) = Fold(runes, k)
    BY DEF Fold
<1>3. part \in [1..n -> Seq(Runes)]
    <2>1. \A k \in 1..n : Fold(runes, k) \in Seq(Runes)
        <3> TAKE k \in 1..n
        <3>1. runes[k] \in Runes
            BY ElementOfSeq
        <3> HIDE DEF Runes
        <3>2. QED
            BY <1>1, <3>1 DEF Fold
    <2>2. QED
        BY <2>1 DEF Folds
<1>4. Folded(runes) = fold[n]
    BY Zenon DEF Folded, Newline, Blank
<1>5. \E f : JoinsParts(f, <<>>, part, n)
    <2> HIDE DEF part, n
    <2>1. QED
        BY <1>1, <1>3, JoinExists, Zenon
<1>6. PICK f : JoinsParts(f, <<>>, part, n)
    BY <1>5
<1>7. \A k \in 0..n : k # 0 => part[k] = Part(k)
    BY <1>1, <1>2 DEF Folds
<1> HIDE DEF Part, part
<1>8. \A b : JoinsParts(b, <<>>, part, n)
             <=> b = [k \in 0..n |-> IF k = 0 THEN <<>> ELSE b[k - 1] \o Part(k)]
    <2> TAKE b
    <2> HIDE DEF n
    <2>1. \A k \in 0..n : (IF k = 0 THEN <<>> ELSE b[k - 1] \o part[k])
                          = (IF k = 0 THEN <<>> ELSE b[k - 1] \o Part(k))
        BY <1>7, Zenon
    <2>2. [k \in 0..n |-> IF k = 0 THEN <<>> ELSE b[k - 1] \o part[k]]
          = [k \in 0..n |-> IF k = 0 THEN <<>> ELSE b[k - 1] \o Part(k)]
        BY <2>1, Zenon
    <2>3. QED
        BY <2>2, Zenon DEF JoinsParts
<1>9. fold = [k \in 0..n |-> IF k = 0 THEN <<>> ELSE fold[k - 1] \o Part(k)]
    <2> HIDE DEF n
    <2>1. QED
        BY <1>6, <1>8, Zenon
<1> HIDE DEF fold
<1>10. JoinsParts(fold, <<>>, part, n)
    BY <1>8, <1>9, Zenon
<1>11. IsJoined(fold, Runes, <<>>, part, n)
    <2> HIDE DEF part, n
    <2>1. QED
        BY <1>1, <1>3, <1>10, JoinType, Zenon
<1>12. QED
    BY <1>3, <1>4, <1>11, Zenon DEF part

\* Folding a text goes on with what it has made of the text's beginning.
LEMMA FoldedBegins ==
    ASSUME NEW s \in Seq(Runes), NEW t \in Seq(Runes)
    PROVE  /\ Folded(s) \in Seq(Runes)
           /\ IsBeginning(Folded(s), Folded(s \o t))
           /\ Len(t) = 1 => Folded(s \o t) = Folded(s) \o Fold(s \o t, Len(s) + 1)
<1> DEFINE m == Len(s)
           u == s \o t
           n == Len(u)
<1>1. /\ u \in Seq(Runes) /\ m \in Nat /\ Len(t) \in Nat /\ n = m + Len(t)
      /\ \A k \in 1..m : u[k] = s[k]
    <2>1. u \in Seq(Runes) /\ n = m + Len(t) /\ m \in Nat /\ Len(t) \in Nat
        BY ConcatProperties, LenProperties
    <2>2. \A i \in 1..(m + Len(t)) : u[i] = IF i <= m THEN s[i] ELSE t[i - m]
        BY ConcatProperties
    <2> HIDE DEF u, m, n
    <2>3. QED
        BY <2>1, <2>2
<1>2. PICK f : IsJoined(f, Runes, <<>>, Folds(s), m) /\ Folded(s) = f[m]
    BY FoldedJoins
<1>3. PICK g : IsJoined(g, Runes, <<>>, Folds(u), n) /\ Folded(u) = g[n]
    BY <1>1, FoldedJoins
<1> HIDE DEF u
<1>4. \A k \in 1..m : Folds(s)[k] = Folds(u)[k]
    <2> TAKE k \in 1..m
    <2>1. k \in 1..n /\ u[k] = s[k] /\ (k > 1 => k - 1 \in 1..m)
        BY <1>1
    <2>2. k > 1 => u[k - 1] = s[k - 1]
        BY <1>1, <2>1
    <2>3. Fold(s, k) = Fold(u, k)
        BY <2>1, <2>2 DEF Fold
    <2>4. QED
        BY <2>1, <2>3 DEF Folds
<1> HIDE DEF m, n
<1> DEFINE T == {k \in Nat : k <= m => f[k] = g[k]}
<1>5. 0 \in T
    BY <1>2, <1>3 DEF IsJoined
<1>6. ASSUME NEW k \in T
      PROVE  k + 1 \in T
    <2>1. SUFFICES ASSUME k + 1 <= m PROVE f[k + 1] = g[k + 1]
        BY <1>6
    <2>2. k \in Nat /\ k + 1 \in 1..m /\ k + 1 \in 1..n /\ (k + 1) - 1 = k /\ f[k] = g[k]
        BY <1>1, <1>6, <2>1
    <2>3. f[k + 1] = f[k] \o Folds(s)[k + 1] /\ g[k + 1] = g[k] \o Folds(u)[k + 1]
        BY <1>2, <1>3, <2>2 DEF IsJoined
    <2>4. QED
        BY <1>4, <2>2, <2>3
<1>7. T = Nat
    <2>1. T \in SUBSET Nat
        OBVIOUS
    <2> HIDE DEF T
    <2>2. QED
        BY <1>5, <1>6, <2>1, SetInduction
<1>8. f[m] = g[m]
    <2>1. m \in T
        BY <1>1, <1>7
    <2>2. QED
        BY <1>1, <2>1
<1>9. m \in 0..n /\ n \in m..n /\ n \in Nat
    BY <1>1
<1>10. IsBeginning(g[m], g[n])
    <2>1. Folds(u) \in [1..n -> Seq(Runes)] /\ <<>> \in Seq(Runes)
        BY <1>1, FoldedJoins DEF n
    <2>2. QED
        BY <1>3, <1>9, <2>1, JoinStays
<1>11. Len(t) = 1 => g[n] = g[m] \o Fold(u, m + 1)
    <2> HAVE Len(t) = 1
    <2>1. n = m + 1 /\ n \in 1..n /\ n - 1 = m
        BY <1>1, <1>9
    <2>2. g[n] = g[n - 1] \o Folds(u)[n]
        BY <1>3, <2>1 DEF IsJoined
    <2>3. Folds(u)[n] = Fold(u, n)
        BY <2>1 DEF Folds, n
    <2>4. QED
        BY <2>1, <2>2, <2>3
<1>12. f[m] \in Seq(Runes)
    BY <1>1, <1>2 DEF IsJoined
<1>13. QED
    BY <1>2, <1>3, <1>8, <1>10, <1>11, <1>12 DEF u, m

-----------------------------------------------------------------------------
\* What remains from a byte on is what remains behind its sequence or character,
\* and before it the character, if it is not a control character.
LEMMA RestAt ==
    ASSUME NEW text \in Seq(Bytes), NEW i \in 1..Len(text)
    PROVE  /\ RuneAt(text, i) = Escape =>
                 /\ AfterSequence(text, i) \in 1..(Len(text) + 1)
                 /\ Rests(text)[i] = Rests(text)[AfterSequence(text, i)]
           /\ i + RuneSize(text, i) \in 1..(Len(text) + 1)
           /\ RuneAt(text, i) \in Ignored =>
                 Rests(text)[i] = Rests(text)[i + RuneSize(text, i)]
           /\ RuneAt(text, i) \notin Ignored \cup {Escape} =>
                 Rests(text)[i] = <<RuneAt(text, i)>> \o Rests(text)[i + RuneSize(text, i)]
<1> DEFINE n == Len(text)
           next == i + RuneSize(text, i)
           rests == Rests(text)
           rune == RuneAt(text, i)
<1>1. n \in Nat /\ i \in Nat /\ i >= 1 /\ i <= n /\ text[i] \in Bytes
    BY LenProperties, ElementOfSeq
<1>2. next \in 1..(n + 1)
    BY <1>1, RuneAtType
<1>3. rune = Escape <=> text[i] = Escape
    BY <1>1 DEF RuneAt, Paired, Bytes, Letter, Control, Unreadable, Escape
<1>4. AfterSequence(text, i) = SequenceEnd(text, i) + 1 /\ AfterSequence(text, i) \in 1..(n + 1)
    BY <1>1, SequenceEndFound DEF AfterSequence
<1>5. i \in 1..(n + 2)
    BY <1>1
<1>6. rests[i] = RestFrom(rests, text, i)
    BY <1>5, RestsRemain
<1>7. rests[next] \in Seq(Runes)
    <2>1. next \in 1..(n + 2)
        BY <1>1, <1>2
    <2> HIDE DEF next
    <2>2. QED
        BY <2>1, RestsRemain
<1>8. <<>> \o rests[next] = rests[next]
    BY <1>7, ConcatEmptySeq
<1> HIDE DEF rests
<1>9. /\ text[i] = Escape => rests[i] = rests[SequenceEnd(text, i) + 1]
      /\ text[i] # Escape => rests[i] = (IF rune \in Ignored THEN <<>> ELSE <<rune>>) \o rests[next]
    BY <1>1, <1>5, <1>6, RestCases
<1>10. Escape \notin Ignored
    BY DEF Escape, Ignored, Control
<1> HIDE DEF rune, next, n
<1>11. rune = Escape => rests[i] = rests[AfterSequence(text, i)]
    BY <1>3, <1>4, <1>9
<1>12. rune \in Ignored => rests[i] = rests[next]
    BY <1>3, <1>8, <1>9, <1>10
<1>13. rune \notin Ignored \cup {Escape} => rests[i] = <<rune>> \o rests[next]
    BY <1>3, <1>9
<1>14. QED
    BY <1>2, <1>4, <1>11, <1>12, <1>13 DEF rests, rune, next, n

LastIsSpace(runes) == Len(runes) > 0 /\ runes[Len(runes)] \in {Blank, Newline}

\* One more character is written, as a space or not at all if it ends a line.
LEMMA FoldedNext ==
    ASSUME NEW done \in Seq(Runes), NEW rune \in Runes
    PROVE  /\ done \o <<rune>> \in Seq(Runes)
           /\ LastIsSpace(done \o <<rune>>) <=> rune \in {Blank, Newline}
           /\ Folded(done \o <<rune>>) =
                 IF rune # Newline THEN Append(Folded(done), rune)
                 ELSE IF LastIsSpace(done) THEN Folded(done) ELSE Append(Folded(done), Blank)
<1> DEFINE m == Len(done)
           u == done \o <<rune>>
<1>1. m \in Nat /\ <<rune>> \in Seq(Runes) /\ Len(<<rune>>) = 1 /\ <<rune>>[1] = rune
    BY LenProperties
<1>2. u \in Seq(Runes) /\ Len(u) = m + 1 /\ u[m + 1] = rune /\ \A k \in 1..m : u[k] = done[k]
    <2>1. \A s, t \in Seq(Runes) :
            /\ s \o t \in Seq(Runes) /\ Len(s \o t) = Len(s) + Len(t)
            /\ \A k \in 1..(Len(s) + Len(t)) :
                  (s \o t)[k] = IF k <= Len(s) THEN s[k] ELSE t[k - Len(s)]
        BY ConcatProperties
    <2> DEFINE t == <<rune>>
    <2>2. t \in Seq(Runes) /\ Len(t) = 1 /\ t[1] = rune
        BY <1>1
    <2> HIDE DEF t
    <2>3. /\ done \o t \in Seq(Runes) /\ Len(done \o t) = m + 1
          /\ \A k \in 1..(m + 1) : (done \o t)[k] = IF k <= m THEN done[k] ELSE t[k - m]
        BY <2>1, <2>2
    <2>4. (m + 1) - m = 1 /\ m + 1 \in 1..(m + 1) /\ ~ (m + 1 <= m)
        BY <1>1
    <2> HIDE DEF m
    <2>5. (done \o t)[m + 1] = rune /\ \A k \in 1..m : (done \o t)[k] = done[k]
        BY <1>1, <2>2, <2>3, <2>4
    <2>6. QED
        BY <2>3, <2>5 DEF t
<1>3. Folded(u) = Folded(done) \o Fold(u, m + 1) /\ Folded(done) \in Seq(Runes)
    BY <1>1, FoldedBegins
<1>4. Blank \in Runes
    BY Zenon DEF Blank, Runes, Visible
<1> HIDE DEF u
<1>5. LastIsSpace(u) <=> rune \in {Blank, Newline}
    BY <1>1, <1>2 DEF LastIsSpace
<1>6. Fold(u, m + 1) = IF rune # Newline THEN <<rune>>
                       ELSE IF LastIsSpace(done) THEN <<>> ELSE <<Blank>>
    <2>1. m > 0 => u[m] = done[m]
        BY <1>1, <1>2
    <2>2. (m + 1) - 1 = m /\ (m + 1 > 1 <=> m > 0)
        BY <1>1
    <2>3. QED
        BY <1>2, <2>1, <2>2 DEF Fold, LastIsSpace
<1>7. \A x \in Runes : Folded(done) \o <<x>> = Append(Folded(done), x)
    BY <1>3, AppendIsConcat
<1>8. Folded(done) \o <<>> = Folded(done)
    BY <1>3, ConcatEmptySeq
<1>9. QED
    BY <1>2, <1>3, <1>4, <1>5, <1>6, <1>7, <1>8 DEF u

-----------------------------------------------------------------------------
\* What is written is what the text's remainder, as far as it has been read, is
\* folded to.
ExactSoFar ==
    /\ display.pc = "loop" =>
          /\ display.index \in 1..(Len(display.text) + 1)
          /\ \E done \in Seq(Runes) :
                /\ Remainder(display.text) = done \o Rests(display.text)[display.index]
                /\ display.out = Folded(done) /\ (display.lastWasSpace <=> LastIsSpace(done))
    /\ display.pc = "end" =>
          /\ display.truncated /\ display.limit > 0 /\ Len(display.out) = display.limit
          /\ \E done, more \in Seq(Runes) :
                Remainder(display.text) = done \o more /\ display.out = Folded(done)

ExactInv == DisplayInv /\ ExactSoFar /\ DisplayIsExact

\* Nothing has been read at first.
LEMMA InitExact == DisplayInit => ExactInv
<1> SUFFICES ASSUME DisplayInit PROVE ExactInv
    OBVIOUS
<1>1. DisplayInv /\ display \in DisplayType
    BY InitInv DEF DisplayInv
<1>2. /\ display.pc = "loop" /\ display.index = 1 /\ display.out = <<>>
      /\ display.lastWasSpace = FALSE /\ display.text \in Seq(Bytes)
    BY <1>1 DEF DisplayInit, DisplayType
<1> DEFINE rests == Rests(display.text)
<1>3. Remainder(display.text) = rests[1] /\ rests[1] \in Seq(Runes) /\ Len(display.text) \in Nat
    BY <1>2, RestsRemain, LenProperties
<1> HIDE DEF rests
<1>4. rests[1] = <<>> \o rests[1]
    BY <1>3, ConcatEmptySeq
<1>5. <<>> \in Seq(Runes) /\ ~ LastIsSpace(<<>>)
    BY DEF LastIsSpace
<1>6. Folded(<<>>) = <<>>
    <2>1. <<>> \in Seq(Runes) /\ Len(<<>>) = 0
        BY EmptySeq
    <2>2. PICK fold : /\ IsJoined(fold, Runes, <<>>, Folds(<<>>), Len(<<>>))
                      /\ Folded(<<>>) = fold[Len(<<>>)]
        BY <2>1, FoldedJoins
    <2>3. QED
        BY <2>1, <2>2 DEF IsJoined
<1>7. ExactSoFar
    <2>1. Remainder(display.text) = <<>> \o rests[display.index] /\ display.out = Folded(<<>>)
        BY <1>2, <1>3, <1>4, <1>6
    <2>2. display.index \in 1..(Len(display.text) + 1)
        BY <1>2, <1>3
    <2>3. display.pc = "loop" /\ (display.lastWasSpace <=> LastIsSpace(<<>>))
        BY <1>2, <1>5
    <2>4. QED
        BY <1>5, <2>1, <2>2, <2>3 DEF ExactSoFar, rests
<1>8. DisplayIsExact
    BY <1>2 DEF DisplayIsExact, Displayed
<1>9. QED
    BY <1>1, <1>7, <1>8 DEF ExactInv

\* A turn of the loop that writes nothing and goes on to where as much remains.
LEMMA SkipExact ==
    ASSUME ExactInv, Looping, NEW i \in 1..(Len(display.text) + 1),
           display' = [display EXCEPT !.index = i],
           Rests(display.text)[display.index] = Rests(display.text)[i]
    PROVE  (ExactSoFar /\ DisplayIsExact)'
<1>1. display \in DisplayType /\ display.pc = "loop"
    BY DEF ExactInv, DisplayInv, Looping
<1>2. /\ display'.pc = "loop" /\ display'.out = display.out /\ display'.text = display.text
      /\ display'.lastWasSpace = display.lastWasSpace /\ display'.index = i
    BY <1>1 DEF DisplayType
<1>3. PICK done \in Seq(Runes) :
            /\ Remainder(display.text) = done \o Rests(display.text)[display.index]
            /\ display.out = Folded(done) /\ (display.lastWasSpace <=> LastIsSpace(done))
    BY <1>1 DEF ExactInv, ExactSoFar
<1>4. /\ Remainder(display'.text) = done \o Rests(display'.text)[display'.index]
      /\ display'.out = Folded(done) /\ (display'.lastWasSpace <=> LastIsSpace(done))
    BY <1>2, <1>3
<1>5. QED
    BY <1>2, <1>4 DEF ExactSoFar, DisplayIsExact, Displayed

\* A turn of the loop at a character that is no control character, or ends a line:
\* it is read, and written unless it folds to nothing.
LEMMA ReadExact ==
    ASSUME ExactInv, Looping, Rune \notin Ignored \cup {Escape},
           \/ /\ Rune = Newline /\ display.lastWasSpace /\ Skip
           \/ Rune = Newline /\ ~ display.lastWasSpace /\ Write(Blank, TRUE)
           \/ Rune # Newline /\ Write(Rune, Rune = Blank)
    PROVE  (ExactSoFar /\ DisplayIsExact)'
<1> DEFINE text == display.text
           rests == Rests(text)
           n == Len(text)
<1>1. /\ display \in DisplayType /\ display.pc = "loop" /\ text \in Seq(Bytes) /\ n \in Nat
      /\ display.out \in Seq(Visible) /\ Len(display.out) \in Nat /\ display.limit \in Nat
      /\ (display.limit > 0 => Len(display.out) < display.limit)
    BY LenProperties DEF ExactInv, DisplayInv, OutIsPlain, Looping, DisplayType
<1>2. display.index \in 1..n
    BY <1>1 DEF Looping, DisplayType
<1>3. /\ Rune \in Runes /\ NextIndex \in 1..(n + 1)
      /\ rests[display.index] = <<Rune>> \o rests[NextIndex]
    <2>1. RuneAt(text, display.index) = Rune /\ display.index + RuneSize(text, display.index) = NextIndex
        BY DEF Rune, NextIndex
    <2>2. QED
        BY <1>1, <1>2, <2>1, RestAt, RuneAtType
<1>4. PICK done \in Seq(Runes) :
            /\ Remainder(text) = done \o rests[display.index]
            /\ display.out = Folded(done) /\ (display.lastWasSpace <=> LastIsSpace(done))
    BY <1>1 DEF ExactInv, ExactSoFar
<1> DEFINE read == done \o <<Rune>>
<1>5. /\ read \in Seq(Runes) /\ (LastIsSpace(read) <=> Rune \in {Blank, Newline})
      /\ Folded(read) = IF Rune # Newline THEN Append(display.out, Rune)
                        ELSE IF display.lastWasSpace THEN display.out ELSE Append(display.out, Blank)
    BY <1>3, <1>4, FoldedNext
<1>6. rests[NextIndex] \in Seq(Runes)
    <2>1. NextIndex \in 1..(n + 2)
        BY <1>1, <1>3
    <2>2. QED
        BY <1>1, <2>1, RestsRemain
<1>7. Remainder(text) = read \o rests[NextIndex]
    <2>1. <<Rune>> \in Seq(Runes)
        BY <1>3
    <2> DEFINE one == <<Rune>>
               more == rests[NextIndex]
    <2> HIDE DEF one, more
    <2>2. one \in Seq(Runes) /\ more \in Seq(Runes)
        BY <1>6, <2>1 DEF one, more
    <2>3. (done \o one) \o more = done \o (one \o more)
        BY <2>2, ConcatAssociative
    <2>4. QED
        BY <1>3, <1>4, <2>3 DEF one, more
<1>8. Blank # Newline
    BY DEF Blank, Newline
<1> HIDE DEF read, rests, text, n
<1>9. ASSUME display'.pc = "loop", display'.text = text, display'.index = NextIndex,
             display'.out = Folded(read), display'.lastWasSpace <=> LastIsSpace(read)
      PROVE  (ExactSoFar /\ DisplayIsExact)'
    <2>1. /\ Remainder(display'.text) = read \o Rests(display'.text)[display'.index]
          /\ display'.index \in 1..(Len(display'.text) + 1)
        BY <1>3, <1>7, <1>9 DEF rests, n
    <2>2. QED
        BY <1>5, <1>9, <2>1 DEF ExactSoFar, DisplayIsExact, Displayed
<1>10. ASSUME NEW rune \in Runes, NEW space \in BOOLEAN, Write(rune, space),
              Folded(read) = Append(display.out, rune), space <=> LastIsSpace(read)
       PROVE  (ExactSoFar /\ DisplayIsExact)'
    <2> DEFINE cut == ReachesLimit(Len(display.out) + 1)
    <2>1. cut \in BOOLEAN /\ (cut <=> (display.limit > 0 /\ Len(display.out) + 1 >= display.limit))
        BY DEF ReachesLimit
    <2>2. /\ display'.out = Append(display.out, rune) /\ display'.truncated = cut
          /\ display'.text = display.text /\ display'.limit = display.limit
          /\ display'.lastWasSpace = space /\ display'.pc = (IF cut THEN "end" ELSE "loop")
          /\ display'.index = (IF cut THEN display.index ELSE NextIndex)
        BY <1>1, <1>10 DEF Write, DisplayType
    <2> HIDE DEF cut
    <2>3. CASE ~ cut
        BY <1>9, <1>10, <2>2, <2>3 DEF text
    <2>4. CASE cut
        <3>1. display.out \in Seq(Runes)
            BY <1>4, <1>5, FoldedBegins, SeqMonotonic, <1>1 DEF Runes
        <3>2. Len(Append(display.out, rune)) = Len(display.out) + 1
            BY <1>10, <3>1, AppendProperties
        <3>3. display'.limit > 0 /\ Len(display'.out) = display'.limit /\ display'.truncated
            BY <1>1, <2>1, <2>2, <2>4, <3>2
        <3>4. Remainder(display'.text) = read \o rests[NextIndex] /\ display'.out = Folded(read)
            BY <1>7, <1>10, <2>2 DEF text
        <3>5. display'.pc = "end"
            BY <2>2, <2>4
        <3>6. QED
            BY <1>5, <1>6, <3>3, <3>4, <3>5 DEF ExactSoFar, DisplayIsExact, Displayed
    <2>5. QED
        BY <2>1, <2>3, <2>4
<1>11. CASE Rune = Newline /\ display.lastWasSpace /\ Skip
    <2>1. /\ display'.pc = "loop" /\ display'.text = text /\ display'.index = NextIndex
          /\ display'.out = display.out /\ display'.lastWasSpace = display.lastWasSpace
        BY <1>1, <1>11 DEF Skip, DisplayType, text
    <2>2. LastIsSpace(read) /\ display'.lastWasSpace
        BY <1>5, <1>11, <2>1
    <2>3. display'.out = Folded(read)
        BY <1>5, <1>11, <2>1
    <2>4. QED
        BY <1>9, <2>1, <2>2, <2>3
<1>12. CASE Rune = Newline /\ ~ display.lastWasSpace /\ Write(Blank, TRUE)
    <2>1. Blank \in Runes
        BY Zenon DEF Blank, Runes, Visible
    <2>2. Folded(read) = Append(display.out, Blank) /\ (TRUE <=> LastIsSpace(read))
        BY <1>5, <1>12
    <2>3. Write(Blank, TRUE)
        BY <1>12
    <2>4. QED
        BY <1>10, <2>1, <2>2, <2>3
<1>13. CASE Rune # Newline /\ Write(Rune, Rune = Blank)
    <2>1. Folded(read) = Append(display.out, Rune) /\ ((Rune = Blank) <=> LastIsSpace(read))
        BY <1>5, <1>13
    <2>2. Write(Rune, Rune = Blank) /\ (Rune = Blank) \in BOOLEAN
        BY <1>13
    <2>3. QED
        BY <1>3, <1>10, <2>1, <2>2
<1>14. QED
    BY <1>11, <1>12, <1>13

\* What is folded in the end is all of the remainder, or as much as the limit allows.
LEMMA FinishExact ==
    ASSUME ExactInv, FinishDisplay
    PROVE  (ExactSoFar /\ DisplayIsExact)'
<1> DEFINE text == display.text
           whole == Folded(Remainder(text))
           limit == display.limit
<1>1. /\ display \in DisplayType /\ text \in Seq(Bytes) /\ Len(text) \in Nat /\ limit \in Nat
      /\ display.out \in Seq(Visible) /\ Len(display.out) \in Nat
    BY LenProperties DEF ExactInv, DisplayInv, OutIsPlain, DisplayType, FinishDisplay
<1>2. /\ display'.pc = "done" /\ display'.text = text /\ display'.limit = limit
      /\ display'.out = IF display.truncated THEN Append(display.out, Mark) ELSE display.out
    BY <1>1 DEF FinishDisplay, DisplayType
<1>3. ASSUME display'.out = IF limit > 0 /\ Len(whole) >= limit
                            THEN Append(SubSeq(whole, 1, limit), Mark) ELSE whole
      PROVE  (ExactSoFar /\ DisplayIsExact)'
    BY <1>2, <1>3 DEF ExactSoFar, DisplayIsExact
<1>4. CASE display.pc = "loop"
    <2>1. PICK done \in Seq(Runes) :
            /\ Remainder(text) = done \o Rests(text)[display.index]
            /\ display.out = Folded(done)
        BY <1>4 DEF ExactInv, ExactSoFar
    <2>2. display.index = Len(text) + 1
        <3>1. display.index \in 1..(Len(text) + 1) /\ ~ (display.index <= Len(text))
            BY <1>4 DEF ExactInv, ExactSoFar, FinishDisplay, Looping
        <3>2. QED
            BY <1>1, <3>1
    <2>3. Rests(text)[display.index] = <<>>
        <3>1. Len(text) + 1 \in 1..(Len(text) + 2) /\ Len(text) + 1 > Len(text)
            BY <1>1
        <3>2. QED
            BY <1>1, <2>2, <3>1, RestsRemain, RestCases
    <2>4. display.out = whole
        BY <2>1, <2>3, ConcatEmptySeq
    <2>5. ~ display.truncated /\ (limit > 0 => Len(display.out) < limit)
        BY <1>1, <1>4 DEF ExactInv, DisplayInv, OutIsPlain
    <2> HIDE DEF whole, limit
    <2>6. ~ (limit > 0 /\ Len(whole) >= limit)
        BY <1>1, <2>4, <2>5
    <2>7. QED
        BY <1>2, <1>3, <2>4, <2>5, <2>6
<1>5. CASE display.pc = "end"
    <2>1. PICK done, more \in Seq(Runes) :
            Remainder(text) = done \o more /\ display.out = Folded(done)
        BY <1>5 DEF ExactInv, ExactSoFar
    <2>2. display.truncated /\ limit > 0 /\ Len(display.out) = limit
        BY <1>5 DEF ExactInv, ExactSoFar
    <2>3. IsBeginning(display.out, whole) /\ whole \in Seq(Runes) /\ display.out \in Seq(Runes)
        <3>1. done \o more \in Seq(Runes)
            BY ConcatProperties
        <3>2. QED
            BY <2>1, <3>1, FoldedBegins
    <2>4. Len(whole) \in Nat
        BY <2>3, LenProperties
    <2> HIDE DEF whole, limit
    <2>5. Len(whole) >= limit /\ \A i \in 1..limit : whole[i] = display.out[i]
        BY <1>1, <2>2, <2>3, <2>4 DEF IsBeginning
    <2>6. SubSeq(whole, 1, limit) = display.out
        <3> DEFINE part == SubSeq(whole, 1, limit)
        <3>1. \A i \in 1..limit : whole[i] \in Runes
            BY <1>1, <2>3, <2>4, <2>5, ElementOfSeq
        <3>2. /\ part \in Seq(Runes) /\ Len(part) = (IF 1 <= limit THEN limit - 1 + 1 ELSE 0)
              /\ \A i \in 1..(limit - 1 + 1) : part[i] = whole[1 + i - 1]
            BY <1>1, <3>1, SubSeqProperties
        <3> HIDE DEF part
        <3>3. Len(part) = Len(display.out) /\ \A i \in 1..Len(part) : part[i] = display.out[i]
            BY <1>1, <2>2, <2>5, <3>2
        <3>4. part = display.out
            BY <2>3, <3>2, <3>3, SeqEqual
        <3>5. QED
            BY <3>4 DEF part
    <2>7. QED
        BY <1>2, <1>3, <2>2, <2>5, <2>6
<1>6. QED
    BY <1>1, <1>4, <1>5 DEF FinishDisplay, DisplayType

\* One case for each turn of the loop.
LEMMA NextExact == ExactInv /\ [DisplayNext]_display => ExactInv'
<1> SUFFICES ASSUME ExactInv, [DisplayNext]_display PROVE ExactInv'
    OBVIOUS
<1>1. DisplayInv' /\ display \in DisplayType
    BY NextInv DEF ExactInv, DisplayInv
<1>2. SUFFICES (ExactSoFar /\ DisplayIsExact)'
    BY <1>1 DEF ExactInv
<1> DEFINE text == display.text
<1>3. ASSUME Looping
      PROVE  /\ text \in Seq(Bytes) /\ display.index \in 1..Len(text)
             /\ RuneAt(text, display.index) = Rune
             /\ display.index + RuneSize(text, display.index) = NextIndex
    BY <1>1, <1>3, LenProperties DEF Looping, DisplayType, Rune, NextIndex
<1>4. CASE SkipSequence
    <2>1. Looping /\ Rune = Escape /\ display' = [display EXCEPT !.index = AfterSequence(text, display.index)]
        BY <1>4 DEF SkipSequence, Escape
    <2>2. /\ AfterSequence(text, display.index) \in 1..(Len(text) + 1)
          /\ Rests(text)[display.index] = Rests(text)[AfterSequence(text, display.index)]
        BY <1>3, <2>1, RestAt
    <2>3. QED
        BY <2>1, <2>2, SkipExact
<1>5. CASE SkipControl
    <2>1. Looping /\ Rune \in Ignored /\ display' = [display EXCEPT !.index = NextIndex]
        BY <1>5 DEF SkipControl, Skip
    <2>2. /\ NextIndex \in 1..(Len(text) + 1)
          /\ Rests(text)[display.index] = Rests(text)[NextIndex]
        <3> DEFINE i == display.index
        <3>1. text \in Seq(Bytes) /\ i \in 1..Len(text) /\ RuneAt(text, i) \in Ignored
            BY <1>3, <2>1
        <3>2. i + RuneSize(text, i) = NextIndex
            BY <1>3, <2>1
        <3> HIDE DEF i, text
        <3>3. /\ i + RuneSize(text, i) \in 1..(Len(text) + 1)
              /\ Rests(text)[i] = Rests(text)[i + RuneSize(text, i)]
            BY <3>1, RestAt, Zenon
        <3>4. QED
            BY <3>2, <3>3 DEF i
    <2>3. QED
        BY <2>1, <2>2, SkipExact
<1>6. CASE EndLine
    <2>1. Looping /\ Rune = Newline
          /\ (IF display.lastWasSpace THEN Skip ELSE Write(Blank, TRUE))
        BY <1>6, Zenon DEF EndLine, Newline, Blank
    <2>2. Newline \notin Ignored \cup {Escape}
        BY DEF Newline, Ignored, Escape, Control
    <2>3. QED
        BY <2>1, <2>2, ReadExact
<1>7. CASE WriteRune
    <2>1. Looping /\ Rune \notin IsControl /\ Write(Rune, Rune = Blank)
        BY <1>7, Zenon DEF WriteRune, Blank
    <2>2. Newline \in IsControl /\ Escape \in IsControl /\ Ignored \subseteq IsControl
        BY DEF IsControl, Newline, Escape
    <2>3. Rune # Newline /\ Rune \notin Ignored \cup {Escape}
        BY <2>1, <2>2
    <2>4. QED
        BY <2>1, <2>3, ReadExact
<1>8. CASE FinishDisplay
    BY <1>8, FinishExact
<1>9. CASE UNCHANGED display
    BY <1>9 DEF ExactInv, ExactSoFar, DisplayIsExact, Displayed
<1>10. QED
    BY <1>4, <1>5, <1>6, <1>7, <1>8, <1>9 DEF DisplayNext

\* Whatever the text and the limit, sanitizeDisplay returns the text without its
\* escape sequences and control characters and with its lines joined, or as much
\* of that as the limit allows and a mark.
THEOREM DisplaysExactly == DisplaySpec => []DisplayIsExact
<1>1. ExactInv => DisplayIsExact
    BY DEF ExactInv
<1>2. QED
    BY <1>1, InitExact, NextExact, PTL DEF DisplaySpec

Dash == "-"
Slash == "/"
Star == "*"
Semi == ";"
LineFeed == "\n"
Return == "cr"
SquareOpen == "["
SquareClose == "]"
LineComment == "--"
BlockComment == "/*"
Outside == "normal"

\* The first of some positions.
LEMMA FirstOfIs ==
    ASSUME NEW positions \in SUBSET Nat, NEW default \in Nat
    PROVE  /\ positions = {} => FirstOf(positions, default) = default
           /\ \A p \in positions : (\A q \in positions : p <= q) => FirstOf(positions, default) = p
           /\ positions # {} => /\ FirstOf(positions, default) \in positions
                                /\ \A q \in positions : FirstOf(positions, default) <= q
<1>1. FirstOf(positions, default) = First(positions, default)
    BY Zenon DEF FirstOf, First
<1>2. /\ positions = {} => First(positions, default) = default
      /\ \A p \in positions : (\A q \in positions : p <= q) => First(positions, default) = p
      /\ positions # {} => /\ First(positions, default) \in positions
                           /\ \A q \in positions : First(positions, default) <= q
    BY FirstIs
<1>3. QED
    BY <1>1, <1>2

-----------------------------------------------------------------------------
\* What ends a comment or a quotation, and where it ends when the scan is at the
\* i-th symbol inside it.
IsEnd(s, state, j) ==
    IF state = BlockComment THEN s[j - 1] = Star /\ s[j] = Slash
    ELSE IF state = LineComment THEN s[j] \in LineEnds
    ELSE s[j] = IF state = SquareOpen THEN SquareClose ELSE state

Lowest(state, i) == IF state = BlockComment THEN i + 1 ELSE i

EndOf(s, state, i) ==
    FirstOf({j \in Lowest(state, i)..Len(s) : IsEnd(s, state, j)}, Len(s))

\* The end stays where it is until the scan comes to it.
LEMMA EndStays ==
    ASSUME NEW s \in Seq(Symbols), NEW state, NEW i \in Nat \ {0}
    PROVE  /\ EndOf(s, state, i) = Len(s) \/ EndOf(s, state, i) \in Lowest(state, i)..Len(s)
           /\ i > Len(s) => EndOf(s, state, i) = Len(s)
           /\ Lowest(state, i) <= Len(s) /\ IsEnd(s, state, Lowest(state, i)) =>
                 EndOf(s, state, i) = Lowest(state, i)
           /\ i <= Len(s) /\ (Lowest(state, i) <= Len(s) => ~ IsEnd(s, state, Lowest(state, i))) =>
                 EndOf(s, state, i) = EndOf(s, state, i + 1)
<1> DEFINE n == Len(s)
           low == Lowest(state, i)
           Places(m) == {j \in m..n : IsEnd(s, state, j)}
<1>1. n \in Nat /\ low \in Nat /\ low >= i /\ Lowest(state, i + 1) = low + 1
    BY LenProperties DEF Lowest
<1>2. EndOf(s, state, i) = FirstOf(Places(low), n) /\ EndOf(s, state, i + 1) = FirstOf(Places(low + 1), n)
    BY <1>1 DEF EndOf
<1>3. \A m \in Nat : Places(m) \in SUBSET Nat /\ Places(m) \subseteq m..n
    BY <1>1
<1>4. low <= n /\ IsEnd(s, state, low) => low \in Places(low)
    BY <1>1
<1>5. (low <= n => ~ IsEnd(s, state, low)) => Places(low) = Places(low + 1)
    BY <1>1
<1>6. i > n => Places(low) = {}
    BY <1>1
<1>7. \A q \in Places(low) : low <= q
    BY <1>1
<1> HIDE DEF Places, low, n
<1>8. /\ Places(low) = {} => FirstOf(Places(low), n) = n
      /\ \A p \in Places(low) : (\A q \in Places(low) : p <= q) => FirstOf(Places(low), n) = p
      /\ Places(low) # {} => FirstOf(Places(low), n) \in Places(low)
    BY <1>1, <1>3, FirstOfIs
<1>9. FirstOf(Places(low), n) = n \/ FirstOf(Places(low), n) \in low..n
    BY <1>1, <1>3, <1>8
<1>10. QED
    BY <1>2, <1>4, <1>5, <1>6, <1>7, <1>8, <1>9 DEF n, low

LinePair == <<Dash, Dash>>
BlockPair == <<Slash, Star>>

\* Where the pieces end.
LEMMA PieceEnds ==
    ASSUME NEW s \in Seq(Symbols), NEW i \in 1..Len(s)
    PROVE  /\ PairAt(s, i) = LinePair => PieceEnd(s, i) = EndOf(s, LineComment, i + 2)
           /\ PairAt(s, i) = BlockPair => PieceEnd(s, i) = EndOf(s, BlockComment, i + 2)
           /\ PairAt(s, i) \notin {LinePair, BlockPair} =>
                 PieceEnd(s, i) = IF s[i] \in Quotes \cup {SquareOpen} THEN EndOf(s, s[i], i + 1) ELSE i
           /\ PieceEnd(s, i) \in i..Len(s)
<1> DEFINE n == Len(s)
<1>1. n \in Nat /\ i \in Nat /\ i >= 1 /\ i <= n /\ s[i] \in Symbols
    BY LenProperties, ElementOfSeq
<1>2. /\ LineComment # BlockComment /\ LineComment # SquareOpen /\ BlockComment # SquareOpen
      /\ LineComment \notin Quotes \cup {SquareOpen} /\ BlockComment \notin Quotes \cup {SquareOpen}
      /\ LinePair # BlockPair
    BY Zenon DEF LineComment, BlockComment, SquareOpen, Quotes, LinePair, BlockPair, Dash, Slash, Star
<1>3. \A t : t \in Quotes \cup {SquareOpen} => (t # LineComment /\ t # BlockComment)
    BY <1>2
<1> DEFINE closing == IF s[i] = SquareOpen THEN SquareClose ELSE s[i]
           line == {j \in (i + 2)..n : s[j] \in LineEnds}
           block == {j \in (i + 3)..n : s[j - 1] = Star /\ s[j] = Slash}
           quoted == {j \in (i + 1)..n : s[j] = closing}
<1>4. PieceEnd(s, i) = CASE PairAt(s, i) = LinePair -> FirstOf(line, n)
                         [] PairAt(s, i) = BlockPair -> FirstOf(block, n)
                         [] s[i] \in Quotes \cup {SquareOpen} -> FirstOf(quoted, n)
                         [] OTHER -> i
    BY Zenon DEF PieceEnd, LinePair, BlockPair, Dash, Slash, Star, SquareOpen, SquareClose
<1>5. line = {j \in Lowest(LineComment, i + 2)..n : IsEnd(s, LineComment, j)}
    BY <1>2 DEF Lowest, IsEnd
<1>6. block = {j \in Lowest(BlockComment, i + 2)..n : IsEnd(s, BlockComment, j)}
    BY <1>1, <1>2 DEF Lowest, IsEnd
<1>7. s[i] \in Quotes \cup {SquareOpen} =>
        quoted = {j \in Lowest(s[i], i + 1)..n : IsEnd(s, s[i], j)}
    BY <1>3 DEF Lowest, IsEnd
<1> HIDE DEF line, block, quoted
<1>8. /\ FirstOf(line, n) = EndOf(s, LineComment, i + 2)
      /\ FirstOf(block, n) = EndOf(s, BlockComment, i + 2)
      /\ s[i] \in Quotes \cup {SquareOpen} => FirstOf(quoted, n) = EndOf(s, s[i], i + 1)
    BY <1>5, <1>6, <1>7 DEF EndOf
<1>9. PairAt(s, i) \in {LinePair, BlockPair} => s[i] \notin Quotes \cup {SquareOpen}
    <2>1. PairAt(s, i)[1] = s[i] /\ LinePair[1] = Dash /\ BlockPair[1] = Slash
        BY DEF PairAt, LinePair, BlockPair
    <2>2. Dash \notin Quotes \cup {SquareOpen} /\ Slash \notin Quotes \cup {SquareOpen}
        BY Zenon DEF Dash, Slash, Quotes, SquareOpen
    <2> HIDE DEF LinePair, BlockPair
    <2>3. QED
        BY <2>1, <2>2
<1> HIDE DEF n
<1>10. /\ PairAt(s, i) = LinePair => PieceEnd(s, i) = EndOf(s, LineComment, i + 2)
       /\ PairAt(s, i) = BlockPair => PieceEnd(s, i) = EndOf(s, BlockComment, i + 2)
       /\ PairAt(s, i) \notin {LinePair, BlockPair} =>
             PieceEnd(s, i) = IF s[i] \in Quotes \cup {SquareOpen} THEN EndOf(s, s[i], i + 1) ELSE i
    BY <1>2, <1>4, <1>8, <1>9, Zenon
<1>11. \A state, m : m \in {i + 1, i + 2} => EndOf(s, state, m) \in i..n
    <2> TAKE state, m
    <2> HAVE m \in {i + 1, i + 2}
    <2>1. m \in Nat \ {0} /\ Lowest(state, m) \in Nat /\ Lowest(state, m) >= i
        BY <1>1 DEF Lowest
    <2>2. EndOf(s, state, m) = Len(s) \/ EndOf(s, state, m) \in Lowest(state, m)..Len(s)
        BY <2>1, EndStays
    <2>3. QED
        BY <1>1, <2>1, <2>2 DEF n
<1>12. PieceEnd(s, i) \in i..n
    BY <1>1, <1>10, <1>11
<1>13. QED
    BY <1>10, <1>12 DEF n

-----------------------------------------------------------------------------
\* The places where pieces begin, from a place on.
Starts(s) ==
    CHOOSE from : from = [i \in 1..(Len(s) + 1) |->
                            IF i > Len(s) THEN {} ELSE {i} \cup from[PieceEnd(s, i) + 1]]

\* From each piece the next begins.
LEMMA StartsGoOn ==
    ASSUME NEW s \in Seq(Symbols)
    PROVE  /\ Pieces(s) = Starts(s)[1]
           /\ Starts(s)[Len(s) + 1] = {}
           /\ \A i \in 1..Len(s) : Starts(s)[i] = {i} \cup Starts(s)[PieceEnd(s, i) + 1]
           /\ Pieces(s) \subseteq 1..Len(s)
           /\ \A i \in 1..(Len(s) + 1) : Starts(s)[i] \subseteq i..Len(s)
<1> DEFINE n == Len(s)
           N == n + 1
           D == 1..N
           V == SUBSET (1..n)
           Body(f, i) == IF i > n THEN {} ELSE {i} \cup f[PieceEnd(s, i) + 1]
           rank == [i \in D |-> N - i]
           Step == [z \in D \X [D -> V] |-> Body(z[2], z[1])]
           from == Starts(s)
<1>1. n \in Nat
    BY LenProperties
<1>2. ASSUME NEW i \in D, i <= n
      PROVE  PieceEnd(s, i) + 1 \in D /\ PieceEnd(s, i) + 1 > i
    <2>1. PieceEnd(s, i) \in i..n
        BY <1>1, <1>2, PieceEnds
    <2>2. QED
        BY <1>1, <2>1
<1>3. ASSUME NEW i \in D, NEW f \in [D -> V]
      PROVE  Body(f, i) \in V
    <2>1. CASE i > n
        BY <2>1
    <2>2. CASE i <= n
        <3>1. f[PieceEnd(s, i) + 1] \in V
            BY <1>2, <2>2
        <3>2. QED
            BY <1>1, <2>2, <3>1
    <2>3. QED
        BY <1>1, <2>1, <2>2
<1>4. ASSUME NEW i \in D, NEW f, NEW g, \A y \in D : y > i => f[y] = g[y]
      PROVE  Body(f, i) = Body(g, i)
    <2>1. CASE i > n
        BY <2>1
    <2>2. CASE i <= n
        <3>1. f[PieceEnd(s, i) + 1] = g[PieceEnd(s, i) + 1]
            <4>1. PieceEnd(s, i) + 1 \in D /\ PieceEnd(s, i) + 1 > i
                BY <1>2, <2>2
            <4> HIDE DEF D
            <4>2. QED
                BY <1>4, <4>1
        <3>2. QED
            BY <3>1
    <2>3. QED
        BY <1>1, <2>1, <2>2
<1>5. rank \in [D -> 0..N] /\ N \in Nat /\ \A i, y \in D : y > i => rank[y] < rank[i]
    BY <1>1
<1>6. V # {}
    OBVIOUS
<1>7. Pieces(s) = from[1]
    BY Zenon DEF Pieces, Starts
<1> HIDE DEF Body, V
<1>8. Step \in [D \X [D -> V] -> V]
    BY <1>3
<1>9. MadeOfLower(Step, D, V, rank)
    <2>1. ASSUME NEW i \in D, NEW f \in [D -> V], NEW g \in [D -> V],
                 \A y \in D : rank[y] < rank[i] => f[y] = g[y]
          PROVE  Body(f, i) = Body(g, i)
        <3> HIDE DEF D, rank
        <3>1. \A y \in D : y > i => f[y] = g[y]
            BY <1>5, <2>1
        <3>2. QED
            BY <1>4, <3>1
    <2>2. QED
        BY <2>1 DEF MadeOfLower
<1>10. PICK f \in [D -> V] : Solves(f, Step, D)
    <2> HIDE DEF D, rank, Step, N
    <2>1. QED
        BY <1>5, <1>6, <1>8, <1>9, RecursiveFunction, Zenon
<1>11. f = [i \in D |-> Body(f, i)]
    BY <1>10 DEF Solves
<1>12. from = [i \in D |-> Body(from, i)]
    BY <1>11, Zenon DEF Body, Starts
<1> HIDE DEF from
<1>13. \A i \in D : from[i] = Body(from, i)
    BY <1>12
<1>14. from[n + 1] = {} /\ \A i \in 1..n : from[i] = {i} \cup from[PieceEnd(s, i) + 1]
    <2>1. n + 1 \in D /\ n + 1 > n /\ \A i \in 1..n : i \in D /\ ~ (i > n)
        BY <1>1
    <2> HIDE DEF D
    <2>2. QED
        BY <1>13, <2>1 DEF Body
<1> DEFINE T == {d \in Nat : \A i \in D : N - i <= d => from[i] \subseteq i..n}
<1>15. T = Nat
    <2>1. ASSUME NEW i \in D, \A y \in D : y > i => from[y] \subseteq y..n
          PROVE  from[i] \subseteq i..n
        <3>1. CASE i > n
            BY <1>1, <1>14, <3>1
        <3>2. CASE i <= n
            <4>1. from[i] = {i} \cup from[PieceEnd(s, i) + 1]
                BY <1>1, <1>14, <3>2
            <4>2. from[PieceEnd(s, i) + 1] \subseteq (PieceEnd(s, i) + 1)..n
                BY <1>2, <2>1, <3>2
            <4>3. PieceEnd(s, i) + 1 \in Nat /\ PieceEnd(s, i) + 1 > i
                BY <1>2, <3>2
            <4>4. QED
                BY <1>1, <3>2, <4>1, <4>2, <4>3
        <3>3. QED
            BY <1>1, <3>1, <3>2
    <2>2. 0 \in T
        <3>1. ASSUME NEW i \in D, N - i <= 0
              PROVE  from[i] \subseteq i..n
            <4>1. \A y \in D : ~ (y > i)
                BY <1>1, <3>1
            <4> HIDE DEF D
            <4>2. QED
                BY <2>1, <4>1
        <3>2. QED
            BY <3>1
    <2>3. ASSUME NEW d \in T
          PROVE  d + 1 \in T
        <3>1. d \in Nat /\ \A i \in D : N - i <= d => from[i] \subseteq i..n
            OBVIOUS
        <3>2. ASSUME NEW i \in D, N - i <= d + 1
              PROVE  from[i] \subseteq i..n
            <4>1. \A y \in D : y > i => N - y <= d
                BY <1>1, <3>1, <3>2
            <4> HIDE DEF D
            <4>2. QED
                BY <2>1, <3>1, <4>1
        <3>3. QED
            BY <3>1, <3>2
    <2>4. T \in SUBSET Nat
        OBVIOUS
    <2> HIDE DEF T
    <2>5. QED
        BY <2>2, <2>3, <2>4, SetInduction
<1>16. \A i \in D : from[i] \subseteq i..n
    <2>1. N \in T
        BY <1>5, <1>15
    <2>2. \A i \in D : N - i <= N
        BY <1>1
    <2>3. QED
        BY <2>1, <2>2
<1>17. Pieces(s) \subseteq 1..n
    <2>1. 1 \in D
        BY <1>1
    <2>2. QED
        BY <1>7, <1>16, <2>1
<1>18. QED
    BY <1>7, <1>14, <1>16, <1>17 DEF from

-----------------------------------------------------------------------------
States == {Outside, LineComment, BlockComment, SquareOpen} \cup Quotes

Triggers == {"before", "create", "trigger", "temp", "or", "if", "not", "other"}
Answers == {"none", "ok", "empty", "several", "trigger"}

ScanType ==
    [statement : Seq(Symbols), index : Nat \ {0}, state : States, seenToken : BOOLEAN,
     trailingSemicolon : BOOLEAN, trigger : Triggers, token : Seq(Words), answer : Answers]

\* The pieces that are still to come.
Coming(s, state, i) ==
    IF state = Outside THEN Starts(s)[i] ELSE Starts(s)[EndOf(s, state, i) + 1]

IsToken(s, i) == s[i] \notin Spaces \cup {Semi} /\ PairAt(s, i) \notin {LinePair, BlockPair}

\* What the flags say of the pieces that have been read.
Judged(s, read, seen, trailing) ==
    /\ seen <=> \E i \in read : IsToken(s, i)
    /\ trailing <=> \E i \in read : s[i] = Semi
    /\ trailing => seen
    /\ \A i, j \in read : s[i] = Semi /\ s[j] = Semi => i = j
    /\ \A i, j \in read : IsToken(s, i) /\ s[j] = Semi => i < j

PiecesSoFar ==
    scan.answer = "none" =>
        /\ scan.index <= Len(scan.statement) + 1
        /\ scan.state \in Quotes \cup {SquareOpen} => scan.seenToken /\ ~ scan.trailingSemicolon
        /\ \E read \in SUBSET (1..(scan.index - 1)) :
              /\ Pieces(scan.statement) = read \cup Coming(scan.statement, scan.state, scan.index)
              /\ Judged(scan.statement, read, scan.seenToken, scan.trailingSemicolon)

ScanInv == scan \in ScanType /\ PiecesSoFar /\ OneStatementPasses

\* A turn of the loop within a comment or quotation, or that leaves it.
LEMMA NothingRead ==
    ASSUME ScanInv, scan.answer = "none", NEW state \in States, NEW i \in Nat,
           i > scan.index, i <= Len(scan.statement) + 1, state \in {scan.state, Outside},
           Coming(scan.statement, state, i) = Coming(scan.statement, scan.state, scan.index),
           scan' = [scan EXCEPT !.state = state, !.index = i]
    PROVE  ScanInv'
<1>1. scan \in ScanType
    BY DEF ScanInv
<1>2. /\ scan' \in ScanType /\ scan'.answer = "none" /\ scan'.statement = scan.statement
      /\ scan'.state = state /\ scan'.index = i /\ scan'.seenToken = scan.seenToken
      /\ scan'.trailingSemicolon = scan.trailingSemicolon
    <2>1. i \in Nat \ {0}
        BY <1>1 DEF ScanType
    <2>2. QED
        BY <1>1, <2>1 DEF ScanType
<1>3. PICK read \in SUBSET (1..(scan.index - 1)) :
        /\ Pieces(scan.statement) = read \cup Coming(scan.statement, scan.state, scan.index)
        /\ Judged(scan.statement, read, scan.seenToken, scan.trailingSemicolon)
    BY DEF ScanInv, PiecesSoFar
<1>4. read \in SUBSET (1..(i - 1))
    BY <1>1 DEF ScanType
<1>5. Outside \notin Quotes \cup {SquareOpen}
    BY Zenon DEF Outside, Quotes, SquareOpen
<1>6. scan'.state \in Quotes \cup {SquareOpen} => scan'.seenToken /\ ~ scan'.trailingSemicolon
    BY <1>2, <1>5 DEF ScanInv, PiecesSoFar
<1>7. PiecesSoFar'
    BY <1>2, <1>3, <1>4, <1>6 DEF PiecesSoFar
<1>8. OneStatementPasses'
    BY <1>2 DEF OneStatementPasses
<1>9. QED
    BY <1>2, <1>7, <1>8 DEF ScanInv

\* A piece more has been read: a token, the first semicolon, or neither.
LEMMA JudgedNext ==
    ASSUME NEW s \in Seq(Symbols), NEW i \in 1..Len(s), NEW read \in SUBSET (1..(i - 1)),
           NEW seen \in BOOLEAN, NEW trailing \in BOOLEAN, Judged(s, read, seen, trailing)
    PROVE  /\ IsToken(s, i) /\ ~ trailing => Judged(s, read \cup {i}, TRUE, FALSE)
           /\ s[i] = Semi /\ seen /\ ~ trailing => Judged(s, read \cup {i}, TRUE, TRUE)
           /\ ~ IsToken(s, i) /\ s[i] # Semi => Judged(s, read \cup {i}, seen, trailing)
<1>1. IsToken(s, i) => s[i] # Semi
    BY DEF IsToken
<1>2. \A j \in read : j < i /\ j \in Nat
    BY LenProperties
<1>3. IsToken(s, i) /\ ~ trailing => Judged(s, read \cup {i}, TRUE, FALSE)
    BY <1>1 DEF Judged
<1>4. s[i] = Semi /\ seen /\ ~ trailing => Judged(s, read \cup {i}, TRUE, TRUE)
    BY <1>1, <1>2 DEF Judged
<1>5. ~ IsToken(s, i) /\ s[i] # Semi => Judged(s, read \cup {i}, seen, trailing)
    BY DEF Judged
<1>6. QED
    BY <1>3, <1>4, <1>5

\* The scan has read a piece and goes on.
LEMMA PieceRead ==
    ASSUME ScanInv, Scanning, NEW p \in scan.index..Len(scan.statement),
           scan' \in ScanType, scan'.answer = "none", scan'.statement = scan.statement,
           p < scan'.index, scan'.index <= Len(scan.statement) + 1,
           Coming(scan.statement, scan.state, scan.index)
              = {p} \cup Coming(scan.statement, scan'.state, scan'.index),
           scan'.state \in Quotes \cup {SquareOpen} => scan'.seenToken /\ ~ scan'.trailingSemicolon,
           \/ /\ IsToken(scan.statement, p) /\ ~ scan.trailingSemicolon
              /\ scan'.seenToken /\ ~ scan'.trailingSemicolon
           \/ /\ scan.statement[p] = Semi /\ scan.seenToken /\ ~ scan.trailingSemicolon
              /\ scan'.seenToken /\ scan'.trailingSemicolon
           \/ /\ ~ IsToken(scan.statement, p) /\ scan.statement[p] # Semi
              /\ scan'.seenToken = scan.seenToken
              /\ scan'.trailingSemicolon = scan.trailingSemicolon
    PROVE  ScanInv'
<1> DEFINE s == scan.statement
           i == scan.index
<1>1. /\ scan \in ScanType /\ scan.answer = "none" /\ s \in Seq(Symbols) /\ Len(s) \in Nat /\ i \in Nat \ {0}
      /\ scan.seenToken \in BOOLEAN /\ scan.trailingSemicolon \in BOOLEAN
      /\ scan'.seenToken \in BOOLEAN /\ scan'.trailingSemicolon \in BOOLEAN /\ scan'.index \in Nat
    BY LenProperties DEF ScanInv, Scanning, ScanType
<1>2. PICK read \in SUBSET (1..(i - 1)) :
        /\ Pieces(s) = read \cup Coming(s, scan.state, i)
        /\ Judged(s, read, scan.seenToken, scan.trailingSemicolon)
    BY <1>1 DEF ScanInv, PiecesSoFar
<1>3. p \in 1..Len(s) /\ read \in SUBSET (1..(p - 1)) /\ read \cup {p} \in SUBSET (1..(scan'.index - 1))
    BY <1>1
<1>4. Pieces(s) = (read \cup {p}) \cup Coming(s, scan'.state, scan'.index)
    BY <1>2
<1>5. Judged(s, read \cup {p}, scan'.seenToken, scan'.trailingSemicolon)
    <2> HIDE DEF s, i
    <2>1. /\ IsToken(s, p) /\ ~ scan.trailingSemicolon => Judged(s, read \cup {p}, TRUE, FALSE)
          /\ s[p] = Semi /\ scan.seenToken /\ ~ scan.trailingSemicolon =>
                Judged(s, read \cup {p}, TRUE, TRUE)
          /\ ~ IsToken(s, p) /\ s[p] # Semi =>
                Judged(s, read \cup {p}, scan.seenToken, scan.trailingSemicolon)
        BY <1>1, <1>2, <1>3, JudgedNext
    <2>2. QED
        BY <1>1, <2>1 DEF s
<1>6. PiecesSoFar'
    BY <1>3, <1>4, <1>5 DEF PiecesSoFar
<1>7. OneStatementPasses'
    BY DEF OneStatementPasses
<1>8. QED
    BY <1>6, <1>7 DEF ScanInv

\* Where words lead stays one of the places they lead to.
LEMMA FollowType ==
    ASSUME scan \in ScanType
    PROVE  Consumed \in Triggers
<1>1. \A trigger \in Triggers : \A word : Follow(trigger, word) \in Triggers
    BY DEF Follow, Triggers
<1>2. QED
    BY <1>1 DEF Consumed, ScanType

\* The end of a word refuses a trigger, or changes nothing but what it is about.
LEMMA ConsumeKeeps ==
    ASSUME scan \in ScanType, NEW new \in ScanType, Consume(new)
    PROVE  /\ scan' \in ScanType
           /\ \/ scan'.answer = "trigger"
              \/ /\ scan'.statement = new.statement /\ scan'.index = new.index
                 /\ scan'.state = new.state /\ scan'.seenToken = new.seenToken
                 /\ scan'.trailingSemicolon = new.trailingSemicolon /\ scan'.answer = new.answer
<1>1. Consumed \in Triggers /\ "trigger" \in Answers
    BY FollowType DEF Answers
<1>2. CASE Consumed = "trigger"
    <2>1. scan' = [scan EXCEPT !.answer = "trigger"]
        BY <1>2 DEF Consume, Refused
    <2>2. QED
        BY <1>1, <2>1 DEF ScanType
<1>3. CASE Consumed # "trigger"
    <2>1. scan' = [new EXCEPT !.token = <<>>, !.trigger = Consumed]
        BY <1>3 DEF Consume
    <2>2. <<>> \in Seq(Words)
        OBVIOUS
    <2>3. QED
        BY <1>1, <2>1, <2>2 DEF ScanType
<1>4. QED
    BY <1>2, <1>3

\* A refused trigger is nothing this is about.
LEMMA TriggerAnswered ==
    ASSUME scan' \in ScanType, scan'.answer = "trigger"
    PROVE  ScanInv'
    BY DEF ScanInv, PiecesSoFar, OneStatementPasses

-----------------------------------------------------------------------------
\* The scan inside a comment or quotation.
LEMMA InsideKeeps ==
    ASSUME ScanInv, InLineComment \/ InBlockComment \/ InQuote \/ InBracket
    PROVE  ScanInv'
<1> DEFINE s == scan.statement
           i == scan.index
           n == Len(s)
           state == scan.state
           end == EndOf(s, state, i)
<1>1. /\ scan \in ScanType /\ scan.answer = "none" /\ s \in Seq(Symbols) /\ n \in Nat /\ i \in Nat \ {0}
      /\ i <= n /\ state \in States /\ s[i] = Current /\ s[i] \in Symbols
    <2>1. scan \in ScanType /\ Scanning
        BY DEF ScanInv, InLineComment, InBlockComment, InQuote, InBracket, Inside
    <2>2. s \in Seq(Symbols) /\ i \in Nat \ {0} /\ state \in States
        BY <2>1 DEF ScanType
    <2>3. QED
        BY <2>1, <2>2, LenProperties, ElementOfSeq DEF Scanning, Current
<1>2. state # Outside /\ Outside \in States
    BY Zenon DEF InLineComment, InBlockComment, InQuote, InBracket, Inside, Outside, Quotes, States
<1>3. /\ end = n \/ end \in Lowest(state, i)..n
      /\ Lowest(state, i) <= n /\ IsEnd(s, state, Lowest(state, i)) => end = Lowest(state, i)
      /\ (Lowest(state, i) <= n => ~ IsEnd(s, state, Lowest(state, i))) => end = EndOf(s, state, i + 1)
    <2> HIDE DEF s, n, state
    <2>1. QED
        BY <1>1, EndStays DEF n
<1>4. ASSUME Lowest(state, i) <= n => ~ IsEnd(s, state, Lowest(state, i)), Stay(1)
      PROVE  ScanInv'
    <2>1. Coming(s, state, i + 1) = Coming(s, state, i)
        BY <1>2, <1>3, <1>4 DEF Coming
    <2>2. scan' = [scan EXCEPT !.state = state, !.index = i + 1]
        BY <1>1, <1>4 DEF Stay, ScanType
    <2>3. i + 1 \in Nat /\ i + 1 > scan.index /\ i + 1 <= Len(scan.statement) + 1
        BY <1>1
    <2>4. QED
        BY <1>1, <2>1, <2>2, <2>3, NothingRead
<1>5. ASSUME Lowest(state, i) <= n, IsEnd(s, state, Lowest(state, i)), NEW length \in {1, 2},
             i + length = Lowest(state, i) + 1, Leave(length)
      PROVE  ScanInv'
    <2>1. end + 1 = i + length
        BY <1>3, <1>5
    <2>2. Coming(s, Outside, i + length) = Coming(s, state, i)
        BY <1>2, <2>1 DEF Coming
    <2>3. scan' = [scan EXCEPT !.state = Outside, !.index = i + length]
        BY <1>5 DEF Leave, Outside
    <2>4. i + length \in Nat /\ i + length > scan.index /\ i + length <= Len(scan.statement) + 1
        <3>1. Lowest(state, i) \in Nat
            BY <1>1 DEF Lowest
        <3> HIDE DEF state
        <3>2. QED
            BY ONLY <1>1, <1>5, <3>1 DEF n, s, i
    <2>5. QED
        BY <1>1, <1>2, <2>2, <2>3, <2>4, NothingRead
<1>6. CASE InLineComment
    <2>1. state = LineComment /\ Lowest(state, i) = i
          /\ (IF Current \in LineEnds THEN Leave(1) ELSE Stay(1))
        BY <1>6, Zenon DEF InLineComment, Inside, LineComment, BlockComment, Lowest
    <2>2. LineComment # BlockComment
        BY Zenon DEF LineComment, BlockComment
    <2>3. IsEnd(s, state, i) <=> Current \in LineEnds
        BY <1>1, <2>1, <2>2 DEF IsEnd
    <2>4. QED
        BY <1>1, <1>4, <1>5, <2>1, <2>3
<1>7. CASE InBlockComment
    <2>1. state = BlockComment /\ Lowest(state, i) = i + 1
          /\ (IF Pair = <<Star, Slash>> THEN Leave(2) ELSE Stay(1))
        BY <1>7, Zenon DEF InBlockComment, Inside, BlockComment, Star, Slash, Lowest
    <2>2. Pair = <<Star, Slash>> <=> (i + 1 <= n /\ s[i] = Star /\ s[i + 1] = Slash)
        <3>1. Pair = <<s[i], IF i < n THEN s[i + 1] ELSE "">>
            BY DEF Pair, PairAt
        <3>2. Slash # ""
            BY Zenon DEF Slash
        <3>3. i < n <=> i + 1 <= n
            BY <1>1
        <3>4. QED
            BY <3>1, <3>2, <3>3
    <2>3. IsEnd(s, state, i + 1) <=> (s[i] = Star /\ s[i + 1] = Slash)
        <3>1. (i + 1) - 1 = i
            BY <1>1
        <3>2. QED
            BY <2>1, <3>1 DEF IsEnd
    <2>4. i + 2 = (i + 1) + 1
        BY <1>1
    <2>5. QED
        BY <1>4, <1>5, <2>1, <2>2, <2>3, <2>4
<1>8. CASE InBracket
    <2>1. state = SquareOpen /\ (IF Current = SquareClose THEN Leave(1) ELSE Stay(1))
        BY <1>8, Zenon DEF InBracket, Inside, SquareOpen, SquareClose
    <2>2. SquareOpen # LineComment /\ SquareOpen # BlockComment
        BY Zenon DEF SquareOpen, LineComment, BlockComment
    <2>3. Lowest(state, i) = i /\ (IsEnd(s, state, i) <=> Current = SquareClose)
        BY <1>1, <2>1, <2>2 DEF IsEnd, Lowest
    <2>4. QED
        BY <1>1, <1>4, <1>5, <2>1, <2>3
<1>9. CASE InQuote
    <2>1. /\ state \in Quotes /\ Scanning
          /\ IF Current # state THEN Stay(1) ELSE IF Pair[2] = state THEN Stay(2) ELSE Leave(1)
        BY <1>9 DEF InQuote, Inside
    <2>2. \A quote \in Quotes : /\ quote # LineComment /\ quote # BlockComment /\ quote # SquareOpen
                                /\ quote # "" /\ quote \notin Spaces \cup {Semi}
                                /\ quote # Dash /\ quote # Slash
        BY Zenon DEF Quotes, LineComment, BlockComment, SquareOpen, Spaces, LineEnds, Semi, Dash, Slash
    <2>3. Lowest(state, i) = i /\ \A j : IsEnd(s, state, j) <=> s[j] = state
        BY <2>1, <2>2 DEF IsEnd, Lowest
    <2>4. Pair[2] = IF i < n THEN s[i + 1] ELSE ""
        BY DEF Pair, PairAt
    <2>5. CASE Current # state
        BY <1>1, <1>4, <2>1, <2>3, <2>5
    <2>6. CASE Current = state /\ Pair[2] # state
        BY <1>1, <1>5, <2>1, <2>3, <2>6
    <2>7. CASE Current = state /\ Pair[2] = state
        <3>1. i + 1 \in i..n /\ s[i + 1] = state /\ Stay(2)
            <4>1. Pair[2] # ""
                BY <2>1, <2>2, <2>7
            <4>2. i < n /\ s[i + 1] = state
                BY <2>4, <2>7, <4>1
            <4>3. Stay(2)
                BY <2>1, <2>7
            <4>4. QED
                BY <1>1, <4>2, <4>3
        <3>2. end = i
            BY <1>1, <1>3, <2>3, <2>7
        <3>3. PairAt(s, i + 1) \notin {LinePair, BlockPair}
            <4>1. PairAt(s, i + 1)[1] = state /\ LinePair[1] = Dash /\ BlockPair[1] = Slash
                BY <3>1 DEF PairAt, LinePair, BlockPair
            <4> HIDE DEF LinePair, BlockPair
            <4>2. QED
                BY <2>1, <2>2, <4>1
        <3>4. IsToken(s, i + 1)
            BY <2>1, <2>2, <3>1, <3>3 DEF IsToken
        <3>5. PieceEnd(s, i + 1) = EndOf(s, state, i + 2)
            <4>1. i + 1 \in 1..n /\ (i + 1) + 1 = i + 2
                BY <1>1, <3>1
            <4>2. PieceEnd(s, i + 1) = EndOf(s, s[i + 1], (i + 1) + 1)
                BY <1>1, <2>1, <3>1, <3>3, <4>1, PieceEnds
            <4>3. QED
                BY <3>1, <4>1, <4>2
        <3>6. Coming(s, state, i) = {i + 1} \cup Coming(s, state, i + 2)
            <4>1. i + 1 \in 1..n
                BY <1>1, <3>1
            <4>2. Starts(s)[i + 1] = {i + 1} \cup Starts(s)[PieceEnd(s, i + 1) + 1]
                BY <1>1, <4>1, StartsGoOn
            <4>3. QED
                BY <1>2, <3>2, <3>5, <4>2 DEF Coming
        <3>7. /\ scan' \in ScanType /\ scan'.answer = "none" /\ scan'.statement = s
              /\ scan'.index = i + 2 /\ scan'.state = state
              /\ scan'.seenToken = scan.seenToken /\ scan'.trailingSemicolon = scan.trailingSemicolon
            BY <1>1, <3>1 DEF Stay, ScanType
        <3>8. scan.seenToken /\ ~ scan.trailingSemicolon
            BY <1>1, <2>1 DEF ScanInv, PiecesSoFar
        <3>9. i + 1 < scan'.index /\ scan'.index <= n + 1
            BY <1>1, <3>1, <3>7
        <3>10. QED
            BY <2>1, <3>1, <3>4, <3>6, <3>7, <3>8, <3>9, PieceRead
    <2>8. QED
        BY <2>5, <2>6, <2>7
<1>10. QED
    BY <1>6, <1>7, <1>8, <1>9

-----------------------------------------------------------------------------
\* The scan reads a symbol outside: a piece begins here.
LEMMA OutsideType ==
    ASSUME ScanInv, Normal
    PROVE  /\ scan \in ScanType /\ scan.answer = "none" /\ scan.state = Outside
           /\ scan.statement \in Seq(Symbols) /\ Len(scan.statement) \in Nat
           /\ scan.index \in 1..Len(scan.statement)
           /\ Current = scan.statement[scan.index] /\ Pair = PairAt(scan.statement, scan.index)
           /\ Coming(scan.statement, Outside, scan.index)
                = {scan.index} \cup Starts(scan.statement)[PieceEnd(scan.statement, scan.index) + 1]
<1>1. scan \in ScanType /\ Scanning /\ scan.state = Outside
    BY Zenon DEF ScanInv, Normal, Inside, Outside
<1>2. scan.statement \in Seq(Symbols) /\ scan.index \in Nat \ {0} /\ Len(scan.statement) \in Nat
    BY <1>1, LenProperties DEF ScanType
<1>3. scan.index \in 1..Len(scan.statement) /\ scan.answer = "none"
    BY <1>1, <1>2 DEF Scanning
<1>4. Starts(scan.statement)[scan.index]
        = {scan.index} \cup Starts(scan.statement)[PieceEnd(scan.statement, scan.index) + 1]
    BY <1>2, <1>3, StartsGoOn
<1>5. QED
    BY <1>1, <1>2, <1>3, <1>4 DEF Coming, Current, Pair

\* A piece has been read, and a word may have ended before it.
LEMMA ConsumePiece ==
    ASSUME ScanInv, Normal, NEW state \in States, NEW length \in {1, 2},
           NEW seen \in BOOLEAN, NEW trailing \in BOOLEAN,
           Consume([scan EXCEPT !.state = state, !.index = @ + length, !.seenToken = seen,
                                !.trailingSemicolon = trailing]),
           scan.index + length <= Len(scan.statement) + 1,
           Coming(scan.statement, Outside, scan.index)
              = {scan.index} \cup Coming(scan.statement, state, scan.index + length),
           state \in Quotes \cup {SquareOpen} => seen /\ ~ trailing,
           \/ IsToken(scan.statement, scan.index) /\ ~ scan.trailingSemicolon /\ seen /\ ~ trailing
           \/ Current = Semi /\ scan.seenToken /\ ~ scan.trailingSemicolon /\ seen /\ trailing
           \/ /\ ~ IsToken(scan.statement, scan.index) /\ Current # Semi
              /\ seen = scan.seenToken /\ trailing = scan.trailingSemicolon
    PROVE  ScanInv'
<1> DEFINE new == [scan EXCEPT !.state = state, !.index = @ + length, !.seenToken = seen,
                               !.trailingSemicolon = trailing]
<1>1. /\ scan \in ScanType /\ scan.answer = "none" /\ scan.index \in 1..Len(scan.statement)
      /\ Len(scan.statement) \in Nat /\ scan.state = Outside
      /\ Current = scan.statement[scan.index]
    BY OutsideType
<1>2. /\ new \in ScanType /\ new.statement = scan.statement /\ new.index = scan.index + length
      /\ new.state = state /\ new.seenToken = seen /\ new.trailingSemicolon = trailing
      /\ new.answer = "none"
    <2>1. scan.index + length \in Nat \ {0}
        BY <1>1
    <2>2. QED
        BY <1>1, <2>1 DEF ScanType
<1>3. Consume(new)
    OBVIOUS
<1> HIDE DEF new
<1>4. /\ scan' \in ScanType
      /\ \/ scan'.answer = "trigger"
         \/ /\ scan'.statement = new.statement /\ scan'.index = new.index
            /\ scan'.state = new.state /\ scan'.seenToken = new.seenToken
            /\ scan'.trailingSemicolon = new.trailingSemicolon /\ scan'.answer = new.answer
    BY <1>1, <1>2, <1>3, ConsumeKeeps
<1>5. CASE scan'.answer = "trigger"
    BY <1>4, <1>5, TriggerAnswered
<1>6. CASE scan'.answer # "trigger"
    <2>1. /\ scan'.statement = scan.statement /\ scan'.index = scan.index + length
          /\ scan'.state = state /\ scan'.seenToken = seen /\ scan'.trailingSemicolon = trailing
          /\ scan'.answer = "none"
        BY <1>2, <1>4, <1>6
    <2>2. scan.index \in scan.index..Len(scan.statement) /\ scan.index < scan'.index
        BY <1>1, <2>1
    <2>3. Scanning
        BY DEF Normal, Inside
    <2>4. \/ /\ IsToken(scan.statement, scan.index) /\ ~ scan.trailingSemicolon
             /\ scan'.seenToken /\ ~ scan'.trailingSemicolon
          \/ /\ scan.statement[scan.index] = Semi /\ scan.seenToken /\ ~ scan.trailingSemicolon
             /\ scan'.seenToken /\ scan'.trailingSemicolon
          \/ /\ ~ IsToken(scan.statement, scan.index) /\ scan.statement[scan.index] # Semi
             /\ scan'.seenToken = scan.seenToken
             /\ scan'.trailingSemicolon = scan.trailingSemicolon
        BY <1>1, <2>1
    <2>5. Coming(scan.statement, scan.state, scan.index)
            = {scan.index} \cup Coming(scan.statement, scan'.state, scan'.index)
        BY <1>1, <2>1
    <2>6. /\ scan'.index <= Len(scan.statement) + 1
          /\ scan'.state \in Quotes \cup {SquareOpen} => scan'.seenToken /\ ~ scan'.trailingSemicolon
        BY <2>1
    <2>7. QED
        BY <1>4, <2>1, <2>2, <2>3, <2>4, <2>5, <2>6, PieceRead
<1>7. QED
    BY <1>5, <1>6

\* The signs are told apart.
LEMMA SignsDiffer ==
    /\ Outside \notin Quotes \cup {SquareOpen} /\ Outside \in States
    /\ LineComment \notin Quotes \cup {SquareOpen} /\ LineComment \in States /\ LineComment # Outside
    /\ BlockComment \notin Quotes \cup {SquareOpen} /\ BlockComment \in States /\ BlockComment # Outside
    /\ Semi \notin Quotes \cup {SquareOpen} \cup Spaces \cup Words /\ Semi \notin {Dash, Slash}
    /\ Dash \notin Quotes \cup {SquareOpen} \cup Spaces \cup Words
    /\ Slash \notin Quotes \cup {SquareOpen} \cup Spaces \cup Words /\ Dash # Slash
    /\ \A space \in Spaces : space \notin Quotes \cup {SquareOpen}
    /\ \A word \in Words : word \notin Quotes \cup {SquareOpen} \cup Spaces
<1>1. /\ Outside \notin Quotes \cup {SquareOpen} /\ Outside \in States
      /\ LineComment \notin Quotes \cup {SquareOpen} /\ LineComment \in States /\ LineComment # Outside
      /\ BlockComment \notin Quotes \cup {SquareOpen} /\ BlockComment \in States /\ BlockComment # Outside
    BY Zenon DEF Outside, LineComment, BlockComment, SquareOpen, Quotes, States
<1>2. Semi \notin Quotes \cup {SquareOpen} \cup Spaces \cup Words /\ Semi \notin {Dash, Slash}
    BY Zenon DEF Semi, Dash, Slash, SquareOpen, Quotes, Spaces, LineEnds, Words, RowWords, WriteWords
<1>3. /\ Dash \notin Quotes \cup {SquareOpen} \cup Spaces \cup Words
      /\ Slash \notin Quotes \cup {SquareOpen} \cup Spaces \cup Words /\ Dash # Slash
    BY Zenon DEF Dash, Slash, SquareOpen, Quotes, Spaces, LineEnds, Words, RowWords, WriteWords
<1>4. \A space \in Spaces : space \notin Quotes \cup {SquareOpen}
    BY Zenon DEF SquareOpen, Quotes, Spaces, LineEnds
<1>5. \A word \in Words : word \notin Quotes \cup {SquareOpen} \cup Spaces
    BY Zenon DEF SquareOpen, Quotes, Spaces, LineEnds, Words, RowWords, WriteWords
<1>6. QED
    BY <1>1, <1>2, <1>3, <1>4, <1>5

\* A symbol that begins no comment begins with itself.
LEMMA NoComment ==
    ASSUME NEW s, NEW i, s[i] \notin {Dash, Slash}
    PROVE  PairAt(s, i) \notin {LinePair, BlockPair}
<1>1. PairAt(s, i)[1] = s[i] /\ LinePair[1] = Dash /\ BlockPair[1] = Slash
    BY DEF PairAt, LinePair, BlockPair
<1> HIDE DEF LinePair, BlockPair
<1>2. QED
    BY <1>1

\* Spaces, comments and signs outside, and the first semicolon.
LEMMA OutsideKeeps ==
    ASSUME ScanInv, Space \/ Comment \/ Quote \/ Sign
    PROVE  ScanInv'
<1> DEFINE s == scan.statement
           i == scan.index
           n == Len(s)
<1>1. Normal
    BY DEF Space, Comment, Quote, Sign, Token
<1>2. /\ scan \in ScanType /\ scan.answer = "none" /\ scan.state = Outside
      /\ s \in Seq(Symbols) /\ n \in Nat /\ i \in 1..n
      /\ Current = s[i] /\ Pair = PairAt(s, i)
      /\ Coming(s, Outside, i) = {i} \cup Starts(s)[PieceEnd(s, i) + 1]
    BY <1>1, OutsideType
<1>3. /\ PairAt(s, i) = LinePair => PieceEnd(s, i) = EndOf(s, LineComment, i + 2)
      /\ PairAt(s, i) = BlockPair => PieceEnd(s, i) = EndOf(s, BlockComment, i + 2)
      /\ PairAt(s, i) \notin {LinePair, BlockPair} =>
            PieceEnd(s, i) = IF s[i] \in Quotes \cup {SquareOpen} THEN EndOf(s, s[i], i + 1) ELSE i
    BY <1>2, PieceEnds
<1>4. /\ scan.seenToken \in BOOLEAN /\ scan.trailingSemicolon \in BOOLEAN
      /\ [scan EXCEPT !.seenToken = scan.seenToken] = scan
      /\ [scan EXCEPT !.trailingSemicolon = scan.trailingSemicolon] = scan
    BY <1>2 DEF ScanType
<1>5. \A state, length :
        /\ Enter(state, length) = [scan EXCEPT !.state = state, !.index = @ + length,
               !.seenToken = scan.seenToken, !.trailingSemicolon = scan.trailingSemicolon]
        /\ ~ scan.trailingSemicolon => Seen(state) =
               [scan EXCEPT !.state = state, !.index = @ + 1, !.seenToken = TRUE,
                            !.trailingSemicolon = FALSE]
    BY <1>2, <1>4 DEF Enter, Seen, ScanType
<1>6. CASE Space
    <2>1. s[i] \in Spaces /\ s[i] # Semi /\ Consume(Enter(Outside, 1))
        BY <1>2, <1>6, SignsDiffer, Zenon DEF Space, Outside
    <2>2. s[i] \notin Quotes \cup {SquareOpen} /\ s[i] \notin {Dash, Slash} /\ ~ IsToken(s, i)
        BY <2>1, SignsDiffer DEF IsToken
    <2>3. Coming(s, Outside, i) = {i} \cup Coming(s, Outside, i + 1)
        BY <1>2, <1>3, <2>2, NoComment DEF Coming
    <2>4. i + 1 <= n + 1
        BY <1>2
    <2>5. QED
        BY <1>1, <1>2, <1>4, <1>5, <2>1, <2>2, <2>3, <2>4, SignsDiffer, ConsumePiece
<1>7. CASE Comment
    <2>1. Pair \in {LinePair, BlockPair} /\ Consume(Enter(IF Current = Dash THEN LineComment ELSE BlockComment, 2))
        BY <1>7, Zenon DEF Comment, LinePair, BlockPair, Dash, Slash, Star, LineComment, BlockComment, Opening
    <2> DEFINE state == IF Current = Dash THEN LineComment ELSE BlockComment
    <2>2. /\ Pair[1] = s[i] /\ Pair[2] = (IF i < n THEN s[i + 1] ELSE "")
          /\ LinePair[1] = Dash /\ BlockPair[1] = Slash /\ LinePair[2] = Dash /\ BlockPair[2] = Star
        BY <1>2 DEF PairAt, LinePair, BlockPair
    <2>3. Dash # "" /\ Star # ""
        BY Zenon DEF Dash, Star
    <2>4. s[i] \in {Dash, Slash} /\ i < n
        <3> HIDE DEF LinePair, BlockPair
        <3>1. QED
            BY <2>1, <2>2, <2>3
    <2>5. s[i] # Semi /\ ~ IsToken(s, i)
        BY <1>2, <2>1, <2>4, SignsDiffer DEF IsToken
    <2>6. PieceEnd(s, i) = EndOf(s, state, i + 2)
        <3> HIDE DEF LinePair, BlockPair
        <3>1. CASE Pair = LinePair
            BY <1>2, <1>3, <2>2, <3>1
        <3>2. CASE Pair = BlockPair
            BY <1>2, <1>3, <2>2, <3>2, SignsDiffer
        <3>3. QED
            BY <2>1, <3>1, <3>2
    <2>7. state \in States /\ state # Outside /\ state \notin Quotes \cup {SquareOpen}
        BY SignsDiffer
    <2>8. Coming(s, Outside, i) = {i} \cup Coming(s, state, i + 2)
        BY <1>2, <2>6, <2>7 DEF Coming
    <2>9. i + 2 <= n + 1
        BY <1>2, <2>4
    <2> HIDE DEF state
    <2>10. Consume([scan EXCEPT !.state = state, !.index = @ + 2, !.seenToken = scan.seenToken,
                                !.trailingSemicolon = scan.trailingSemicolon])
        BY <1>5, <2>1 DEF state
    <2>11. QED
        BY <1>1, <1>2, <1>4, <2>5, <2>7, <2>8, <2>9, <2>10, ConsumePiece
<1>8. ASSUME Token
      PROVE  IsToken(s, i) /\ PairAt(s, i) \notin {LinePair, BlockPair}
    BY <1>2, <1>8, Zenon DEF Token, IsToken, LinePair, BlockPair, Dash, Slash, Star, Semi
<1>9. CASE Quote
    <2>1. Token /\ ~ scan.trailingSemicolon /\ s[i] \in Quotes \cup {SquareOpen} /\ Consume(Seen(s[i]))
        BY <1>2, <1>9, Zenon DEF Quote, SquareOpen
    <2>2. IsToken(s, i) /\ PieceEnd(s, i) = EndOf(s, s[i], i + 1)
        BY <1>3, <1>8, <2>1
    <2>3. s[i] # Outside /\ s[i] \in States
        BY <2>1, SignsDiffer DEF States
    <2>4. Coming(s, Outside, i) = {i} \cup Coming(s, s[i], i + 1)
        BY <1>2, <2>2, <2>3 DEF Coming
    <2>5. i + 1 <= n + 1
        BY <1>2
    <2> DEFINE state == s[i]
    <2>6. Consume([scan EXCEPT !.state = state, !.index = @ + 1, !.seenToken = TRUE,
                               !.trailingSemicolon = FALSE])
        BY <1>5, <2>1
    <2>7. state \in States /\ Coming(s, Outside, i) = {i} \cup Coming(s, state, i + 1)
        BY <2>3, <2>4
    <2> HIDE DEF state
    <2>8. QED
        BY <1>1, <2>1, <2>2, <2>5, <2>6, <2>7, ConsumePiece
<1>10. CASE Sign
    <2>1. Token /\ ~ scan.trailingSemicolon /\ s[i] \notin Quotes \cup {SquareOpen} /\ Consume(Seen(Outside))
        BY <1>2, <1>10, Zenon DEF Sign, SquareOpen, Outside
    <2>2. IsToken(s, i) /\ PieceEnd(s, i) = i
        BY <1>3, <1>8, <2>1
    <2>3. Coming(s, Outside, i) = {i} \cup Coming(s, Outside, i + 1)
        BY <1>2, <2>2 DEF Coming
    <2>4. i + 1 <= n + 1
        BY <1>2
    <2>5. Consume([scan EXCEPT !.state = Outside, !.index = @ + 1, !.seenToken = TRUE,
                               !.trailingSemicolon = FALSE])
        BY <1>5, <2>1
    <2>6. QED
        BY <1>1, <2>1, <2>2, <2>3, <2>4, <2>5, SignsDiffer, ConsumePiece
<1>11. QED
    BY <1>6, <1>7, <1>9, <1>10

\* A symbol of a word is a token.
LEMMA WordKeeps ==
    ASSUME ScanInv, Word
    PROVE  ScanInv'
<1> DEFINE s == scan.statement
           i == scan.index
           n == Len(s)
<1>1. Token /\ Normal /\ Scanning /\ ~ scan.trailingSemicolon
    BY DEF Word, Token, Normal, Inside
<1>2. /\ scan \in ScanType /\ scan.answer = "none" /\ scan.state = Outside
      /\ s \in Seq(Symbols) /\ n \in Nat /\ i \in 1..n
      /\ Current = s[i] /\ Pair = PairAt(s, i)
      /\ Coming(s, Outside, i) = {i} \cup Starts(s)[PieceEnd(s, i) + 1]
    BY <1>1, OutsideType
<1>3. IsToken(s, i) /\ PairAt(s, i) \notin {LinePair, BlockPair}
    BY <1>1, <1>2, Zenon DEF Token, IsToken, LinePair, BlockPair, Dash, Slash, Star, Semi
<1>4. s[i] \in Words /\ s[i] \notin Quotes \cup {SquareOpen}
    BY <1>2, SignsDiffer DEF Word
<1>5. PieceEnd(s, i) = i
    BY <1>2, <1>3, <1>4, PieceEnds
<1>6. Coming(s, Outside, i) = {i} \cup Coming(s, Outside, i + 1)
    BY <1>2, <1>5 DEF Coming
<1>7. scan' = [scan EXCEPT !.state = Outside, !.index = i + 1, !.seenToken = TRUE,
                           !.token = Append(scan.token, Current)]
    <2>1. scan' = [Seen(Outside) EXCEPT !.token = Append(@, Current)]
        BY Zenon DEF Word, Outside
    <2>2. QED
        BY <1>2, <2>1 DEF Seen, Enter, ScanType
<1>8. Append(scan.token, Current) \in Seq(Words)
    <2>1. scan.token \in Seq(Words)
        BY <1>2 DEF ScanType
    <2>2. QED
        BY <1>2, <1>4, <2>1, AppendProperties
<1>9. /\ scan' \in ScanType /\ scan'.answer = "none" /\ scan'.statement = s /\ scan'.index = i + 1
      /\ scan'.state = Outside /\ scan'.seenToken = TRUE
      /\ scan'.trailingSemicolon = scan.trailingSemicolon
    <2>1. i + 1 \in Nat \ {0} /\ Outside \in States
        BY <1>2, SignsDiffer
    <2>2. QED
        BY <1>2, <1>7, <1>8, <2>1 DEF ScanType
<1>10. i \in i..n /\ i < scan'.index /\ scan'.index <= n + 1
    BY <1>2, <1>9
<1>11. QED
    BY <1>1, <1>2, <1>3, <1>6, <1>9, <1>10, SignsDiffer, PieceRead

-----------------------------------------------------------------------------
\* What a statement's semicolons and tokens are, and how many it has.
LEMMA SemicolonsAndTokens ==
    ASSUME NEW s \in Seq(Symbols)
    PROVE  /\ \A i : i \in Semicolons(s) <=> i \in Pieces(s) /\ s[i] = Semi
           /\ \A i : i \in Tokens(s) <=> i \in Pieces(s) /\ IsToken(s, i)
           /\ Cardinality(Semicolons(s)) <= 1 <=> \A i, j \in Semicolons(s) : i = j
<1>1. \A i : i \in Semicolons(s) <=> i \in Pieces(s) /\ s[i] = Semi
    BY Zenon DEF Semicolons, Semi
<1>2. \A i : i \in Tokens(s) <=> i \in Pieces(s) /\ IsToken(s, i)
    BY Zenon DEF Tokens, IsToken, Semi, LinePair, BlockPair, Dash, Slash, Star
<1> DEFINE S == Semicolons(s)
<1>3. IsFiniteSet(S)
    <2>1. Pieces(s) \subseteq 1..Len(s) /\ Len(s) \in Nat
        BY StartsGoOn, LenProperties
    <2>2. S \in SUBSET (1..Len(s))
        BY <1>1, <2>1
    <2>3. IsFiniteSet(1..Len(s))
        BY <2>1, FS_Interval
    <2> HIDE DEF S
    <2>4. QED
        BY <2>2, <2>3, FS_Subset
<1> HIDE DEF S
<1>4. Cardinality(S) \in Nat
    BY <1>3, FS_CardinalityType
<1>5. Cardinality(S) <= 1 <=> (Cardinality(S) = 0 \/ Cardinality(S) = 1)
    BY <1>4
<1>6. Cardinality(S) <= 1 <=> (S = {} \/ \E x : S = {x})
    BY <1>3, <1>5, FS_EmptySet, FS_Singleton
<1>7. (S = {} \/ \E x : S = {x}) <=> \A i, j \in S : i = j
    OBVIOUS
<1>8. QED
    BY <1>1, <1>2, <1>6, <1>7 DEF S

\* Where a second semicolon, a token behind one, or a semicolon before the first
\* token stands, the statement is not one statement.
LEMMA SeveralIsRight ==
    ASSUME ScanInv, Normal,
           \/ Current = Semi /\ (~ scan.seenToken \/ scan.trailingSemicolon)
           \/ IsToken(scan.statement, scan.index) /\ scan.trailingSemicolon
    PROVE  Semicolons(scan.statement) # {} /\ ~ OneStatement(scan.statement)
<1> DEFINE s == scan.statement
           i == scan.index
           n == Len(s)
<1>1. /\ scan \in ScanType /\ scan.answer = "none" /\ scan.state = Outside
      /\ s \in Seq(Symbols) /\ n \in Nat /\ i \in 1..n /\ Current = s[i]
      /\ Coming(s, Outside, i) = {i} \cup Starts(s)[PieceEnd(s, i) + 1]
    BY OutsideType
<1>2. PICK read \in SUBSET (1..(i - 1)) :
        /\ Pieces(s) = read \cup Coming(s, Outside, i)
        /\ Judged(s, read, scan.seenToken, scan.trailingSemicolon)
    BY <1>1 DEF ScanInv, PiecesSoFar
<1>3. i \in Pieces(s) /\ read \subseteq Pieces(s)
    BY <1>1, <1>2
<1>4. \A j \in Coming(s, Outside, i) : j >= i /\ j \in Nat
    <2>1. i \in 1..(n + 1)
        BY <1>1
    <2>2. Starts(s)[i] \subseteq i..n
        BY <1>1, <2>1, StartsGoOn
    <2>3. QED
        BY <1>1, <2>2 DEF Coming
<1>5. \A j \in read : j < i /\ j \in Nat
    BY <1>1
<1>6. /\ \A j : j \in Semicolons(s) <=> j \in Pieces(s) /\ s[j] = Semi
      /\ \A j : j \in Tokens(s) <=> j \in Pieces(s) /\ IsToken(s, j)
      /\ Cardinality(Semicolons(s)) <= 1 <=> \A j, k \in Semicolons(s) : j = k
    BY <1>1, SemicolonsAndTokens
<1> HIDE DEF s, n
<1>7. CASE scan.trailingSemicolon
    <2>1. PICK j \in read : s[j] = Semi
        BY <1>2, <1>7 DEF Judged
    <2>2. j \in Semicolons(s) /\ j < i
        BY <1>3, <1>5, <1>6, <2>1
    <2>3. CASE s[i] = Semi
        <3>1. i \in Semicolons(s) /\ i # j
            BY <1>1, <1>3, <1>5, <1>6, <2>2, <2>3
        <3>2. ~ (Cardinality(Semicolons(s)) <= 1)
            BY <1>6, <2>2, <3>1
        <3>3. QED
            BY <2>2, <3>2 DEF OneStatement, s
    <2>4. CASE IsToken(s, i)
        <3>1. i \in Tokens(s) /\ ~ (i < j)
            BY <1>1, <1>3, <1>5, <1>6, <2>1, <2>2, <2>4
        <3>2. QED
            BY <2>2, <3>1 DEF OneStatement, s
    <2>5. QED
        BY <1>1, <2>3, <2>4 DEF s
<1>8. CASE s[i] = Semi /\ ~ scan.seenToken
    <2>1. i \in Semicolons(s) /\ ~ IsToken(s, i)
        BY <1>3, <1>6, <1>8 DEF IsToken
    <2>2. \A j \in read : ~ IsToken(s, j)
        BY <1>2, <1>8 DEF Judged
    <2>3. \A j \in Tokens(s) : ~ (j < i)
        <3> TAKE j \in Tokens(s)
        <3>1. j \in Coming(s, Outside, i)
            BY <1>2, <1>6, <2>2
        <3>2. j >= i /\ j \in Nat
            BY <1>4, <3>1
        <3>3. QED
            BY <1>1, <3>2
    <2>4. ~ OneStatement(s)
        BY <2>1, <2>3 DEF OneStatement
    <2>5. QED
        BY <2>1, <2>4 DEF s
<1>9. QED
    BY <1>1, <1>7, <1>8 DEF s

\* A semicolon, a second statement and the end of the text.
LEMMA AnswersKeep ==
    ASSUME ScanInv, Semicolon \/ RefuseSecond \/ FinishScan
    PROVE  ScanInv'
<1> DEFINE s == scan.statement
           i == scan.index
           n == Len(s)
<1>1. scan \in ScanType /\ s \in Seq(Symbols) /\ n \in Nat /\ i \in Nat \ {0}
      /\ scan.seenToken \in BOOLEAN /\ scan.trailingSemicolon \in BOOLEAN
    BY LenProperties DEF ScanInv, ScanType
<1>2. ASSUME NEW answer \in {"ok", "empty", "several"},
             Consume(Refused(answer)) \/ scan' = Refused(answer),
             answer = "ok" => OneStatement(s),
             answer = "several" => Semicolons(s) # {} /\ ~ OneStatement(s),
             answer = "empty" => Tokens(s) = {} /\ Semicolons(s) = {}
      PROVE  ScanInv'
    <2> DEFINE new == Refused(answer)
    <2>1. new \in ScanType /\ new.answer = answer /\ new.statement = s
        BY <1>1, <1>2 DEF Refused, ScanType, Answers
    <2> HIDE DEF new
    <2>2. Consume(new) \/ scan' = new
        BY <1>2 DEF new
    <2>3. scan' \in ScanType /\ (scan'.answer = "trigger" \/ (scan'.answer = answer /\ scan'.statement = s))
        BY <1>1, <2>1, <2>2, ConsumeKeeps
    <2>4. PiecesSoFar'
        BY <1>2, <2>3 DEF PiecesSoFar
    <2>5. OneStatementPasses'
        BY <1>2, <2>3 DEF OneStatementPasses
    <2>6. QED
        BY <2>3, <2>4, <2>5 DEF ScanInv
<1>3. CASE Semicolon
    <2>1. Normal /\ Current = Semi
          /\ Consume(IF ~ scan.seenToken \/ scan.trailingSemicolon THEN Refused("several")
                     ELSE [Enter(Outside, 1) EXCEPT !.trailingSemicolon = TRUE])
        BY <1>3, Zenon DEF Semicolon, Semi, Outside
    <2>2. CASE ~ scan.seenToken \/ scan.trailingSemicolon
        <3>1. Semicolons(s) # {} /\ ~ OneStatement(s)
            BY <2>1, <2>2, SeveralIsRight
        <3>2. Consume(Refused("several"))
            BY <2>1, <2>2
        <3>3. QED
            BY <1>2, <3>1, <3>2
    <2>3. CASE scan.seenToken /\ ~ scan.trailingSemicolon
        <3>1. [Enter(Outside, 1) EXCEPT !.trailingSemicolon = TRUE]
                = [scan EXCEPT !.state = Outside, !.index = @ + 1, !.seenToken = TRUE,
                               !.trailingSemicolon = TRUE]
            <4>1. scan.seenToken = TRUE
                BY <1>1, <2>3
            <4>2. [scan EXCEPT !.seenToken = TRUE] = scan
                BY <1>1, <4>1 DEF ScanType
            <4>3. QED
                BY <1>1, <4>2 DEF Enter, ScanType
        <3>2. Consume([scan EXCEPT !.state = Outside, !.index = @ + 1, !.seenToken = TRUE,
                                   !.trailingSemicolon = TRUE])
            BY <2>1, <2>3, <3>1
        <3>3. /\ i \in 1..n /\ s[i] = Semi
              /\ Coming(s, Outside, i) = {i} \cup Starts(s)[PieceEnd(s, i) + 1]
            BY <2>1, OutsideType
        <3>4. s[i] \notin {Dash, Slash} /\ s[i] \notin Quotes \cup {SquareOpen}
            BY <3>3, SignsDiffer
        <3>5. PieceEnd(s, i) = i
            BY <1>1, <3>3, <3>4, NoComment, PieceEnds
        <3>6. Coming(s, Outside, i) = {i} \cup Coming(s, Outside, i + 1) /\ i + 1 <= n + 1
            BY <1>1, <3>3, <3>5 DEF Coming
        <3>7. QED
            BY <2>1, <2>3, <3>2, <3>6, SignsDiffer, ConsumePiece
    <2>4. QED
        BY <2>2, <2>3
<1>4. CASE RefuseSecond
    <2>1. Normal /\ Token /\ scan.trailingSemicolon /\ scan' = Refused("several")
        BY <1>4 DEF RefuseSecond, Token
    <2>2. Current = s[i] /\ Pair = PairAt(s, i)
        BY <2>1, OutsideType
    <2>3. IsToken(s, i)
        BY <2>1, <2>2, Zenon DEF Token, IsToken, LinePair, BlockPair, Dash, Slash, Star, Semi
    <2>4. Semicolons(s) # {} /\ ~ OneStatement(s)
        BY <2>1, <2>3, SeveralIsRight
    <2>5. QED
        BY <1>2, <2>1, <2>4
<1>5. CASE FinishScan
    <2>1. /\ scan.answer = "none" /\ ~ (i <= n)
          /\ Consume(Refused(IF scan.seenToken THEN "ok" ELSE "empty"))
        BY <1>5 DEF FinishScan, Scanning
    <2>2. i = n + 1
        BY <1>1, <2>1 DEF ScanInv, PiecesSoFar
    <2>3. Coming(s, scan.state, i) = {}
        <3>1. EndOf(s, scan.state, i) = n
            BY <1>1, <2>1, EndStays
        <3>2. Starts(s)[n + 1] = {}
            BY <1>1, StartsGoOn
        <3>3. QED
            BY <2>2, <3>1, <3>2 DEF Coming
    <2>4. PICK read : Pieces(s) = read \cup {} /\ Judged(s, read, scan.seenToken, scan.trailingSemicolon)
        BY <2>1, <2>3 DEF ScanInv, PiecesSoFar
    <2>5. Judged(s, Pieces(s), scan.seenToken, scan.trailingSemicolon)
        BY <2>4
    <2>6. /\ \A j : j \in Semicolons(s) <=> j \in Pieces(s) /\ s[j] = Semi
          /\ \A j : j \in Tokens(s) <=> j \in Pieces(s) /\ IsToken(s, j)
          /\ Cardinality(Semicolons(s)) <= 1 <=> \A j, k \in Semicolons(s) : j = k
        BY <1>1, SemicolonsAndTokens
    <2> HIDE DEF s, n
    <2>7. scan.seenToken => OneStatement(s)
        BY <2>5, <2>6 DEF Judged, OneStatement
    <2>8. ~ scan.seenToken => Tokens(s) = {} /\ Semicolons(s) = {}
        BY <2>5, <2>6 DEF Judged
    <2> DEFINE answer == IF scan.seenToken THEN "ok" ELSE "empty"
    <2>9. /\ answer \in {"ok", "empty", "several"} /\ Consume(Refused(answer))
          /\ (answer = "ok" => OneStatement(s)) /\ answer # "several"
          /\ (answer = "empty" => Tokens(s) = {} /\ Semicolons(s) = {})
        BY <2>1, <2>7, <2>8
    <2> HIDE DEF answer
    <2>10. QED
        BY <1>2, <2>9
<1>6. QED
    BY <1>3, <1>4, <1>5

\* The scan begins with nothing read.
LEMMA ScanStarts == ScanInit => ScanInv
<1> SUFFICES ASSUME ScanInit PROVE ScanInv
    OBVIOUS
<1>1. /\ scan \in ScanType /\ scan.index = 1 /\ scan.state = Outside /\ scan.answer = "none"
      /\ scan.seenToken = FALSE /\ scan.trailingSemicolon = FALSE
    <2>1. Outside \in States /\ "before" \in Triggers /\ "none" \in Answers /\ <<>> \in Seq(Words)
        BY SignsDiffer DEF Triggers, Answers
    <2>2. PICK statement \in Statements :
            scan = [statement |-> statement, index |-> 1, state |-> Outside, seenToken |-> FALSE,
                    trailingSemicolon |-> FALSE, trigger |-> "before", token |-> <<>>,
                    answer |-> "none"]
        BY Zenon DEF ScanInit, Outside
    <2>3. statement \in Seq(Symbols)
        BY ScannerAssumption
    <2>4. QED
        BY <2>1, <2>2, <2>3 DEF ScanType
<1>2. scan.statement \in Seq(Symbols) /\ Len(scan.statement) \in Nat
    BY <1>1, LenProperties DEF ScanType
<1>3. Pieces(scan.statement) = {} \cup Coming(scan.statement, scan.state, scan.index)
    BY <1>1, <1>2, StartsGoOn DEF Coming
<1>4. Judged(scan.statement, {}, FALSE, FALSE)
    BY DEF Judged
<1>5. scan.state \notin Quotes \cup {SquareOpen} /\ scan.index <= Len(scan.statement) + 1
    BY <1>1, <1>2, SignsDiffer
<1>6. PiecesSoFar
    BY <1>1, <1>3, <1>4, <1>5 DEF PiecesSoFar
<1>7. OneStatementPasses
    BY <1>1 DEF OneStatementPasses
<1>8. QED
    BY <1>1, <1>6, <1>7 DEF ScanInv

\* A turn of the loop keeps what is known of the pieces.
LEMMA ScanGoesOn == ScanInv /\ [ScanNext]_scan => ScanInv'
<1> SUFFICES ASSUME ScanInv, [ScanNext]_scan PROVE ScanInv'
    OBVIOUS
<1>1. CASE UNCHANGED scan
    BY <1>1 DEF ScanInv, ScanType, PiecesSoFar, OneStatementPasses
<1>2. QED
    BY <1>1, InsideKeeps, OutsideKeeps, WordKeeps, AnswersKeep DEF ScanNext

\* Whatever the statement, what validateStatement takes for one statement is one,
\* and what it refuses as several or as empty is that.
THEOREM OneStatementGetsThrough == ScanSpec => []OneStatementPasses
<1>1. ScanInv => OneStatementPasses
    BY DEF ScanInv
<1>2. QED
    BY <1>1, ScanStarts, ScanGoesOn, PTL DEF ScanSpec

-----------------------------------------------------------------------------
(***************************************************************************)
(* The words of a statement, joined out of what each place adds.           *)
(***************************************************************************)
IsWord(s, i) == i \in Pieces(s) /\ s[i] \in Words
WordAt(s, i) == IF IsWord(s, i + 1) THEN "x" ELSE s[i]

Begun(s) ==
    [i \in 1..Len(s) |-> IF IsWord(s, i) /\ ~ IsWord(s, i - 1) THEN <<WordAt(s, i)>> ELSE <<>>]

\* The words begun up to a place.
WordsUpTo(s) ==
    CHOOSE words : words = [i \in 0..Len(s) |->
        IF i = 0 THEN <<>>
        ELSE IF IsWord(s, i) /\ ~ IsWord(s, i - 1) THEN Append(words[i - 1], WordAt(s, i))
        ELSE words[i - 1]]

LEMMA WordsGoOn ==
    ASSUME NEW s \in Seq(Symbols)
    PROVE  /\ IsJoined(WordsUpTo(s), Words, <<>>, Begun(s), Len(s))
           /\ Begun(s) \in [1..Len(s) -> Seq(Words)]
           /\ WordsOf(s) = WordsUpTo(s)[Len(s)]
           /\ \A i \in 1..Len(s) :
                 WordsUpTo(s)[i] = IF IsWord(s, i) /\ ~ IsWord(s, i - 1)
                                   THEN Append(WordsUpTo(s)[i - 1], WordAt(s, i))
                                   ELSE WordsUpTo(s)[i - 1]
<1> DEFINE n == Len(s)
           part == Begun(s)
           New(i) == IsWord(s, i) /\ ~ IsWord(s, i - 1)
           Part(i) == IF New(i) THEN <<WordAt(s, i)>> ELSE <<>>
           Body(f, i) == IF i = 0 THEN <<>>
                         ELSE IF New(i) THEN Append(f[i - 1], WordAt(s, i)) ELSE f[i - 1]
           words == WordsUpTo(s)
<1>1. n \in Nat
    BY LenProperties
<1>2. \A i : IsWord(s, i) => WordAt(s, i) \in Words
    BY Zenon DEF WordAt, IsWord, Words
<1>3. \A i \in 1..n : Part(i) \in Seq(Words)
    BY <1>2
<1>4. part = [i \in 1..n |-> Part(i)]
    BY DEF Begun
<1>5. part \in [1..n -> Seq(Words)] /\ \A i \in 1..n : part[i] = Part(i)
    BY <1>3, <1>4
<1>6. <<>> \in Seq(Words)
    OBVIOUS
<1>7. WordsOf(s) = words[n]
    BY Zenon DEF WordsOf, WordsUpTo, IsWord, WordAt
<1>8. PICK f : IsJoined(f, Words, <<>>, part, n)
    <2> HIDE DEF part, n
    <2>1. \E f : JoinsParts(f, <<>>, part, n)
        BY <1>1, <1>5, <1>6, JoinExists, Zenon
    <2>2. QED
        BY <1>1, <1>5, <1>6, <2>1, JoinType, Zenon
<1>9. \A q \in Seq(Words) : \A i \in 1..n :
        q \o part[i] = IF New(i) THEN Append(q, WordAt(s, i)) ELSE q
    <2> TAKE q \in Seq(Words)
    <2> TAKE i \in 1..n
    <2>1. CASE New(i)
        <3>1. part[i] = <<WordAt(s, i)>>
            BY <1>5, <2>1
        <3>2. q \o <<WordAt(s, i)>> = Append(q, WordAt(s, i))
            BY <1>2, <2>1
        <3>3. QED
            BY <2>1, <3>1, <3>2
    <2>2. CASE ~ New(i)
        <3>1. part[i] = <<>>
            BY <1>5, <2>2
        <3>2. QED
            BY <2>2, <3>1
    <2>3. QED
        BY <2>1, <2>2
<1> HIDE DEF part, New
<1>10. \A i \in 1..n : i \in 0..n /\ i - 1 \in 0..n /\ i # 0
    BY <1>1
<1>11. f = [i \in 0..n |-> Body(f, i)]
    <2>1. f \in [0..n -> Seq(Words)] /\ f[0] = <<>> /\ \A i \in 1..n : f[i] = f[i - 1] \o part[i]
        BY <1>8 DEF IsJoined
    <2>2. \A i \in 1..n : f[i] = Body(f, i)
        BY <1>9, <1>10, <2>1
    <2>3. \A i \in 0..n : i = 0 \/ i \in 1..n
        BY <1>1
    <2>4. \A i \in 0..n : f[i] = Body(f, i)
        <3>1. f[0] = Body(f, 0)
            BY <2>1
        <3> HIDE DEF Body
        <3>2. QED
            BY <2>2, <2>3, <3>1
    <2>5. QED
        BY <2>1, <2>4
<1>12. words = [i \in 0..n |-> Body(words, i)]
    BY <1>11, Zenon DEF WordsUpTo, Body, New
<1> HIDE DEF words
<1>13. words[0] = <<>> /\ \A i \in 1..n :
            words[i] = IF New(i) THEN Append(words[i - 1], WordAt(s, i)) ELSE words[i - 1]
    <2>1. \A i \in 0..n : words[i] = Body(words, i)
        BY <1>12
    <2>2. QED
        BY <1>1, <1>10, <2>1
<1> HIDE DEF Body
<1> DEFINE T == {k \in Nat : k \in 0..n => words[k] \in Seq(Words)}
<1>14. T = Nat
    <2>1. 0 \in T
        BY <1>6, <1>13
    <2>2. ASSUME NEW k \in T, k + 1 \in 0..n
          PROVE  words[k + 1] \in Seq(Words)
        <3>1. k \in 0..n /\ k + 1 \in 1..n /\ (k + 1) - 1 = k
            BY <1>1, <2>2
        <3>2. words[k] \in Seq(Words)
            BY <3>1
        <3>3. words[k + 1] = IF New(k + 1) THEN Append(words[k], WordAt(s, k + 1)) ELSE words[k]
            BY <1>13, <3>1
        <3>4. New(k + 1) => WordAt(s, k + 1) \in Words
            BY <1>2 DEF New
        <3>5. New(k + 1) => Append(words[k], WordAt(s, k + 1)) \in Seq(Words)
            BY <3>2, <3>4, AppendProperties
        <3>6. QED
            BY <3>2, <3>3, <3>5
    <2>3. \A k \in T : k + 1 \in T
        BY <2>2
    <2>4. T \in SUBSET Nat
        OBVIOUS
    <2> HIDE DEF T
    <2>5. QED
        BY <2>1, <2>3, <2>4, SetInduction
<1>15. \A k \in 0..n : words[k] \in Seq(Words)
    BY <1>1, <1>14
<1>16. words \in [0..n -> Seq(Words)]
    BY <1>12, <1>15
<1>17. \A i \in 1..n : words[i] = words[i - 1] \o part[i]
    BY <1>9, <1>10, <1>13, <1>15
<1>18. IsJoined(words, Words, <<>>, part, n)
    BY <1>13, <1>16, <1>17 DEF IsJoined
<1>19. QED
    BY <1>5, <1>7, <1>13, <1>18 DEF part, words, New

\* What has been joined stays where it is.
LEMMA WordsStay ==
    ASSUME NEW s \in Seq(Symbols), NEW i \in 0..Len(s)
    PROVE  /\ WordsUpTo(s)[i] \in Seq(Words) /\ WordsOf(s) \in Seq(Words)
           /\ IsBeginning(WordsUpTo(s)[i], WordsOf(s))
<1>1. Len(s) \in Nat /\ <<>> \in Seq(Words)
    BY LenProperties
<1>2. /\ IsJoined(WordsUpTo(s), Words, <<>>, Begun(s), Len(s))
      /\ Begun(s) \in [1..Len(s) -> Seq(Words)] /\ WordsOf(s) = WordsUpTo(s)[Len(s)]
    BY WordsGoOn
<1>3. Len(s) \in 0..Len(s) /\ Len(s) \in i..Len(s)
    BY <1>1
<1>4. WordsUpTo(s) \in [0..Len(s) -> Seq(Words)]
    BY <1>2 DEF IsJoined
<1>5. IsBeginning(WordsUpTo(s)[i], WordsUpTo(s)[Len(s)])
    BY <1>1, <1>2, <1>3, JoinStays
<1>6. QED
    BY <1>2, <1>3, <1>4, <1>5

-----------------------------------------------------------------------------
(***************************************************************************)
(* Where words lead.  Behind the first CREATE stand options, each whole,   *)
(* and then perhaps the beginning of another, or TEMP.                     *)
(***************************************************************************)
PlainOptions == {<<"OR", "REPLACE">>, <<"IF", "NOT", "EXISTS">>}

OfPlainOption(w, k, m, j) ==
    \E option \in PlainOptions : \E from \in (k + 1)..j :
        /\ j < from + Len(option) /\ from + Len(option) <= m
        /\ \A d \in DOMAIN option : w[from + d - 1] = option[d]

\* The first CREATE begins a CREATE TRIGGER, and CONSTRAINT is not in between.
CompletesPlainly(w, k, m) ==
    /\ k < m /\ w[k] = "CREATE" /\ w[m] = "TRIGGER"
    /\ \A j \in 1..(k - 1) : w[j] # "CREATE"
    /\ \A j \in (k + 1)..(m - 1) :
          OfPlainOption(w, k, m, j) \/ (j = m - 1 /\ w[j] = "TEMP")

CreatesPlainTrigger(w) == \E k, m \in DOMAIN w : CompletesPlainly(w, k, m)

FirstCreate(w, k) == k \in DOMAIN w /\ w[k] = "CREATE" /\ \A j \in 1..(k - 1) : w[j] # "CREATE"

Tiled(w, k, n) == \A j \in (k + 1)..n : OfPlainOption(w, k, n + 1, j)

\* An option before the m-th word, from one word on, that the j-th is of.
Whole(w, m, j, from) ==
    \/ j < from + 2 /\ from + 2 <= m /\ w[from] = "OR" /\ w[from + 1] = "REPLACE"
    \/ /\ j < from + 3 /\ from + 3 <= m /\ w[from] = "IF" /\ w[from + 1] = "NOT"
       /\ w[from + 2] = "EXISTS"

LEMMA OptionsAre ==
    ASSUME NEW w, NEW k \in Nat, NEW m \in Nat, NEW j \in Nat
    PROVE  OfPlainOption(w, k, m, j) <=> \E from \in (k + 1)..j : Whole(w, m, j, from)
<1> DEFINE Two == <<"OR", "REPLACE">>
           Three == <<"IF", "NOT", "EXISTS">>
           At(option, from) ==
               /\ j < from + Len(option) /\ from + Len(option) <= m
               /\ \A d \in DOMAIN option : w[from + d - 1] = option[d]
<1>1. Len(Two) = 2 /\ DOMAIN Two = {1, 2} /\ Two[1] = "OR" /\ Two[2] = "REPLACE"
    OBVIOUS
<1>2. /\ Len(Three) = 3 /\ DOMAIN Three = {1, 2, 3}
      /\ Three[1] = "IF" /\ Three[2] = "NOT" /\ Three[3] = "EXISTS"
    OBVIOUS
<1>3. OfPlainOption(w, k, m, j) <=> \E option \in {Two, Three} : \E from \in (k + 1)..j : At(option, from)
    BY Zenon DEF OfPlainOption, PlainOptions
<1> HIDE DEF Two, Three
<1>4. \A from \in (k + 1)..j : from + 1 - 1 = from /\ from + 2 - 1 = from + 1 /\ from + 3 - 1 = from + 2
    OBVIOUS
<1>5. \A from \in (k + 1)..j :
        At(Two, from) <=> j < from + 2 /\ from + 2 <= m /\ w[from] = "OR" /\ w[from + 1] = "REPLACE"
    BY <1>1, <1>4
<1>6. \A from \in (k + 1)..j :
        At(Three, from) <=> /\ j < from + 3 /\ from + 3 <= m /\ w[from] = "IF"
                            /\ w[from + 1] = "NOT" /\ w[from + 2] = "EXISTS"
    BY <1>2, <1>4
<1> HIDE DEF At
<1>7. QED
    BY <1>3, <1>5, <1>6 DEF Whole

\* What the scan looks for is what completes a CREATE TRIGGER and is not overlooked.
LEMMA PlainlyIs ==
    ASSUME NEW w \in Seq(Words), NEW k \in DOMAIN w, NEW m \in DOMAIN w
    PROVE  CompletesPlainly(w, k, m) <=> Completes(w, k, m) /\ ~ Overlooked(w, k, m)
<1>1. k \in Nat /\ m \in Nat
    BY LenProperties
<1> DEFINE At(option, j, from) ==
               /\ j < from + Len(option) /\ from + Len(option) <= m
               /\ \A d \in DOMAIN option : w[from + d - 1] = option[d]
           Of(option, j) == \E from \in (k + 1)..j : At(option, j, from)
           One == <<"CONSTRAINT">>
<1>2. \A j : OfPlainOption(w, k, m, j) <=> \E option \in PlainOptions : Of(option, j)
    BY Zenon DEF OfPlainOption
<1>3. \A j : OfOption(w, k, m, j) <=> \E option \in Options : Of(option, j)
    BY Zenon DEF OfOption
<1>4. Options = PlainOptions \cup {One}
    BY Zenon DEF Options, PlainOptions
<1>5. ASSUME NEW j \in (k + 1)..(m - 1), Of(One, j)
      PROVE  w[j] = "CONSTRAINT"
    <2>1. Len(One) = 1 /\ DOMAIN One = {1} /\ One[1] = "CONSTRAINT"
        OBVIOUS
    <2> HIDE DEF One
    <2>2. PICK from \in (k + 1)..j : At(One, j, from)
        BY <1>5
    <2>3. from = j /\ from + 1 - 1 = from
        BY <1>1, <2>1, <2>2
    <2>4. QED
        BY <2>1, <2>2, <2>3
<1>6. ASSUME NEW j \in (k + 1)..(m - 1), OfPlainOption(w, k, m, j)
      PROVE  w[j] # "CONSTRAINT"
    <2>1. j \in Nat
        BY <1>1
    <2>2. PICK from \in (k + 1)..j : Whole(w, m, j, from)
        BY <1>1, <1>6, <2>1, OptionsAre, Zenon
    <2>3. j = from \/ j = from + 1 \/ (j = from + 2 /\ w[from + 2] = "EXISTS")
        BY <1>1, <2>1, <2>2 DEF Whole
    <2>4. QED
        BY <2>2, <2>3 DEF Whole
<1> HIDE DEF Of, One
<1>7. ASSUME CompletesPlainly(w, k, m)
      PROVE  Completes(w, k, m) /\ ~ Overlooked(w, k, m)
    <2>1. \A j \in (k + 1)..(m - 1) : OfPlainOption(w, k, m, j) \/ (j = m - 1 /\ w[j] = "TEMP")
        BY <1>7, Zenon DEF CompletesPlainly
    <2>2. \A j \in (k + 1)..(m - 1) : OfOption(w, k, m, j) \/ (j = m - 1 /\ w[j] = "TEMP")
        BY <1>2, <1>3, <1>4, <2>1
    <2>3. \A j \in (k + 1)..(m - 1) : w[j] # "CONSTRAINT"
        BY <1>6, <2>1
    <2>4. QED
        BY <1>7, <2>2, <2>3, Zenon DEF CompletesPlainly, Completes, Overlooked
<1>8. ASSUME Completes(w, k, m), ~ Overlooked(w, k, m)
      PROVE  CompletesPlainly(w, k, m)
    <2>1. \A j \in (k + 1)..(m - 1) : OfOption(w, k, m, j) \/ (j = m - 1 /\ w[j] = "TEMP")
        BY <1>8, Zenon DEF Completes
    <2>2. \A j \in (k + 1)..(m - 1) : w[j] # "CONSTRAINT"
        BY <1>8, Zenon DEF Overlooked
    <2>3. \A j \in (k + 1)..(m - 1) : OfPlainOption(w, k, m, j) \/ (j = m - 1 /\ w[j] = "TEMP")
        BY <1>2, <1>3, <1>4, <1>5, <2>1, <2>2
    <2>4. \A j \in 1..(k - 1) : w[j] # "CREATE"
        BY <1>8, Zenon DEF Overlooked
    <2>5. QED
        BY <1>8, <2>3, <2>4, Zenon DEF CompletesPlainly, Completes
<1>9. QED
    BY <1>7, <1>8

\* Behind whole options, a trigger goes on with an option, TEMP or TRIGGER.
LEMMA TilesGoOn ==
    ASSUME NEW w \in Seq(Words), NEW k \in DOMAIN w, NEW m \in DOMAIN w, NEW n \in Nat,
           k <= n, n < m, Tiled(w, k, n), CompletesPlainly(w, k, m)
    PROVE  \/ m = n + 1
           \/ m = n + 2 /\ w[n + 1] = "TEMP"
           \/ n + 2 < m /\ w[n + 1] = "OR" /\ w[n + 2] = "REPLACE"
           \/ n + 3 < m /\ w[n + 1] = "IF" /\ w[n + 2] = "NOT" /\ w[n + 3] = "EXISTS"
<1>1. k \in Nat /\ m \in Nat
    BY LenProperties
<1>2. SUFFICES ASSUME m # n + 1
               PROVE  \/ m = n + 2 /\ w[n + 1] = "TEMP"
                      \/ n + 2 < m /\ w[n + 1] = "OR" /\ w[n + 2] = "REPLACE"
                      \/ n + 3 < m /\ w[n + 1] = "IF" /\ w[n + 2] = "NOT" /\ w[n + 3] = "EXISTS"
    OBVIOUS
<1>3. n + 1 \in (k + 1)..(m - 1)
    BY <1>1, <1>2
<1>4. OfPlainOption(w, k, m, n + 1) \/ (n + 1 = m - 1 /\ w[n + 1] = "TEMP")
    BY <1>3 DEF CompletesPlainly
<1>5. CASE n + 1 = m - 1 /\ w[n + 1] = "TEMP"
    BY <1>1, <1>5
<1>6. CASE OfPlainOption(w, k, m, n + 1)
    <2>1. n + 1 \in Nat
        OBVIOUS
    <2>2. PICK from \in (k + 1)..(n + 1) : Whole(w, m, n + 1, from)
        BY <1>1, <1>6, <2>1, OptionsAre, Zenon
    <2>3. ASSUME from <= n
          PROVE  FALSE
        <3>1. from \in Nat /\ n \in (k + 1)..n
            BY <1>1, <2>2, <2>3
        <3>2. w[n] \in {"OR", "IF", "NOT"}
            <4>1. from + 1 = n \/ from = n
                BY <2>2, <2>3, <3>1 DEF Whole
            <4>2. QED
                BY <2>2, <2>3, <3>1, <4>1 DEF Whole
        <3>3. OfPlainOption(w, k, n + 1, n)
            BY <3>1 DEF Tiled
        <3>4. PICK g \in (k + 1)..n : Whole(w, n + 1, n, g)
            BY <1>1, <2>1, <3>3, OptionsAre, Zenon
        <3>5. (g + 1 = n /\ w[g + 1] = "REPLACE") \/ (g + 2 = n /\ w[g + 2] = "EXISTS")
            BY <3>4 DEF Whole
        <3>6. QED
            BY <3>2, <3>5
    <2>4. from = n + 1
        BY <1>1, <2>2, <2>3
    <2>5. (n + 1) + 1 = n + 2 /\ (n + 1) + 2 = n + 3
        OBVIOUS
    <2>6. QED
        BY <1>1, <2>2, <2>4, <2>5 DEF Whole
<1>7. QED
    BY <1>4, <1>5, <1>6

\* Whole options and one more are whole options.
LEMMA TilesGrow ==
    ASSUME NEW w, NEW k \in Nat, NEW n \in Nat, k <= n, Tiled(w, k, n)
    PROVE  /\ w[n + 1] = "OR" /\ w[n + 2] = "REPLACE" => Tiled(w, k, n + 2)
           /\ w[n + 1] = "IF" /\ w[n + 2] = "NOT" /\ w[n + 3] = "EXISTS" => Tiled(w, k, n + 3)
<1>1. \A j \in (k + 1)..n : \A m \in Nat : n + 1 <= m => OfPlainOption(w, k, m, j)
    <2> TAKE j \in (k + 1)..n
    <2> TAKE m \in Nat
    <2> HAVE n + 1 <= m
    <2>1. OfPlainOption(w, k, n + 1, j) /\ j \in Nat /\ n + 1 \in Nat
        BY DEF Tiled
    <2>2. PICK from \in (k + 1)..j : Whole(w, n + 1, j, from)
        BY <2>1, OptionsAre, Zenon
    <2>3. Whole(w, m, j, from)
        BY <2>1, <2>2 DEF Whole
    <2>4. QED
        BY <2>1, <2>2, <2>3, OptionsAre, Zenon
<1>2. ASSUME w[n + 1] = "OR", w[n + 2] = "REPLACE"
      PROVE  Tiled(w, k, n + 2)
    <2>1. ASSUME NEW j \in (n + 1)..(n + 2)
          PROVE  OfPlainOption(w, k, n + 2 + 1, j)
        <3>1. /\ n + 1 \in (k + 1)..j /\ j < (n + 1) + 2 /\ (n + 1) + 2 <= n + 2 + 1
              /\ (n + 1) + 1 = n + 2 /\ j \in Nat /\ n + 2 + 1 \in Nat
            OBVIOUS
        <3>2. w[n + 1] = "OR" /\ w[(n + 1) + 1] = "REPLACE"
            BY <1>2, <3>1
        <3>3. QED
            BY <3>1, <3>2, OptionsAre DEF Whole
    <2>2. \A j \in (k + 1)..n : OfPlainOption(w, k, n + 2 + 1, j)
        BY <1>1
    <2>3. \A j \in (k + 1)..(n + 2) : j \in (k + 1)..n \/ j \in (n + 1)..(n + 2)
        OBVIOUS
    <2>4. QED
        BY <2>1, <2>2, <2>3, Zenon DEF Tiled
<1>3. ASSUME w[n + 1] = "IF", w[n + 2] = "NOT", w[n + 3] = "EXISTS"
      PROVE  Tiled(w, k, n + 3)
    <2>1. ASSUME NEW j \in (n + 1)..(n + 3)
          PROVE  OfPlainOption(w, k, n + 3 + 1, j)
        <3>1. /\ n + 1 \in (k + 1)..j /\ j < (n + 1) + 3 /\ (n + 1) + 3 <= n + 3 + 1
              /\ (n + 1) + 1 = n + 2 /\ (n + 1) + 2 = n + 3 /\ j \in Nat /\ n + 3 + 1 \in Nat
            OBVIOUS
        <3>2. w[n + 1] = "IF" /\ w[(n + 1) + 1] = "NOT" /\ w[(n + 1) + 2] = "EXISTS"
            BY <1>3, <3>1
        <3>3. QED
            BY <3>1, <3>2, OptionsAre DEF Whole
    <2>2. \A j \in (k + 1)..n : OfPlainOption(w, k, n + 3 + 1, j)
        BY <1>1
    <2>3. \A j \in (k + 1)..(n + 3) : j \in (k + 1)..n \/ j \in (n + 1)..(n + 3)
        OBVIOUS
    <2>4. QED
        BY <2>1, <2>2, <2>3, Zenon DEF Tiled
<1>4. QED
    BY <1>2, <1>3

\* What the state of the scan says of the first n words, k of them the first CREATE.
HeadingFrom(w, k, n, state) ==
    \/ state = "create" /\ Tiled(w, k, n)
    \/ state = "or" /\ k < n /\ Tiled(w, k, n - 1) /\ w[n] = "OR"
    \/ state = "if" /\ k < n /\ Tiled(w, k, n - 1) /\ w[n] = "IF"
    \/ state = "temp" /\ k < n /\ Tiled(w, k, n - 1) /\ w[n] = "TEMP"
    \/ state = "not" /\ k < n - 1 /\ Tiled(w, k, n - 2) /\ w[n - 1] = "IF" /\ w[n] = "NOT"
    \/ state = "other" /\ \A m \in DOMAIN w : n < m => ~ CompletesPlainly(w, k, m)

Heading(w, n, state) ==
    /\ \A k, m \in DOMAIN w : m <= n => ~ CompletesPlainly(w, k, m)
    /\ \/ state = "before" /\ \A j \in 1..n : w[j] # "CREATE"
       \/ \E k \in 1..n : FirstCreate(w, k) /\ HeadingFrom(w, k, n, state)

\* One word more, behind the first CREATE.
LEMMA HeadingOn ==
    ASSUME NEW w \in Seq(Words), NEW n \in Nat, n < Len(w), NEW k \in 1..n, NEW state,
           FirstCreate(w, k), HeadingFrom(w, k, n, state)
    PROVE  LET next == Follow(state, w[n + 1])
           IN  IF next = "trigger" THEN CompletesPlainly(w, k, n + 1)
               ELSE HeadingFrom(w, k, n + 1, next) /\ ~ CompletesPlainly(w, k, n + 1)
<1> DEFINE word == w[n + 1]
           next == Follow(state, word)
           Goal == IF next = "trigger" THEN CompletesPlainly(w, k, n + 1)
                   ELSE HeadingFrom(w, k, n + 1, next) /\ ~ CompletesPlainly(w, k, n + 1)
<1>1. /\ DOMAIN w = 1..Len(w) /\ Len(w) \in Nat /\ k \in DOMAIN w /\ k \in Nat /\ n + 1 \in DOMAIN w
      /\ n + 1 \in Nat /\ k < n + 1 /\ (n + 1) - 1 = n /\ (n + 1) - 2 = n - 1
    BY LenProperties
<1>2. word # "TRIGGER" => ~ CompletesPlainly(w, k, n + 1)
    BY DEF CompletesPlainly
<1>3. CASE state = "create" /\ Tiled(w, k, n)
    <2>1. CASE word = "TRIGGER"
        <3>1. next = "trigger"
            BY <1>3, <2>1 DEF Follow
        <3>2. \A j \in (k + 1)..((n + 1) - 1) : OfPlainOption(w, k, n + 1, j)
            BY <1>1, <1>3 DEF Tiled
        <3>3. w[k] = "CREATE" /\ \A j \in 1..(k - 1) : w[j] # "CREATE"
            BY DEF FirstCreate
        <3>4. CompletesPlainly(w, k, n + 1)
            BY <1>1, <2>1, <3>2, <3>3, Zenon DEF CompletesPlainly
        <3>5. QED
            BY <3>1, <3>4
    <2>2. CASE word = "TEMP"
        BY <1>1, <1>2, <1>3, <2>2 DEF Follow, HeadingFrom
    <2>3. CASE word = "OR"
        BY <1>1, <1>2, <1>3, <2>3 DEF Follow, HeadingFrom
    <2>4. CASE word = "IF"
        BY <1>1, <1>2, <1>3, <2>4 DEF Follow, HeadingFrom
    <2>5. CASE word \notin {"TRIGGER", "TEMP", "OR", "IF"}
        <3>1. next = "other"
            BY <1>3, <2>5 DEF Follow
        <3>2. ASSUME NEW m \in DOMAIN w, n + 1 < m, CompletesPlainly(w, k, m)
              PROVE  FALSE
            <4>1. m \in Nat /\ n < m /\ m # n + 1 /\ k <= n
                BY <1>1, <3>2
            <4>2. \/ m = n + 1
                  \/ m = n + 2 /\ w[n + 1] = "TEMP"
                  \/ n + 2 < m /\ w[n + 1] = "OR" /\ w[n + 2] = "REPLACE"
                  \/ n + 3 < m /\ w[n + 1] = "IF" /\ w[n + 2] = "NOT" /\ w[n + 3] = "EXISTS"
                BY <1>1, <1>3, <3>2, <4>1, TilesGoOn, Zenon
            <4>3. QED
                BY <2>5, <4>1, <4>2
        <3>3. QED
            BY <1>2, <2>5, <3>1, <3>2 DEF HeadingFrom
    <2>6. QED
        BY <2>1, <2>2, <2>3, <2>4, <2>5
<1>4. CASE state = "temp" /\ k < n /\ Tiled(w, k, n - 1) /\ w[n] = "TEMP"
    <2>1. n - 1 \in Nat /\ k <= n - 1 /\ n - 1 < n + 1 /\ (n - 1) + 1 = n /\ (n - 1) + 2 = n + 1
        BY <1>1, <1>4
    <2>2. CASE word = "TRIGGER"
        <3>1. next = "trigger"
            BY <1>4, <2>2 DEF Follow
        <3>2. ASSUME NEW j \in (k + 1)..((n + 1) - 1)
              PROVE  OfPlainOption(w, k, n + 1, j) \/ (j = (n + 1) - 1 /\ w[j] = "TEMP")
            <4>1. CASE j = n
                BY <1>1, <1>4, <4>1
            <4>2. CASE j # n
                <5>1. j \in (k + 1)..(n - 1) /\ j \in Nat
                    BY <1>1, <4>2
                <5>2. OfPlainOption(w, k, n, j)
                    BY <1>4, <2>1, <5>1 DEF Tiled
                <5>3. PICK from \in (k + 1)..j : Whole(w, n, j, from)
                    BY <1>1, <5>1, <5>2, OptionsAre, Zenon
                <5>4. Whole(w, n + 1, j, from)
                    BY <5>1, <5>3 DEF Whole
                <5>5. QED
                    BY <1>1, <5>1, <5>3, <5>4, OptionsAre, Zenon
            <4>3. QED
                BY <4>1, <4>2
        <3>3. w[k] = "CREATE" /\ \A j \in 1..(k - 1) : w[j] # "CREATE"
            BY DEF FirstCreate
        <3>4. CompletesPlainly(w, k, n + 1)
            BY <1>1, <2>2, <3>2, <3>3, Zenon DEF CompletesPlainly
        <3>5. QED
            BY <3>1, <3>4
    <2>3. CASE word # "TRIGGER"
        <3>1. next = "other"
            BY <1>4, <2>3 DEF Follow
        <3>2. ASSUME NEW m \in DOMAIN w, n + 1 < m, CompletesPlainly(w, k, m)
              PROVE  FALSE
            <4>1. m \in Nat /\ n - 1 < m /\ m # n /\ m # n + 1
                BY <1>1, <3>2
            <4>2. w[n] \in {"OR", "IF"}
                BY <1>1, <1>4, <2>1, <3>2, <4>1, TilesGoOn
            <4>3. QED
                BY <1>4, <4>2
        <3>3. QED
            BY <1>2, <2>3, <3>1, <3>2 DEF HeadingFrom
    <2>4. QED
        BY <2>2, <2>3
<1>5. CASE state = "or" /\ k < n /\ Tiled(w, k, n - 1) /\ w[n] = "OR"
    <2>1. n - 1 \in Nat /\ k <= n - 1 /\ n - 1 < n + 1 /\ (n - 1) + 1 = n /\ (n - 1) + 2 = n + 1
        BY <1>1, <1>5
    <2>2. CASE word = "REPLACE"
        <3>1. Tiled(w, k, n + 1)
            BY <1>1, <1>5, <2>1, <2>2, TilesGrow
        <3>2. QED
            BY <1>2, <1>5, <2>2, <3>1 DEF Follow, HeadingFrom
    <2>3. CASE word # "REPLACE"
        <3>1. next = "other"
            BY <1>5, <2>3 DEF Follow
        <3>2. ASSUME NEW m \in DOMAIN w, n < m, CompletesPlainly(w, k, m)
              PROVE  FALSE
            <4>1. m \in Nat /\ n - 1 < m /\ m # n
                BY <1>1, <3>2
            <4>2. w[n] = "TEMP" \/ w[n] = "IF" \/ w[n + 1] = "REPLACE"
                BY <1>1, <1>5, <2>1, <3>2, <4>1, TilesGoOn
            <4>3. QED
                BY <1>5, <2>3, <4>2
        <3>3. ~ CompletesPlainly(w, k, n + 1)
            BY <1>1, <3>2
        <3>4. \A m \in DOMAIN w : n + 1 < m => ~ CompletesPlainly(w, k, m)
            BY <1>1, <3>2
        <3>5. QED
            BY <3>1, <3>3, <3>4 DEF HeadingFrom
    <2>4. QED
        BY <2>2, <2>3
<1>6. CASE state = "if" /\ k < n /\ Tiled(w, k, n - 1) /\ w[n] = "IF"
    <2>1. n - 1 \in Nat /\ k <= n - 1 /\ n - 1 < n + 1 /\ (n - 1) + 1 = n /\ (n - 1) + 2 = n + 1
        BY <1>1, <1>6
    <2>2. CASE word = "NOT"
        <3>1. k < (n + 1) - 1 /\ (n + 1) - 2 = n - 1
            BY <1>1, <1>6
        <3>2. QED
            BY <1>1, <1>2, <1>6, <2>2, <3>1 DEF Follow, HeadingFrom
    <2>3. CASE word # "NOT"
        <3>1. next = "other"
            BY <1>6, <2>3 DEF Follow
        <3>2. ASSUME NEW m \in DOMAIN w, n < m, CompletesPlainly(w, k, m)
              PROVE  FALSE
            <4>1. m \in Nat /\ n - 1 < m /\ m # n
                BY <1>1, <3>2
            <4>2. w[n] = "TEMP" \/ w[n] = "OR" \/ w[n + 1] = "NOT"
                <5>1. \/ m = (n - 1) + 1
                      \/ m = (n - 1) + 2 /\ w[(n - 1) + 1] = "TEMP"
                      \/ (n - 1) + 2 < m /\ w[(n - 1) + 1] = "OR" /\ w[(n - 1) + 2] = "REPLACE"
                      \/ /\ (n - 1) + 3 < m /\ w[(n - 1) + 1] = "IF" /\ w[(n - 1) + 2] = "NOT"
                         /\ w[(n - 1) + 3] = "EXISTS"
                    BY <1>1, <1>6, <2>1, <3>2, <4>1, TilesGoOn, Zenon
                <5>2. QED
                    BY <2>1, <4>1, <5>1
            <4>3. QED
                BY <1>6, <2>3, <4>2
        <3>3. ~ CompletesPlainly(w, k, n + 1)
            BY <1>1, <3>2
        <3>4. \A m \in DOMAIN w : n + 1 < m => ~ CompletesPlainly(w, k, m)
            BY <1>1, <3>2
        <3>5. QED
            BY <3>1, <3>3, <3>4 DEF HeadingFrom
    <2>4. QED
        BY <2>2, <2>3
<1>7. CASE state = "not" /\ k < n - 1 /\ Tiled(w, k, n - 2) /\ w[n - 1] = "IF" /\ w[n] = "NOT"
    <2>1. /\ n - 2 \in Nat /\ k <= n - 2 /\ n - 2 < n + 1 /\ (n - 2) + 1 = n - 1 /\ (n - 2) + 2 = n
          /\ (n - 2) + 3 = n + 1
        BY <1>1, <1>7
    <2>2. CASE word = "EXISTS"
        <3>1. Tiled(w, k, n + 1)
            BY <1>1, <1>7, <2>1, <2>2, TilesGrow
        <3>2. QED
            BY <1>2, <1>7, <2>2, <3>1 DEF Follow, HeadingFrom
    <2>3. CASE word # "EXISTS"
        <3>1. next = "other"
            BY <1>7, <2>3 DEF Follow
        <3>2. ASSUME NEW m \in DOMAIN w, n < m, CompletesPlainly(w, k, m)
              PROVE  FALSE
            <4>1. m \in Nat /\ n - 2 < m /\ m # n - 1
                BY <1>1, <3>2
            <4>2. w[n - 1] = "TEMP" \/ w[n - 1] = "OR" \/ w[n + 1] = "EXISTS"
                <5>1. \/ m = (n - 2) + 1
                      \/ m = (n - 2) + 2 /\ w[(n - 2) + 1] = "TEMP"
                      \/ (n - 2) + 2 < m /\ w[(n - 2) + 1] = "OR" /\ w[(n - 2) + 2] = "REPLACE"
                      \/ /\ (n - 2) + 3 < m /\ w[(n - 2) + 1] = "IF" /\ w[(n - 2) + 2] = "NOT"
                         /\ w[(n - 2) + 3] = "EXISTS"
                    BY <1>1, <1>7, <2>1, <3>2, <4>1, TilesGoOn, Zenon
                <5>2. QED
                    BY <2>1, <4>1, <5>1
            <4>3. QED
                BY <1>7, <2>3, <4>2
        <3>3. ~ CompletesPlainly(w, k, n + 1)
            BY <1>1, <3>2
        <3>4. \A m \in DOMAIN w : n + 1 < m => ~ CompletesPlainly(w, k, m)
            BY <1>1, <3>2
        <3>5. QED
            BY <3>1, <3>3, <3>4 DEF HeadingFrom
    <2>4. QED
        BY <2>2, <2>3
<1>8. CASE state = "other" /\ \A m \in DOMAIN w : n < m => ~ CompletesPlainly(w, k, m)
    <2>1. next = "other"
        BY <1>8 DEF Follow
    <2>2. ~ CompletesPlainly(w, k, n + 1)
        BY <1>1, <1>8
    <2>3. \A m \in DOMAIN w : n + 1 < m => ~ CompletesPlainly(w, k, m)
        BY <1>1, <1>8
    <2>4. QED
        BY <2>1, <2>2, <2>3 DEF HeadingFrom
<1>9. Goal
    BY <1>3, <1>4, <1>5, <1>6, <1>7, <1>8 DEF HeadingFrom
<1>10. QED
    BY <1>9

\* One word more.
LEMMA HeadingGoesOn ==
    ASSUME NEW w \in Seq(Words), NEW n \in Nat, n < Len(w), NEW state, Heading(w, n, state)
    PROVE  LET next == Follow(state, w[n + 1])
           IN  IF next = "trigger" THEN CreatesPlainTrigger(w) ELSE Heading(w, n + 1, next)
<1> DEFINE next == Follow(state, w[n + 1])
<1>1. DOMAIN w = 1..Len(w) /\ Len(w) \in Nat /\ n + 1 \in DOMAIN w /\ n + 1 \in Nat
    BY LenProperties
<1>2. ASSUME NEW k \in DOMAIN w, FirstCreate(w, k), NEW j \in DOMAIN w, NEW m \in DOMAIN w,
             CompletesPlainly(w, j, m)
      PROVE  j = k
    <2>1. /\ w[k] = "CREATE" /\ \A q \in 1..(k - 1) : w[q] # "CREATE"
          /\ w[j] = "CREATE" /\ \A q \in 1..(j - 1) : w[q] # "CREATE"
        BY <1>2 DEF FirstCreate, CompletesPlainly
    <2>2. j \in Nat \ {0} /\ k \in Nat \ {0}
        BY <1>1
    <2>3. QED
        BY <2>1, <2>2
<1>3. ASSUME \A k \in DOMAIN w : ~ CompletesPlainly(w, k, n + 1)
      PROVE  \A k, m \in DOMAIN w : m <= n + 1 => ~ CompletesPlainly(w, k, m)
    <2>1. \A m \in DOMAIN w : m <= n + 1 => m <= n \/ m = n + 1
        BY <1>1
    <2>2. QED
        BY <1>3, <2>1 DEF Heading
<1>4. CASE state = "before" /\ \A j \in 1..n : w[j] # "CREATE"
    <2>1. \A k \in DOMAIN w : ~ CompletesPlainly(w, k, n + 1)
        <3>1. \A k \in DOMAIN w : k < n + 1 => k \in 1..n
            BY <1>1
        <3>2. QED
            BY <1>4, <3>1 DEF CompletesPlainly
    <2>2. CASE w[n + 1] = "CREATE"
        <3>1. next = "create"
            BY <1>4, <2>2 DEF Follow
        <3>2. FirstCreate(w, n + 1)
            BY <1>1, <1>4, <2>2 DEF FirstCreate
        <3>3. Tiled(w, n + 1, n + 1)
            BY DEF Tiled
        <3>4. n + 1 \in 1..(n + 1)
            OBVIOUS
        <3>5. QED
            BY <1>3, <2>1, <3>1, <3>2, <3>3, <3>4 DEF Heading, HeadingFrom
    <2>3. CASE w[n + 1] # "CREATE"
        <3>1. next = "before"
            BY <1>4, <2>3 DEF Follow
        <3>2. \A j \in 1..(n + 1) : w[j] # "CREATE"
            <4>1. \A j \in 1..(n + 1) : j \in 1..n \/ j = n + 1
                OBVIOUS
            <4>2. QED
                BY <1>4, <2>3, <4>1
        <3>3. QED
            BY <1>3, <2>1, <3>1, <3>2 DEF Heading
    <2>4. QED
        BY <2>2, <2>3
<1>5. ASSUME NEW k \in 1..n, FirstCreate(w, k), HeadingFrom(w, k, n, state)
      PROVE  IF next = "trigger" THEN CreatesPlainTrigger(w) ELSE Heading(w, n + 1, next)
    <2>1. IF next = "trigger" THEN CompletesPlainly(w, k, n + 1)
          ELSE HeadingFrom(w, k, n + 1, next) /\ ~ CompletesPlainly(w, k, n + 1)
        BY <1>5, HeadingOn
    <2>2. k \in DOMAIN w /\ k \in 1..(n + 1)
        BY <1>1
    <2>3. CASE next = "trigger"
        BY <1>1, <2>1, <2>2, <2>3 DEF CreatesPlainTrigger
    <2>4. CASE next # "trigger"
        <3>1. \A j \in DOMAIN w : ~ CompletesPlainly(w, j, n + 1)
            BY <1>1, <1>2, <1>5, <2>1, <2>2, <2>4
        <3>2. QED
            BY <1>3, <1>5, <2>1, <2>2, <2>4, <3>1, Zenon DEF Heading
    <2>5. QED
        BY <2>3, <2>4
<1>6. QED
    BY <1>4, <1>5 DEF Heading

-----------------------------------------------------------------------------
(***************************************************************************)
(* The scan: the state it is in is where the words before the one under    *)
(* way lead, and of that one it has the symbols.                           *)
(***************************************************************************)
WordUnderWay(s, i, token, state, begun, trigger) ==
    LET p == i - Len(token)
    IN  /\ state = Outside /\ p \in 1..(i - 1) /\ IsWord(s, p) /\ IsWord(s, i - 1)
        /\ token[1] = s[p] /\ (Len(token) > 1 => IsWord(s, p + 1))
        /\ begun \in Nat \ {0} /\ WordsUpTo(s)[i - 1][begun] = WordAt(s, p)
        /\ Heading(WordsOf(s), begun - 1, trigger)

WordsSoFar ==
    scan.answer = "none" =>
        LET s == scan.statement
            i == scan.index
            begun == Len(WordsUpTo(s)[i - 1])
        IN  IF scan.token = <<>> THEN ~ IsWord(s, i - 1) /\ Heading(WordsOf(s), begun, scan.trigger)
            ELSE WordUnderWay(s, i, scan.token, scan.state, begun, scan.trigger)

PlainTriggersAreRefused ==
    /\ scan.answer = "trigger" => CreatesPlainTrigger(WordsOf(scan.statement))
    /\ scan.answer = "ok" => ~ CreatesPlainTrigger(WordsOf(scan.statement))

WordsInv == WordsSoFar /\ PlainTriggersAreRefused

\* What is known of a scan under way.
LEMMA ScanIs ==
    ASSUME ScanInv, scan.answer = "none"
    PROVE  /\ scan \in ScanType /\ scan.statement \in Seq(Symbols) /\ Len(scan.statement) \in Nat
           /\ scan.index \in Nat \ {0} /\ scan.index <= Len(scan.statement) + 1
           /\ scan.index - 1 \in 0..Len(scan.statement)
           /\ scan.token \in Seq(Words) /\ Len(scan.token) \in Nat
           /\ scan.token = <<>> <=> Len(scan.token) = 0
<1>1. scan \in ScanType /\ scan.index <= Len(scan.statement) + 1
    BY DEF ScanInv, PiecesSoFar
<1>2. scan.statement \in Seq(Symbols) /\ scan.index \in Nat \ {0} /\ scan.token \in Seq(Words)
    BY <1>1 DEF ScanType
<1>3. Len(scan.statement) \in Nat /\ Len(scan.token) \in Nat /\ (scan.token = <<>> <=> Len(scan.token) = 0)
    BY <1>2, LenProperties, EmptySeq
<1>4. QED
    BY <1>1, <1>2, <1>3

\* Places that are of no word add no word.
LEMMA NoWords ==
    ASSUME NEW s \in Seq(Symbols), NEW i \in Nat \ {0}, NEW length \in {1, 2},
           i + length <= Len(s) + 1, \A q \in i..(i + length - 1) : ~ IsWord(s, q)
    PROVE  WordsUpTo(s)[i + length - 1] = WordsUpTo(s)[i - 1] /\ ~ IsWord(s, i + length - 1)
<1>1. Len(s) \in Nat
    BY LenProperties
<1>2. \A q \in 1..Len(s) : ~ IsWord(s, q) => WordsUpTo(s)[q] = WordsUpTo(s)[q - 1]
    BY WordsGoOn
<1>3. CASE length = 1
    <2>1. i + length - 1 = i /\ i \in i..i /\ i \in 1..Len(s)
        BY <1>1, <1>3
    <2>2. QED
        BY <1>2, <2>1
<1>4. CASE length = 2
    <2>1. /\ i + length - 1 = i + 1 /\ i \in i..(i + 1) /\ i + 1 \in i..(i + 1)
          /\ i \in 1..Len(s) /\ i + 1 \in 1..Len(s) /\ (i + 1) - 1 = i
        BY <1>1, <1>4
    <2>2. ~ IsWord(s, i) /\ ~ IsWord(s, i + 1)
        BY <2>1
    <2>3. WordsUpTo(s)[i + 1] = WordsUpTo(s)[i] /\ WordsUpTo(s)[i] = WordsUpTo(s)[i - 1]
        BY <1>2, <2>1, <2>2
    <2>4. QED
        BY <2>1, <2>2, <2>3
<1>5. QED
    BY <1>3, <1>4

\* A turn that meets no word and ends none.
LEMMA NoWordKeeps ==
    ASSUME ScanInv, WordsSoFar, scan.answer = "none", scan.token = <<>>, NEW length \in {1, 2},
           scan.index + length <= Len(scan.statement) + 1,
           \A q \in scan.index..(scan.index + length - 1) : ~ IsWord(scan.statement, q),
           scan'.statement = scan.statement, scan'.index = scan.index + length,
           scan'.token = <<>>, scan'.trigger = scan.trigger, scan'.answer = "none"
    PROVE  WordsInv'
<1>1. scan.statement \in Seq(Symbols) /\ scan.index \in Nat \ {0}
    BY ScanIs
<1>2. /\ WordsUpTo(scan.statement)[scan'.index - 1] = WordsUpTo(scan.statement)[scan.index - 1]
      /\ ~ IsWord(scan.statement, scan'.index - 1)
    <2> DEFINE s == scan.statement
               i == scan.index
    <2>1. s \in Seq(Symbols) /\ i \in Nat \ {0} /\ i + length <= Len(s) + 1
          /\ \A q \in i..(i + length - 1) : ~ IsWord(s, q)
        BY <1>1
    <2> HIDE DEF s, i
    <2>2. WordsUpTo(s)[i + length - 1] = WordsUpTo(s)[i - 1] /\ ~ IsWord(s, i + length - 1)
        BY <2>1, NoWords
    <2>3. scan'.index = i + length
        BY DEF i
    <2>4. QED
        BY <2>1, <2>2, <2>3 DEF s, i
<1>3. Heading(WordsOf(scan.statement), Len(WordsUpTo(scan.statement)[scan.index - 1]), scan.trigger)
    BY DEF WordsSoFar
<1>4. WordsSoFar'
    BY <1>2, <1>3 DEF WordsSoFar
<1>5. PlainTriggersAreRefused'
    BY DEF PlainTriggersAreRefused
<1>6. QED
    BY <1>4, <1>5 DEF WordsInv

\* Where the words lead, the one that ends here with them.
LEMMA WordEnds ==
    ASSUME ScanInv, WordsSoFar, scan.answer = "none", ~ IsWord(scan.statement, scan.index)
    PROVE  IF Consumed = "trigger" THEN CreatesPlainTrigger(WordsOf(scan.statement))
           ELSE Heading(WordsOf(scan.statement),
                        Len(WordsUpTo(scan.statement)[scan.index - 1]), Consumed)
<1> DEFINE s == scan.statement
           i == scan.index
           w == WordsOf(s)
           upto == WordsUpTo(s)[i - 1]
           token == scan.token
<1>1. /\ s \in Seq(Symbols) /\ i \in Nat \ {0} /\ token \in Seq(Words) /\ Len(token) \in Nat
      /\ i - 1 \in 0..Len(s) /\ (token = <<>> <=> Len(token) = 0)
    BY ScanIs
<1>2. upto \in Seq(Words) /\ w \in Seq(Words) /\ IsBeginning(upto, w) /\ Len(upto) \in Nat
    BY <1>1, WordsStay, LenProperties
<1>3. CASE token = <<>>
    <2>1. Consumed = scan.trigger /\ Heading(w, Len(upto), scan.trigger)
        BY <1>3 DEF WordsSoFar, Consumed
    <2>2. scan.trigger # "trigger"
        BY <2>1 DEF Heading, HeadingFrom
    <2>3. QED
        BY <2>1, <2>2
<1>4. CASE token # <<>>
    <2> DEFINE n == Len(upto) - 1
               p == i - Len(token)
    <2>1. /\ p \in 1..(i - 1) /\ token[1] = s[p] /\ (Len(token) > 1 => IsWord(s, p + 1))
          /\ n + 1 = Len(upto) /\ n \in Nat /\ upto[n + 1] = WordAt(s, p) /\ Heading(w, n, scan.trigger)
        <3>1. WordUnderWay(s, i, token, scan.state, Len(upto), scan.trigger)
            BY <1>4, Zenon DEF WordsSoFar
        <3>2. QED
            BY <1>2, <3>1 DEF WordUnderWay
    <2>2. n < Len(w) /\ w[n + 1] = WordAt(s, p)
        <3>1. n + 1 \in 1..Len(upto) /\ Len(w) \in Nat
            BY <1>2, <2>1, LenProperties
        <3>2. QED
            BY <1>2, <2>1, <3>1 DEF IsBeginning
    <2>3. WordAt(s, p) = IF Len(token) = 1 THEN token[1] ELSE "x"
        <3>1. CASE Len(token) = 1
            <4>1. p + 1 = i
                BY <1>1, <3>1
            <4>2. QED
                BY <2>1, <3>1, <4>1 DEF WordAt
        <3>2. CASE Len(token) # 1
            <4> DEFINE c == Len(token)
            <4>1. c \in Nat /\ c # 0 /\ c # 1
                BY <1>1, <1>4, <3>2
            <4> HIDE DEF c
            <4>2. Len(token) > 1
                <5>1. c > 1
                    BY <4>1
                <5>2. QED
                    BY <5>1 DEF c
            <4>3. QED
                BY <2>1, <3>2, <4>2 DEF WordAt
        <3>3. QED
            BY <3>1, <3>2
    <2>4. Consumed = Follow(scan.trigger, w[n + 1])
        BY <1>4, <2>2, <2>3 DEF Consumed
    <2>5. IF Follow(scan.trigger, w[n + 1]) = "trigger" THEN CreatesPlainTrigger(w)
          ELSE Heading(w, n + 1, Follow(scan.trigger, w[n + 1]))
        <3> HIDE DEF w, n
        <3>1. QED
            BY <1>2, <2>1, <2>2, HeadingGoesOn
    <2>6. QED
        BY <2>1, <2>4, <2>5
<1>5. QED
    BY <1>3, <1>4

\* A turn that meets no word, and may end one.
LEMMA ConsumeWord ==
    ASSUME ScanInv, WordsSoFar, scan.answer = "none", NEW new \in ScanType, Consume(new),
           NEW length \in {0, 1, 2}, new.index = scan.index + length, new.statement = scan.statement,
           scan.index + length <= Len(scan.statement) + 1,
           ~ IsWord(scan.statement, scan.index),
           \A q \in scan.index..(scan.index + length - 1) : ~ IsWord(scan.statement, q),
           new.answer # "trigger",
           new.answer = "ok" => scan.index = Len(scan.statement) + 1,
           new.answer = "none" => length # 0
    PROVE  WordsInv'
<1> DEFINE s == scan.statement
           w == WordsOf(s)
           upto == WordsUpTo(s)[scan.index - 1]
<1>1. /\ s \in Seq(Symbols) /\ scan.index \in Nat \ {0} /\ Len(s) \in Nat
      /\ scan \in ScanType /\ scan.index - 1 \in 0..Len(s)
    BY ScanIs
<1>2. IF Consumed = "trigger" THEN CreatesPlainTrigger(w) ELSE Heading(w, Len(upto), Consumed)
    BY WordEnds
<1>3. CASE Consumed = "trigger"
    <2>1. scan' = [scan EXCEPT !.answer = "trigger"]
        BY <1>3 DEF Consume, Refused
    <2>2. scan'.answer = "trigger" /\ scan'.statement = s
        BY <1>1, <2>1 DEF ScanType
    <2>3. QED
        BY <1>2, <1>3, <2>2 DEF WordsInv, WordsSoFar, PlainTriggersAreRefused
<1>4. CASE Consumed # "trigger"
    <2>1. scan' = [new EXCEPT !.token = <<>>, !.trigger = Consumed]
        BY <1>4 DEF Consume
    <2>2. /\ scan'.answer = new.answer /\ scan'.statement = s /\ scan'.index = scan.index + length
          /\ scan'.token = <<>> /\ scan'.trigger = Consumed
        BY <2>1 DEF ScanType
    <2>3. WordsSoFar'
        <3>1. SUFFICES ASSUME new.answer = "none" PROVE WordsSoFar'
            BY <2>2 DEF WordsSoFar
        <3>2. length # 0
            BY <3>1
        <3>3. WordsUpTo(s)[scan'.index - 1] = upto /\ ~ IsWord(s, scan'.index - 1)
            <4> DEFINE i == scan.index
            <4>1. length \in {1, 2} /\ i \in Nat \ {0} /\ i + length <= Len(s) + 1
                  /\ \A q \in i..(i + length - 1) : ~ IsWord(s, q)
                BY <1>1, <3>2
            <4> HIDE DEF s, i
            <4>2. WordsUpTo(s)[i + length - 1] = WordsUpTo(s)[i - 1] /\ ~ IsWord(s, i + length - 1)
                BY <1>1, <4>1, NoWords
            <4>3. scan'.index = i + length
                BY <2>2 DEF i
            <4>4. QED
                BY <4>1, <4>2, <4>3 DEF i
        <3>4. Heading(w, Len(upto), Consumed)
            BY <1>2, <1>4
        <3>5. QED
            BY <2>2, <3>3, <3>4 DEF WordsSoFar
    <2>4. PlainTriggersAreRefused'
        <3>1. SUFFICES ASSUME new.answer = "ok" PROVE ~ CreatesPlainTrigger(w)
            BY <2>2 DEF PlainTriggersAreRefused
        <3>2. scan.index - 1 = Len(s)
            BY <1>1, <3>1
        <3>3. upto = w
            BY <1>1, <3>2, WordsGoOn
        <3>4. w \in Seq(Words) /\ DOMAIN w = 1..Len(w) /\ Len(w) \in Nat
            BY <1>1, WordsStay, LenProperties
        <3>5. \A k, m \in DOMAIN w : m <= Len(w) => ~ CompletesPlainly(w, k, m)
            BY <1>2, <1>4, <3>3 DEF Heading
        <3>6. QED
            BY <3>4, <3>5 DEF CreatesPlainTrigger
    <2>5. QED
        BY <2>3, <2>4 DEF WordsInv
<1>5. QED
    BY <1>3, <1>4

-----------------------------------------------------------------------------
\* The turns of the loop, and the words.  What stands inside is no piece of its own.
LEMMA InsideIsNoWord ==
    ASSUME ScanInv, Scanning, scan.state # Outside
    PROVE  ~ IsWord(scan.statement, scan.index)
<1> DEFINE s == scan.statement
           i == scan.index
           state == scan.state
           end == EndOf(s, state, i)
<1>1. /\ scan.answer = "none" /\ s \in Seq(Symbols) /\ Len(s) \in Nat /\ i \in Nat \ {0} /\ i <= Len(s)
    BY ScanIs DEF Scanning
<1>2. PICK read \in SUBSET (1..(i - 1)) : Pieces(s) = read \cup Starts(s)[end + 1]
    BY <1>1 DEF ScanInv, PiecesSoFar, Coming
<1>3. end \in i..Len(s)
    <2>1. end = Len(s) \/ end \in Lowest(state, i)..Len(s)
        <3> HIDE DEF s, i, state
        <3>1. QED
            BY <1>1, EndStays
    <2>2. Lowest(state, i) \in {i, i + 1}
        BY DEF Lowest
    <2> HIDE DEF s, i, state, end
    <2>3. QED
        BY <1>1, <2>1, <2>2
<1>4. Starts(s)[end + 1] \subseteq (end + 1)..Len(s)
    <2>1. end + 1 \in 1..(Len(s) + 1)
        <3> HIDE DEF end, s, i
        <3>1. QED
            BY <1>1, <1>3
    <2>2. QED
        BY <1>1, <2>1, StartsGoOn
<1>5. i \notin Pieces(s)
    <2> HIDE DEF end, s, i
    <2>1. i \notin 1..(i - 1) /\ i \notin (end + 1)..Len(s)
        BY <1>1, <1>3
    <2>2. QED
        BY <1>2, <1>4, <2>1
<1>6. QED
    BY <1>5 DEF IsWord

LEMMA InsideWords ==
    ASSUME ScanInv, WordsSoFar, InLineComment \/ InBlockComment \/ InQuote \/ InBracket
    PROVE  WordsInv'
<1> DEFINE s == scan.statement
           i == scan.index
<1>1. Scanning /\ scan.state # Outside
    BY Zenon DEF InLineComment, InBlockComment, InQuote, InBracket, Inside, Outside, Quotes
<1>2. /\ scan \in ScanType /\ scan.answer = "none" /\ s \in Seq(Symbols) /\ Len(s) \in Nat
      /\ i \in Nat \ {0} /\ i <= Len(s)
    BY <1>1, ScanIs DEF Scanning
<1>3. scan.token = <<>>
    BY <1>1, <1>2 DEF WordsSoFar, WordUnderWay
<1>4. ~ IsWord(s, i)
    BY <1>1, InsideIsNoWord
<1>5. ASSUME NEW length \in {1, 2}, Stay(length) \/ Leave(length),
             length = 2 => i + 1 <= Len(s) /\ ~ IsWord(s, i + 1)
      PROVE  WordsInv'
    <2>1. /\ scan'.statement = s /\ scan'.index = i + length /\ scan'.token = <<>>
          /\ scan'.trigger = scan.trigger /\ scan'.answer = "none"
        BY <1>2, <1>3, <1>5 DEF Stay, Leave, ScanType
    <2>2. i + length <= Len(s) + 1
        BY <1>2, <1>5
    <2>3. \A q \in i..(i + length - 1) : ~ IsWord(s, q)
        <3>1. \A q \in i..(i + length - 1) : q = i \/ (q = i + 1 /\ length = 2)
            BY <1>2
        <3>2. QED
            BY <1>4, <1>5, <3>1
    <2>4. QED
        BY <1>2, <1>3, <2>1, <2>2, <2>3, NoWordKeeps
<1>6. Pair[2] = IF i < Len(s) THEN s[i + 1] ELSE ""
    BY DEF Pair, PairAt
<1>7. CASE InLineComment \/ InBracket
    BY <1>5, <1>7 DEF InLineComment, InBracket
<1>8. ASSUME Pair[2] # "", Pair[2] \notin Words
      PROVE  i + 1 <= Len(s) /\ ~ IsWord(s, i + 1)
    <2>1. i < Len(s) /\ s[i + 1] = Pair[2]
        BY <1>6, <1>8
    <2>2. i + 1 <= Len(s)
        BY <1>2, <2>1
    <2>3. QED
        BY <1>8, <2>1, <2>2, Zenon DEF IsWord
<1>9. CASE InBlockComment
    <2>1. IF Pair = <<Star, Slash>> THEN Leave(2) ELSE Stay(1)
        BY <1>9, Zenon DEF InBlockComment, Star, Slash
    <2>2. CASE Pair = <<Star, Slash>>
        <3>1. Slash # "" /\ Slash \notin Words
            BY SignsDiffer DEF Slash
        <3>2. Pair[2] = Slash
            BY <2>2
        <3>3. QED
            BY <1>5, <1>8, <2>1, <2>2, <3>1, <3>2
    <2>3. CASE Pair # <<Star, Slash>>
        BY <1>5, <2>1, <2>3
    <2>4. QED
        BY <2>2, <2>3
<1>10. CASE InQuote
    <2>1. PICK quote \in Quotes :
            IF Current # quote THEN Stay(1) ELSE IF Pair[2] = quote THEN Stay(2) ELSE Leave(1)
        BY <1>10 DEF InQuote
    <2>2. quote # "" /\ quote \notin Words
        BY SignsDiffer DEF Quotes
    <2>3. CASE Current = quote /\ Pair[2] = quote
        BY <1>5, <1>8, <2>1, <2>2, <2>3
    <2>4. CASE ~ (Current = quote /\ Pair[2] = quote)
        BY <1>5, <2>1, <2>4
    <2>5. QED
        BY <2>3, <2>4
<1>11. QED
    BY <1>7, <1>9, <1>10

\* What follows the opening of a comment is no piece, or no symbol of a word.
LEMMA OutsideWords ==
    ASSUME ScanInv, WordsSoFar, Space \/ Comment \/ Quote \/ Sign
    PROVE  WordsInv'
<1> DEFINE s == scan.statement
           i == scan.index
<1>1. Normal
    BY DEF Space, Comment, Quote, Sign, Token
<1>2. /\ scan \in ScanType /\ scan.answer = "none" /\ s \in Seq(Symbols) /\ Len(s) \in Nat
      /\ i \in 1..Len(s) /\ Current = s[i] /\ Pair = PairAt(s, i)
    BY <1>1, OutsideType
<1>3. ASSUME NEW new \in ScanType, Consume(new), NEW length \in {1, 2}, new.index = i + length,
             new.statement = s, new.answer = "none", ~ IsWord(s, i),
             length = 2 => i + 1 <= Len(s) /\ ~ IsWord(s, i + 1)
      PROVE  WordsInv'
    <2>1. i + length <= Len(s) + 1 /\ length # 0
        BY <1>2, <1>3
    <2>2. \A q \in i..(i + length - 1) : ~ IsWord(s, q)
        <3>1. \A q \in i..(i + length - 1) : q = i \/ (q = i + 1 /\ length = 2)
            BY <1>2
        <3>2. QED
            BY <1>3, <3>1
    <2>3. new.answer # "trigger" /\ new.answer # "ok"
        BY <1>3
    <2>4. QED
        BY <1>2, <1>3, <2>1, <2>2, <2>3, ConsumeWord
<1>4. ASSUME NEW state \in States, NEW length \in {1, 2}
      PROVE  /\ Enter(state, length) \in ScanType /\ Enter(state, length).index = i + length
             /\ Enter(state, length).statement = s /\ Enter(state, length).answer = "none"
    <2>1. i + length \in Nat \ {0}
        BY <1>2
    <2>2. QED
        BY <1>2, <2>1 DEF Enter, ScanType
<1>5. ASSUME NEW state \in States
      PROVE  /\ Seen(state) \in ScanType /\ Seen(state).index = i + 1
             /\ Seen(state).statement = s /\ Seen(state).answer = "none"
    BY <1>2, <1>4 DEF Seen, ScanType
<1>6. CASE Space
    <2>1. Consume(Enter(Outside, 1)) /\ s[i] \notin Words
        BY <1>2, <1>6, SignsDiffer, Zenon DEF Space, Outside
    <2>2. ~ IsWord(s, i)
        BY <2>1 DEF IsWord
    <2>3. QED
        BY <1>3, <1>4, <2>1, <2>2, SignsDiffer
<1>7. CASE Comment
    <2> DEFINE state == IF Current = Dash THEN LineComment ELSE BlockComment
    <2>1. Pair \in {LinePair, BlockPair} /\ Consume(Enter(state, 2))
        BY <1>7, Zenon DEF Comment, Opening, LinePair, BlockPair, Dash, Slash, Star, LineComment, BlockComment
    <2>2. state \in States
        BY SignsDiffer
    <2>3. s[i] = Pair[1] /\ Pair[2] = IF i < Len(s) THEN s[i + 1] ELSE ""
        BY <1>2 DEF PairAt
    <2>4. Pair[1] \notin Words /\ Pair[2] \notin Words /\ Pair[2] # ""
        <3>1. Star \notin Words /\ Star # "" /\ Dash # "" /\ Dash \notin Words /\ Slash \notin Words
            BY SignsDiffer, Zenon DEF Star, Dash, Words, RowWords, WriteWords
        <3>2. /\ LinePair[1] = Dash /\ LinePair[2] = Dash /\ BlockPair[1] = Slash /\ BlockPair[2] = Star
            BY DEF LinePair, BlockPair
        <3> HIDE DEF state
        <3>3. QED
            BY <2>1, <3>1, <3>2
    <2>5. i + 1 <= Len(s) /\ ~ IsWord(s, i + 1) /\ ~ IsWord(s, i)
        <3>1. i < Len(s) /\ s[i + 1] = Pair[2]
            BY <2>3, <2>4
        <3>2. i + 1 <= Len(s)
            BY <1>2, <3>1
        <3>3. ~ IsWord(s, i + 1) /\ ~ IsWord(s, i)
            BY <2>3, <2>4, <3>1, Zenon DEF IsWord
        <3>4. QED
            BY <3>2, <3>3
    <2> HIDE DEF state
    <2>6. QED
        BY <1>3, <1>4, <2>1, <2>2, <2>5
<1>8. CASE Quote
    <2>1. Consume(Seen(s[i])) /\ s[i] \in Quotes \cup {SquareOpen}
        BY <1>2, <1>8, Zenon DEF Quote, SquareOpen
    <2>2. s[i] \in States /\ ~ IsWord(s, i)
        BY <2>1, SignsDiffer DEF States, IsWord
    <2> DEFINE state == s[i]
    <2>3. Consume(Seen(state)) /\ state \in States
        BY <2>1, <2>2
    <2> HIDE DEF state
    <2>4. QED
        BY <1>3, <1>5, <2>2, <2>3
<1>9. CASE Sign
    <2>1. Consume(Seen(Outside)) /\ s[i] \notin Words
        BY <1>2, <1>9, Zenon DEF Sign, Outside
    <2>2. ~ IsWord(s, i)
        BY <2>1 DEF IsWord
    <2>3. QED
        BY <1>3, <1>5, <2>1, <2>2, SignsDiffer
<1>10. QED
    BY <1>6, <1>7, <1>8, <1>9

\* A symbol of a word begins one, or goes on with the one under way.
LEMMA WordGoesOn ==
    ASSUME ScanInv, WordsSoFar, Word
    PROVE  WordsInv'
<1> DEFINE s == scan.statement
           i == scan.index
           n == Len(s)
           token == scan.token
           upto == WordsUpTo(s)
<1>1. Normal
    BY DEF Word, Token
<1>2. /\ scan \in ScanType /\ scan.answer = "none" /\ scan.state = Outside /\ s \in Seq(Symbols)
      /\ n \in Nat /\ i \in 1..n /\ Current = s[i]
      /\ Coming(s, Outside, i) = {i} \cup Starts(s)[PieceEnd(s, i) + 1]
    BY <1>1, OutsideType
<1>3. IsWord(s, i)
    <2>1. s[i] \in Words
        BY <1>2 DEF Word
    <2>2. i \in Pieces(s)
        BY <1>2 DEF ScanInv, PiecesSoFar
    <2>3. QED
        BY <2>1, <2>2 DEF IsWord
<1>4. /\ scan'.statement = s /\ scan'.index = i + 1 /\ scan'.state = Outside /\ scan'.answer = "none"
      /\ scan'.trigger = scan.trigger /\ scan'.token = Append(token, s[i])
    <2>1. scan' = [Seen(Outside) EXCEPT !.token = Append(@, Current)]
        BY Zenon DEF Word, Outside
    <2>2. QED
        BY <1>2, <2>1 DEF Seen, Enter, ScanType
<1>5. token \in Seq(Words) /\ Len(token) \in Nat /\ s[i] \in Words /\ (token = <<>> <=> Len(token) = 0)
    BY <1>2, <1>3, ScanIs DEF IsWord
<1>6. /\ Append(token, s[i]) # <<>> /\ Len(Append(token, s[i])) = Len(token) + 1
      /\ Append(token, s[i])[Len(token) + 1] = s[i]
      /\ \A k \in 1..Len(token) : Append(token, s[i])[k] = token[k]
    <2> DEFINE word == s[i]
               t == token
    <2>1. t \in Seq(Words) /\ word \in Words
        BY <1>5
    <2> HIDE DEF word, t
    <2>2. Append(t, word) # <<>> /\ Len(Append(t, word)) = Len(t) + 1
        BY <2>1, AppendProperties
    <2>3. Append(t, word)[Len(t) + 1] = word
        BY <2>1, AppendProperties
    <2>4. \A k \in 1..Len(t) : Append(t, word)[k] = t[k]
        BY <2>1, AppendProperties
    <2>5. QED
        BY <2>2, <2>3, <2>4 DEF word, t
<1>7. upto[i] = IF ~ IsWord(s, i - 1) THEN Append(upto[i - 1], WordAt(s, i)) ELSE upto[i - 1]
    BY <1>2, <1>3, WordsGoOn
<1>8. upto[i - 1] \in Seq(Words) /\ Len(upto[i - 1]) \in Nat /\ WordAt(s, i) \in Words
    <2>1. i - 1 \in 0..n
        BY <1>2
    <2>2. upto[i - 1] \in Seq(Words)
        <3> DEFINE j == i - 1
        <3> HIDE DEF j
        <3>1. j \in 0..n
            BY <2>1 DEF j
        <3>2. upto[j] \in Seq(Words)
            BY <1>2, <3>1, WordsStay
        <3>3. QED
            BY <3>2 DEF j
    <2>3. WordAt(s, i) \in Words
        BY <1>3, Zenon DEF WordAt, IsWord, Words
    <2>4. QED
        BY <2>2, <2>3, LenProperties
<1> DEFINE begun == Len(upto[i])
           p == (i + 1) - (Len(token) + 1)
<1>9. /\ p \in 1..i /\ IsWord(s, p) /\ Append(token, s[i])[1] = s[p]
      /\ (Len(token) + 1 > 1 => IsWord(s, p + 1)) /\ begun \in Nat \ {0}
      /\ upto[i][begun] = WordAt(s, p) /\ Heading(WordsOf(s), begun - 1, scan.trigger)
    <2>1. CASE token = <<>>
        <3>1. Len(token) = 0 /\ p = i
            BY <1>2, <1>5, <2>1
        <3>2. ~ IsWord(s, i - 1) /\ Heading(WordsOf(s), Len(upto[i - 1]), scan.trigger)
            BY <1>2, <2>1 DEF WordsSoFar
        <3>3. upto[i] = Append(upto[i - 1], WordAt(s, i))
            BY <1>7, <3>2
        <3>4. begun = Len(upto[i - 1]) + 1 /\ upto[i][begun] = WordAt(s, i)
            <4> DEFINE q == upto[i - 1]
                       word == WordAt(s, i)
            <4>1. q \in Seq(Words) /\ word \in Words
                BY <1>8
            <4> HIDE DEF q, word
            <4>2. Len(Append(q, word)) = Len(q) + 1
                BY <4>1, AppendProperties
            <4>3. Append(q, word)[Len(q) + 1] = word
                BY <4>1, AppendProperties
            <4>4. QED
                BY <3>3, <4>2, <4>3 DEF q, word
        <3>5. Append(token, s[i])[1] = s[i]
            BY <1>6, <3>1
        <3>6. begun - 1 = Len(upto[i - 1]) /\ begun \in Nat \ {0}
            BY <1>8, <3>4
        <3>7. i \in 1..i
            BY <1>2
        <3> HIDE DEF p, begun
        <3>8. QED
            BY <1>3, <3>1, <3>2, <3>4, <3>5, <3>6, <3>7
    <2>2. CASE token # <<>>
        <3>1. WordUnderWay(s, i, token, scan.state, Len(upto[i - 1]), scan.trigger)
            BY <1>2, <2>2, Zenon DEF WordsSoFar
        <3>2. /\ i - Len(token) \in 1..(i - 1) /\ IsWord(s, i - Len(token)) /\ IsWord(s, i - 1)
              /\ token[1] = s[i - Len(token)]
              /\ (Len(token) > 1 => IsWord(s, (i - Len(token)) + 1))
              /\ Len(upto[i - 1]) \in Nat \ {0}
              /\ upto[i - 1][Len(upto[i - 1])] = WordAt(s, i - Len(token))
              /\ Heading(WordsOf(s), Len(upto[i - 1]) - 1, scan.trigger)
            BY <3>1 DEF WordUnderWay
        <3>3. p = i - Len(token) /\ p \in 1..i /\ Len(token) >= 1
            BY <1>2, <1>5, <2>2, <3>2
        <3>4. upto[i] = upto[i - 1]
            BY <1>7, <3>2
        <3>5. Append(token, s[i])[1] = token[1]
            <4>1. 1 \in 1..Len(token)
                BY <1>5, <3>3
            <4>2. QED
                BY <1>6, <4>1
        <3>6. IsWord(s, p + 1)
            <4>1. CASE Len(token) > 1
                BY <3>2, <3>3, <4>1
            <4>2. CASE ~ (Len(token) > 1)
                <5>1. p + 1 = i
                    BY <1>2, <1>5, <3>3, <4>2
                <5>2. QED
                    BY <1>3, <5>1
            <4>3. QED
                BY <4>1, <4>2
        <3> HIDE DEF p
        <3>7. QED
            BY <3>2, <3>3, <3>4, <3>5, <3>6
    <2>3. QED
        BY <2>1, <2>2
<1>10. (i + 1) - 1 = i
    BY <1>2
<1>11. WordUnderWay(s, i + 1, Append(token, s[i]), Outside, begun, scan.trigger)
    <2> HIDE DEF begun
    <2>1. QED
        BY <1>3, <1>6, <1>9, <1>10 DEF WordUnderWay
<1>12. WordsSoFar'
    BY <1>4, <1>6, <1>10, <1>11 DEF WordsSoFar
<1>13. PlainTriggersAreRefused'
    BY <1>4 DEF PlainTriggersAreRefused
<1>14. QED
    BY <1>12, <1>13 DEF WordsInv

\* A semicolon, a second statement and the end of the text.
LEMMA AnswerWords ==
    ASSUME ScanInv, WordsSoFar, Semicolon \/ RefuseSecond \/ FinishScan
    PROVE  WordsInv'
<1> DEFINE s == scan.statement
           i == scan.index
<1>1. scan.answer = "none"
    BY DEF Semicolon, RefuseSecond, FinishScan, Token, Normal, Inside, Scanning
<1>2. scan \in ScanType /\ s \in Seq(Symbols) /\ Len(s) \in Nat /\ i \in Nat \ {0} /\ i <= Len(s) + 1
    BY <1>1, ScanIs
<1>3. \A answer \in Answers : /\ Refused(answer) \in ScanType /\ Refused(answer).index = i
                              /\ Refused(answer).statement = s /\ Refused(answer).answer = answer
    BY <1>2 DEF Refused, ScanType
<1>4. ASSUME NEW answer \in {"ok", "empty", "several"}, Consume(Refused(answer)), ~ IsWord(s, i),
             answer = "ok" => i = Len(s) + 1
      PROVE  WordsInv'
    <2> DEFINE new == Refused(answer)
    <2>1. answer \in Answers /\ answer # "none" /\ answer # "trigger"
        BY <1>4 DEF Answers
    <2>2. /\ new \in ScanType /\ Consume(new) /\ new.index = i + 0 /\ new.statement = s
          /\ new.answer = answer
        BY <1>2, <1>3, <1>4, <2>1
    <2> HIDE DEF new
    <2>3. i + 0 <= Len(s) + 1 /\ \A q \in i..(i + 0 - 1) : ~ IsWord(s, q)
        BY <1>2
    <2>4. QED
        BY <1>1, <1>4, <2>1, <2>2, <2>3, ConsumeWord
<1>5. CASE Semicolon
    <2>1. /\ Normal /\ Current = Semi
          /\ Consume(IF ~ scan.seenToken \/ scan.trailingSemicolon THEN Refused("several")
                     ELSE [Enter(Outside, 1) EXCEPT !.trailingSemicolon = TRUE])
        BY <1>5, Zenon DEF Semicolon, Semi, Outside
    <2>2. i \in 1..Len(s) /\ s[i] = Semi
        BY <2>1, OutsideType
    <2>3. ~ IsWord(s, i)
        BY <2>2, SignsDiffer DEF IsWord
    <2>4. CASE ~ scan.seenToken \/ scan.trailingSemicolon
        BY <1>4, <2>1, <2>3, <2>4
    <2>5. CASE ~ (~ scan.seenToken \/ scan.trailingSemicolon)
        <3> DEFINE new == [Enter(Outside, 1) EXCEPT !.trailingSemicolon = TRUE]
        <3>1. new \in ScanType /\ new.index = i + 1 /\ new.statement = s /\ new.answer = "none"
            <4>1. i + 1 \in Nat \ {0}
                BY <1>2
            <4>2. QED
                BY <1>1, <1>2, <4>1, SignsDiffer DEF Enter, ScanType
        <3>2. Consume(new)
            BY <2>1, <2>5
        <3> HIDE DEF new
        <3>3. i + 1 <= Len(s) + 1 /\ \A q \in i..(i + 1 - 1) : ~ IsWord(s, q)
            <4>1. \A q \in i..(i + 1 - 1) : q = i
                BY <1>2
            <4>2. QED
                BY <1>2, <2>2, <2>3, <4>1
        <3>4. QED
            BY <1>1, <2>3, <3>1, <3>2, <3>3, ConsumeWord
    <2>6. QED
        BY <2>4, <2>5
<1>6. CASE RefuseSecond
    <2>1. scan' = Refused("several") /\ "several" \in Answers
        BY <1>6 DEF RefuseSecond, Answers
    <2>2. scan'.answer = "several"
        BY <1>3, <2>1
    <2>3. QED
        BY <2>2 DEF WordsInv, WordsSoFar, PlainTriggersAreRefused
<1>7. CASE FinishScan
    <2> DEFINE answer == IF scan.seenToken THEN "ok" ELSE "empty"
    <2>1. ~ (i <= Len(s)) /\ Consume(Refused(answer))
        BY <1>1, <1>7 DEF FinishScan, Scanning
    <2>2. i = Len(s) + 1
        BY <1>2, <2>1
    <2>3. Pieces(s) \subseteq 1..Len(s)
        BY <1>2, StartsGoOn
    <2>4. ~ IsWord(s, i)
        BY <1>2, <2>2, <2>3 DEF IsWord
    <2>5. answer \in {"ok", "empty", "several"}
        OBVIOUS
    <2> HIDE DEF answer
    <2>6. QED
        BY <1>4, <2>1, <2>2, <2>4, <2>5
<1>8. QED
    BY <1>5, <1>6, <1>7

\* Whatever the statement, a CREATE TRIGGER is refused, with TEMPORARY and any OR
\* REPLACE and IF NOT EXISTS in between and however its words are separated, if it
\* is the statement's first CREATE and CONSTRAINT is not in between; and no other
\* statement is refused as one.
THEOREM TriggersDoNotPass == ScanSpec => []TriggersAreRefused
<1>1. ScanInit => ScanInv /\ WordsInv
    <2> SUFFICES ASSUME ScanInit PROVE ScanInv /\ WordsInv
        OBVIOUS
    <2> DEFINE s == scan.statement
    <2>1. ScanInv
        BY ScanStarts
    <2>2. scan.index = 1 /\ scan.token = <<>> /\ scan.trigger = "before" /\ scan.answer = "none"
        BY DEF ScanInit
    <2>3. s \in Seq(Symbols) /\ Len(s) \in Nat
        BY <2>1, <2>2, ScanIs
    <2>4. ~ IsWord(s, 0) /\ WordsUpTo(s)[0] = <<>>
        <3>1. Pieces(s) \subseteq 1..Len(s)
            BY <2>3, StartsGoOn
        <3>2. 0 \notin 1..Len(s)
            BY <2>3
        <3>3. IsJoined(WordsUpTo(s), Words, <<>>, Begun(s), Len(s))
            BY <2>3, WordsGoOn
        <3>4. QED
            BY <3>1, <3>2, <3>3 DEF IsWord, IsJoined
    <2>5. Heading(WordsOf(s), 0, "before")
        <3> DEFINE w == WordsOf(s)
        <3>1. w \in Seq(Words)
            <4>1. 0 \in 0..Len(s)
                BY <2>3
            <4>2. QED
                BY <2>3, <4>1, WordsStay
        <3> HIDE DEF w
        <3>2. DOMAIN w = 1..Len(w) /\ Len(w) \in Nat
            BY <3>1, LenProperties
        <3>3. \A m \in DOMAIN w : ~ (m <= 0)
            BY <3>2
        <3>4. Heading(w, 0, "before")
            BY <3>3 DEF Heading
        <3>5. QED
            BY <3>4 DEF w
    <2>6. WordsSoFar
        <3>1. 1 - 1 = 0 /\ Len(<<>>) = 0
            OBVIOUS
        <3>2. QED
            BY <2>2, <2>4, <2>5, <3>1 DEF WordsSoFar
    <2>7. PlainTriggersAreRefused
        BY <2>2 DEF PlainTriggersAreRefused
    <2>8. QED
        BY <2>1, <2>6, <2>7 DEF WordsInv
<1>2. ScanInv /\ WordsInv /\ [ScanNext]_scan => WordsInv'
    <2> SUFFICES ASSUME ScanInv, WordsInv, [ScanNext]_scan PROVE WordsInv'
        OBVIOUS
    <2>1. WordsSoFar
        BY DEF WordsInv
    <2>2. CASE UNCHANGED scan
        BY <2>2 DEF WordsInv, WordsSoFar, PlainTriggersAreRefused
    <2>3. QED
        BY <2>1, <2>2, InsideWords, OutsideWords, WordGoesOn, AnswerWords DEF ScanNext
<1>3. ScanInv /\ WordsInv => TriggersAreRefused
    <2> SUFFICES ASSUME ScanInv, WordsInv PROVE TriggersAreRefused
        OBVIOUS
    <2> DEFINE s == scan.statement
               w == WordsOf(s)
    <2>1. w \in Seq(Words)
        <3>1. s \in Seq(Symbols)
            BY DEF ScanInv, ScanType
        <3>2. 0 \in 0..Len(s)
            BY <3>1, LenProperties
        <3>3. QED
            BY <3>1, <3>2, WordsStay
    <2>2. /\ scan.answer = "trigger" => CreatesPlainTrigger(w)
          /\ scan.answer = "ok" => ~ CreatesPlainTrigger(w)
        BY DEF WordsInv, PlainTriggersAreRefused
    <2> HIDE DEF w
    <2>3. \A k, m \in DOMAIN w : CompletesPlainly(w, k, m) <=> Completes(w, k, m) /\ ~ Overlooked(w, k, m)
        BY <2>1, PlainlyIs
    <2>4. /\ scan.answer = "trigger" =>
                \E k, m \in DOMAIN w : Completes(w, k, m) /\ ~ Overlooked(w, k, m)
          /\ scan.answer = "ok" =>
                \A k, m \in DOMAIN w : Completes(w, k, m) => Overlooked(w, k, m)
        BY <2>2, <2>3 DEF CreatesPlainTrigger
    <2>5. QED
        BY <2>4 DEF TriggersAreRefused, w
<1>4. QED
    BY <1>1, <1>2, <1>3, ScanGoesOn, PTL DEF ScanSpec

-----------------------------------------------------------------------------
(***************************************************************************)
(* The keyword: where KeywordAt finds it, and where it ends.               *)
(***************************************************************************)
Parenthesis == "("

LEMMA PastIs ==
    ASSUME NEW s \in Seq(Symbols), NEW i \in 1..(Len(s) + 1), NEW symbols
    PROVE  /\ Past(s, i, symbols) \in i..(Len(s) + 1)
           /\ \A j \in i..(Past(s, i, symbols) - 1) : s[j] \in symbols
           /\ Past(s, i, symbols) <= Len(s) => s[Past(s, i, symbols)] \notin symbols
           /\ \A j \in i..Len(s) : s[j] \notin symbols => Past(s, i, symbols) <= j
<1> DEFINE n == Len(s)
           stops == {j \in i..n : s[j] \notin symbols}
           p == FirstOf(stops, n + 1)
<1>1. n \in Nat /\ i \in Nat /\ n + 1 \in Nat /\ stops \in SUBSET Nat
    BY LenProperties
<1>2. Past(s, i, symbols) = p
    BY DEF Past
<1>3. /\ stops = {} => p = n + 1
      /\ stops # {} => p \in stops /\ \A q \in stops : p <= q
    <2> HIDE DEF n, stops
    <2>1. /\ stops = {} => FirstOf(stops, n + 1) = n + 1
          /\ stops # {} => /\ FirstOf(stops, n + 1) \in stops
                           /\ \A q \in stops : FirstOf(stops, n + 1) <= q
        BY <1>1, FirstOfIs
    <2>2. QED
        BY <2>1
<1> HIDE DEF p
<1>4. CASE stops = {}
    <2>1. p = n + 1 /\ \A j \in i..n : s[j] \in symbols
        BY <1>3, <1>4
    <2>2. QED
        BY <1>1, <1>2, <2>1
<1>5. CASE stops # {}
    <2>1. p \in i..n /\ s[p] \notin symbols /\ \A j \in i..n : s[j] \notin symbols => p <= j
        BY <1>3, <1>5
    <2>2. \A j \in i..(p - 1) : j \in i..n /\ ~ (p <= j)
        BY <1>1, <2>1
    <2>3. QED
        BY <1>1, <1>2, <2>1, <2>2
<1>6. QED
    BY <1>4, <1>5

\* One turn of the loop, what the turns behind it come to being known.
Turn(s, at, i) ==
    LET p == Past(s, Past(s, i, {"("}), Spaces)
        lines == {j \in p..Len(s) : s[j] = "\n"}
        closings == {j \in (p + 2)..(Len(s) - 1) : PairAt(s, j) = <<"*", "/">>}
    IN  CASE p <= Len(s) /\ PairAt(s, p) = <<"-", "-">> ->
               IF lines = {} THEN Len(s) + 1 ELSE at[FirstOf(lines, Len(s)) + 1]
          [] p <= Len(s) /\ PairAt(s, p) = <<"/", "*">> ->
               IF closings = {} THEN Len(s) + 1 ELSE at[FirstOf(closings, Len(s)) + 2]
          [] OTHER -> p

Turns(s) == CHOOSE at : at = [i \in 1..(Len(s) + 1) |-> Turn(s, at, i)]

Lead(s, i) == Past(s, Past(s, i, {Parenthesis}), Spaces)
LinesFrom(s, p) == {j \in p..Len(s) : s[j] = LineFeed}
ClosingPair == <<Star, Slash>>
ClosingsFrom(s, p) == {j \in (p + 2)..(Len(s) - 1) : PairAt(s, j) = ClosingPair}

LEMMA TurnIs ==
    ASSUME NEW s, NEW at, NEW i
    PROVE  LET p == Lead(s, i)
           IN  /\ p <= Len(s) /\ PairAt(s, p) = LinePair =>
                     Turn(s, at, i) = IF LinesFrom(s, p) = {} THEN Len(s) + 1
                                      ELSE at[FirstOf(LinesFrom(s, p), Len(s)) + 1]
               /\ p <= Len(s) /\ PairAt(s, p) = BlockPair =>
                     Turn(s, at, i) = IF ClosingsFrom(s, p) = {} THEN Len(s) + 1
                                      ELSE at[FirstOf(ClosingsFrom(s, p), Len(s)) + 2]
               /\ ~ (p <= Len(s) /\ PairAt(s, p) \in {LinePair, BlockPair}) => Turn(s, at, i) = p
<1> DEFINE p == Lead(s, i)
           lines == IF LinesFrom(s, p) = {} THEN Len(s) + 1 ELSE at[FirstOf(LinesFrom(s, p), Len(s)) + 1]
           block == IF ClosingsFrom(s, p) = {} THEN Len(s) + 1
                    ELSE at[FirstOf(ClosingsFrom(s, p), Len(s)) + 2]
<1>1. Turn(s, at, i) = CASE p <= Len(s) /\ PairAt(s, p) = LinePair -> lines
                         [] p <= Len(s) /\ PairAt(s, p) = BlockPair -> block
                         [] OTHER -> p
    BY Zenon DEF Turn, Lead, LinesFrom, ClosingsFrom, LinePair, BlockPair, ClosingPair, Dash, Slash,
                 Star, LineFeed, Parenthesis
<1>2. LinePair # BlockPair
    BY SignsDiffer DEF LinePair, BlockPair
<1> HIDE DEF p, lines, block
<1>3. /\ p <= Len(s) /\ PairAt(s, p) = LinePair => Turn(s, at, i) = lines
      /\ p <= Len(s) /\ PairAt(s, p) = BlockPair => Turn(s, at, i) = block
      /\ ~ (p <= Len(s) /\ PairAt(s, p) \in {LinePair, BlockPair}) => Turn(s, at, i) = p
    BY <1>1, <1>2
<1>4. QED
    BY <1>3 DEF p, lines, block

LEMMA LeadIs ==
    ASSUME NEW s \in Seq(Symbols), NEW i \in 1..(Len(s) + 1)
    PROVE  Lead(s, i) \in i..(Len(s) + 1)
<1> DEFINE q == Past(s, i, {Parenthesis})
<1>1. Len(s) \in Nat
    BY LenProperties
<1>2. q \in i..(Len(s) + 1)
    BY PastIs
<1>3. q \in 1..(Len(s) + 1)
    <2> HIDE DEF q
    <2>1. QED
        BY <1>1, <1>2
<1> HIDE DEF q
<1>4. Past(s, q, Spaces) \in q..(Len(s) + 1)
    BY <1>3, PastIs
<1>5. QED
    BY <1>1, <1>2, <1>4 DEF Lead, q

LEMMA TurnsGoOn ==
    ASSUME NEW s \in Seq(Symbols)
    PROVE  /\ KeywordAt(s) = Turns(s)[1]
           /\ \A i \in 1..(Len(s) + 1) : Turns(s)[i] = Turn(s, Turns(s), i)
<1> DEFINE n == Len(s)
           N == n + 1
           D == 1..N
           rank == [i \in D |-> N - i]
           Step == [z \in D \X [D -> D] |-> Turn(s, z[2], z[1])]
           at == Turns(s)
<1>1. n \in Nat
    BY LenProperties
<1>2. ASSUME NEW i \in D
      PROVE  /\ Lead(s, i) \in D
             /\ LinesFrom(s, Lead(s, i)) # {} =>
                   /\ FirstOf(LinesFrom(s, Lead(s, i)), n) + 1 \in D
                   /\ FirstOf(LinesFrom(s, Lead(s, i)), n) + 1 > i
             /\ ClosingsFrom(s, Lead(s, i)) # {} =>
                   /\ FirstOf(ClosingsFrom(s, Lead(s, i)), n) + 2 \in D
                   /\ FirstOf(ClosingsFrom(s, Lead(s, i)), n) + 2 > i
    <2> DEFINE p == Lead(s, i)
               lines == LinesFrom(s, p)
               closings == ClosingsFrom(s, p)
    <2>1. p \in i..N
        BY LeadIs
    <2> HIDE DEF p
    <2>2. p \in Nat /\ lines \in SUBSET (p..n) /\ closings \in SUBSET ((p + 2)..(n - 1))
        BY <1>1, <2>1 DEF LinesFrom, ClosingsFrom
    <2>3. lines \in SUBSET Nat /\ closings \in SUBSET Nat
        BY <1>1, <2>2
    <2> HIDE DEF lines, closings
    <2>4. lines # {} => FirstOf(lines, n) \in p..n
        BY <1>1, <2>2, <2>3, FirstOfIs
    <2>5. closings # {} => FirstOf(closings, n) \in (p + 2)..(n - 1)
        BY <1>1, <2>2, <2>3, FirstOfIs
    <2> DEFINE a == FirstOf(lines, n)
               b == FirstOf(closings, n)
    <2>6. (lines # {} => a \in p..n) /\ (closings # {} => b \in (p + 2)..(n - 1))
        BY <2>4, <2>5
    <2> HIDE DEF a, b
    <2>7. /\ p \in D /\ (lines # {} => a + 1 \in D /\ a + 1 > i)
          /\ (closings # {} => b + 2 \in D /\ b + 2 > i)
        BY <1>1, <2>1, <2>6
    <2>8. QED
        BY <2>7 DEF p, lines, closings, a, b
<1>3. ASSUME NEW i \in D, NEW f \in [D -> D]
      PROVE  Turn(s, f, i) \in D
    <2> DEFINE p == Lead(s, i)
    <2>1. \/ Turn(s, f, i) = p
          \/ Turn(s, f, i) = n + 1
          \/ LinesFrom(s, p) # {} /\ Turn(s, f, i) = f[FirstOf(LinesFrom(s, p), n) + 1]
          \/ ClosingsFrom(s, p) # {} /\ Turn(s, f, i) = f[FirstOf(ClosingsFrom(s, p), n) + 2]
        BY TurnIs
    <2>2. n + 1 \in D /\ p \in D
        BY <1>1, <1>2
    <2> HIDE DEF p, D
    <2>3. QED
        BY <1>2, <2>1, <2>2 DEF p
<1>4. ASSUME NEW i \in D, NEW f, NEW g, \A y \in D : y > i => f[y] = g[y]
      PROVE  Turn(s, f, i) = Turn(s, g, i)
    <2> DEFINE p == Lead(s, i)
               a == FirstOf(LinesFrom(s, p), n) + 1
               b == FirstOf(ClosingsFrom(s, p), n) + 2
    <2>1. /\ LinesFrom(s, p) # {} => a \in D /\ a > i
          /\ ClosingsFrom(s, p) # {} => b \in D /\ b > i
        BY <1>2
    <2>2. /\ LinesFrom(s, p) # {} => f[a] = g[a]
          /\ ClosingsFrom(s, p) # {} => f[b] = g[b]
        <3> HIDE DEF a, b, D, p
        <3>1. QED
            BY <1>4, <2>1
    <2>3. ASSUME NEW h
          PROVE  /\ p <= n /\ PairAt(s, p) = LinePair =>
                       Turn(s, h, i) = IF LinesFrom(s, p) = {} THEN n + 1 ELSE h[a]
                 /\ p <= n /\ PairAt(s, p) = BlockPair =>
                       Turn(s, h, i) = IF ClosingsFrom(s, p) = {} THEN n + 1 ELSE h[b]
                 /\ ~ (p <= n /\ PairAt(s, p) \in {LinePair, BlockPair}) => Turn(s, h, i) = p
        BY TurnIs
    <2> HIDE DEF a, b, D, p, n
    <2>4. QED
        BY <2>2, <2>3
<1>5. rank \in [D -> 0..N] /\ N \in Nat /\ \A i, y \in D : y > i => rank[y] < rank[i]
    BY <1>1
<1>6. D # {}
    <2>1. 1 \in D
        BY <1>1
    <2> HIDE DEF D
    <2>2. QED
        BY <2>1
<1>7. KeywordAt(s) = at[1]
    BY Zenon DEF KeywordAt, Turns, Turn
<1>8. Step \in [D \X [D -> D] -> D]
    <2> HIDE DEF D
    <2>1. QED
        BY <1>3
<1>9. MadeOfLower(Step, D, D, rank)
    <2>1. ASSUME NEW i \in D, NEW f \in [D -> D], NEW g \in [D -> D],
                 \A y \in D : rank[y] < rank[i] => f[y] = g[y]
          PROVE  Turn(s, f, i) = Turn(s, g, i)
        <3> HIDE DEF D, rank
        <3>1. \A y \in D : y > i => f[y] = g[y]
            BY <1>5, <2>1
        <3>2. QED
            BY <1>4, <3>1
    <2> HIDE DEF D, rank
    <2>2. QED
        BY <2>1 DEF MadeOfLower
<1>10. PICK f \in [D -> D] : Solves(f, Step, D)
    <2> HIDE DEF D, rank, Step, N
    <2>1. QED
        BY <1>5, <1>6, <1>8, <1>9, RecursiveFunction, Zenon
<1>11. f = [i \in D |-> Turn(s, f, i)]
    <2> HIDE DEF D
    <2>1. QED
        BY <1>10 DEF Solves
<1>12. at = [i \in D |-> Turn(s, at, i)]
    BY <1>11, Zenon DEF Turns
<1> HIDE DEF at
<1>13. \A i \in D : at[i] = Turn(s, at, i)
    <2> HIDE DEF D
    <2>1. QED
        BY <1>12
<1>14. QED
    BY <1>7, <1>13 DEF at

-----------------------------------------------------------------------------
\* The pieces from a place on are pieces of the statement, one of them given.
LeadsTo(s, i, first) == first \in Starts(s)[i] /\ Starts(s)[i] \subseteq Pieces(s)

\* A run of symbols that are pieces each leads on.
LEMMA RunLeads ==
    ASSUME NEW s \in Seq(Symbols), NEW i \in 1..(Len(s) + 1), NEW first, LeadsTo(s, i, first),
           NEW symbols, symbols \cap (Quotes \cup {SquareOpen, Dash, Slash}) = {},
           s[first] \notin symbols
    PROVE  /\ Past(s, i, symbols) \in i..first /\ first \in 1..Len(s)
           /\ LeadsTo(s, Past(s, i, symbols), first)
           /\ s[Past(s, i, symbols)] \notin symbols
<1> DEFINE n == Len(s)
           p == Past(s, i, symbols)
<1>1. n \in Nat /\ i \in Nat \ {0} /\ first \in i..n
    <2>1. Len(s) \in Nat
        BY LenProperties
    <2>2. Starts(s)[i] \subseteq i..Len(s)
        BY StartsGoOn
    <2>3. QED
        BY <2>1, <2>2 DEF LeadsTo
<1>2. /\ p \in i..(n + 1) /\ (\A j \in i..(p - 1) : s[j] \in symbols)
      /\ (p <= n => s[p] \notin symbols) /\ (s[first] \notin symbols => p <= first)
    BY <1>1, PastIs
<1> HIDE DEF p
<1>3. p \in i..first /\ s[p] \notin symbols /\ first \in 1..n
    BY <1>1, <1>2
<1> DEFINE T == {k \in Nat : i + k <= p => LeadsTo(s, i + k, first)}
<1>4. 0 \in T
    <2>1. i + 0 = i
        BY <1>1
    <2>2. QED
        BY <2>1
<1>5. ASSUME NEW k \in T
      PROVE  k + 1 \in T
    <2>1. SUFFICES ASSUME i + (k + 1) <= p PROVE LeadsTo(s, i + (k + 1), first)
        OBVIOUS
    <2> DEFINE j == i + k
    <2>2. j \in i..(p - 1) /\ j \in 1..n /\ j < first /\ j + 1 = i + (k + 1) /\ j <= p
        BY <1>1, <1>3, <2>1
    <2>3. s[j] \in symbols /\ LeadsTo(s, j, first)
        BY <1>2, <2>2
    <2>4. s[j] \notin {Dash, Slash} /\ s[j] \notin Quotes \cup {SquareOpen}
        BY <2>3
    <2>5. PieceEnd(s, j) = j
        <3> HIDE DEF j
        <3>1. QED
            BY <2>2, <2>4, NoComment, PieceEnds
    <2>6. Starts(s)[j] = {j} \cup Starts(s)[j + 1]
        <3> HIDE DEF j
        <3>1. QED
            BY <2>2, <2>5, StartsGoOn
    <2> HIDE DEF j
    <2>7. first # j
        BY <1>1, <2>2
    <2>8. LeadsTo(s, j + 1, first)
        BY <2>3, <2>6, <2>7 DEF LeadsTo
    <2>9. QED
        BY <2>2, <2>8
<1>6. T = Nat
    <2> HIDE DEF T
    <2>1. T \in SUBSET Nat
        BY DEF T
    <2>2. QED
        BY <1>4, <1>5, <2>1, SetInduction
<1>7. p - i \in Nat /\ i + (p - i) = p /\ p <= p
    BY <1>1, <1>3
<1>8. LeadsTo(s, p, first)
    <2>1. p - i \in T
        BY <1>6, <1>7
    <2>2. QED
        BY <1>7, <2>1
<1>9. QED
    BY <1>3, <1>8 DEF p

\* A line comment that a carriage return ends has a line feed behind that.
EndsWithLine(s, q) ==
    PairAt(s, q) = LinePair /\ s[PieceEnd(s, q)] = Return => s[PieceEnd(s, q) + 1] = LineFeed

\* What stands before the first token but parentheses: these, spaces and comments,
\* no parenthesis behind a space.
Leading(s, first) ==
    /\ first \in Pieces(s) /\ s[first] \in Words
    /\ \A q \in Pieces(s) : q < first =>
          s[q] \in Spaces \cup {Parenthesis} \/ PairAt(s, q) \in {LinePair, BlockPair}
    /\ \A q \in 2..first : s[q] = Parenthesis => s[q - 1] \notin Spaces
    /\ \A q \in Pieces(s) : q < first => EndsWithLine(s, q)

\* A comment ends where the keyword's turn looks for its end.
LEMMA CommentLeads ==
    ASSUME NEW s \in Seq(Symbols), NEW p \in 1..Len(s), NEW first \in Nat, p < first,
           LeadsTo(s, p, first), s[first] \in Words, EndsWithLine(s, p), NEW at,
           \A j \in (p + 1)..first : LeadsTo(s, j, first) => at[j] = first
    PROVE  /\ PairAt(s, p) = LinePair =>
                 LinesFrom(s, p) # {} /\ at[FirstOf(LinesFrom(s, p), Len(s)) + 1] = first
           /\ PairAt(s, p) = BlockPair =>
                 ClosingsFrom(s, p) # {} /\ at[FirstOf(ClosingsFrom(s, p), Len(s)) + 2] = first
<1> DEFINE n == Len(s)
           end == PieceEnd(s, p)
<1>1. n \in Nat /\ p \in Nat
    BY LenProperties
<1>2. end \in p..n
    BY PieceEnds
<1> HIDE DEF end
<1>3. end + 1 \in 1..(n + 1)
    BY <1>1, <1>2
<1>4. Starts(s)[p] = {p} \cup Starts(s)[end + 1] /\ Starts(s)[end + 1] \subseteq (end + 1)..n
      /\ Starts(s)[n + 1] = {}
    BY <1>3, StartsGoOn DEF end
<1>5. LeadsTo(s, end + 1, first)
    BY <1>1, <1>4 DEF LeadsTo
<1>6. end # n
    BY <1>4, <1>5 DEF LeadsTo
<1>7. at[end + 1] = first
    <2>1. first \in (end + 1)..n
        BY <1>4, <1>5 DEF LeadsTo
    <2>2. end + 1 \in (p + 1)..first
        BY <1>1, <1>2, <2>1
    <2>3. QED
        BY <1>5, <2>2
<1>8. CASE PairAt(s, p) = LinePair
    <2> DEFINE lines == LinesFrom(s, p)
               from == {j \in (p + 2)..n : s[j] \in LineEnds}
               feeds == {j \in (p + 2)..n : s[j] = LineFeed}
    <2>1. s[p] = Dash /\ (p < n => s[p + 1] = Dash)
        <3>1. /\ PairAt(s, p)[1] = s[p] /\ PairAt(s, p)[2] = IF p < n THEN s[p + 1] ELSE ""
              /\ LinePair[1] = Dash /\ LinePair[2] = Dash
            BY DEF PairAt, LinePair
        <3> HIDE DEF n
        <3>2. QED
            BY <1>8, <3>1
    <2>2. Dash # LineFeed
        BY Zenon DEF Dash, LineFeed
    <2>3. lines = feeds
        <3>1. \A j \in p..n : s[j] = LineFeed => j \in (p + 2)..n
            <4> TAKE j \in p..n
            <4> HAVE s[j] = LineFeed
            <4>1. j # p /\ (p < n => j # p + 1)
                BY <2>1, <2>2
            <4>2. QED
                BY <1>1, <4>1
        <3>2. \A j \in (p + 2)..n : j \in p..n
            BY <1>1
        <3>3. QED
            BY <3>1, <3>2 DEF LinesFrom
    <2>4. end = FirstOf(from, n)
        <3>1. end = EndOf(s, LineComment, p + 2)
            BY <1>8, PieceEnds DEF end
        <3>2. LineComment # BlockComment
            BY Zenon DEF LineComment, BlockComment
        <3>3. EndOf(s, LineComment, p + 2) = FirstOf(from, n)
            BY <3>2 DEF EndOf, Lowest, IsEnd
        <3>4. QED
            BY <3>1, <3>3
    <2>5. end \in from /\ \A j \in from : end <= j
        <3>1. from \in SUBSET Nat
            BY <1>1
        <3> HIDE DEF from, n
        <3>2. /\ from = {} => FirstOf(from, n) = n
              /\ from # {} => /\ FirstOf(from, n) \in from
                              /\ \A j \in from : FirstOf(from, n) <= j
            BY <1>1, <3>1, FirstOfIs
        <3>3. QED
            BY <1>6, <2>4, <3>2
    <2>6. /\ end \in (p + 2)..n /\ s[end] \in LineEnds
          /\ \A j \in (p + 2)..n : s[j] = LineFeed => end <= j
        <3>1. LineFeed \in LineEnds
            BY Zenon DEF LineFeed, LineEnds
        <3>2. QED
            BY <2>5, <3>1
    <2> HIDE DEF from
    <2>7. ASSUME NEW q \in feeds, \A j \in feeds : q <= j
          PROVE  lines # {} /\ FirstOf(lines, n) = q
        <3>1. feeds \in SUBSET Nat
            BY <1>1
        <3>2. q \in feeds /\ (\A j \in feeds : q <= j) /\ lines = feeds
            BY <2>3, <2>7
        <3> HIDE DEF feeds, lines, n
        <3>3. \A a \in feeds : (\A b \in feeds : a <= b) => FirstOf(feeds, n) = a
            BY <1>1, <3>1, FirstOfIs, Zenon
        <3>4. QED
            BY <3>2, <3>3
    <2>8. ASSUME s[end] = LineFeed
          PROVE  lines # {} /\ at[FirstOf(lines, n) + 1] = first
        <3>1. end \in feeds /\ \A j \in feeds : end <= j
            BY <2>6, <2>8
        <3>2. lines # {} /\ FirstOf(lines, n) = end
            BY <2>7, <3>1
        <3> HIDE DEF lines, n
        <3>3. QED
            BY <1>7, <3>2
    <2>9. ASSUME s[end] # LineFeed
          PROVE  lines # {} /\ at[FirstOf(lines, n) + 1] = first
        <3> DEFINE next == end + 1
        <3>1. s[end] = Return
            BY <2>6, <2>9, Zenon DEF LineEnds, LineFeed, Return
        <3>2. s[next] = LineFeed
            BY <1>8, <3>1 DEF EndsWithLine, end
        <3>3. next \in 1..n /\ next \in (p + 2)..n /\ end < next /\ next \in Nat
            BY <1>1, <1>2, <1>6, <2>6
        <3>4. next \in feeds /\ \A j \in feeds : next <= j
            <4>1. \A j \in feeds : end <= j /\ j # end
                BY <2>6, <2>9
            <4>2. \A j \in feeds : next <= j
                BY <1>1, <1>2, <4>1
            <4>3. QED
                BY <3>2, <3>3, <4>2
        <3>5. lines # {} /\ FirstOf(lines, n) = next
            <4> HIDE DEF next
            <4>1. QED
                BY <2>7, <3>4
        <3>6. LineFeed \notin Quotes \cup {SquareOpen, Dash, Slash} \cup Words
            BY Zenon DEF LineFeed, Quotes, SquareOpen, Dash, Slash, Words, RowWords, WriteWords
        <3>7. PieceEnd(s, next) = next
            <4>1. s[next] \notin {Dash, Slash} /\ s[next] \notin Quotes \cup {SquareOpen}
                BY <3>2, <3>6
            <4> HIDE DEF next
            <4>2. QED
                BY <3>3, <4>1, NoComment, PieceEnds
        <3>8. Starts(s)[next] = {next} \cup Starts(s)[next + 1] /\ Starts(s)[next + 1] \subseteq (next + 1)..n
            <4>1. next + 1 \in 1..(n + 1)
                BY <1>1, <3>3
            <4> HIDE DEF next
            <4>2. QED
                BY <3>3, <3>7, <4>1, StartsGoOn
        <3>9. first # next
            BY <3>2, <3>6
        <3>10. LeadsTo(s, next + 1, first) /\ first \in (next + 1)..n
            BY <1>5, <3>8, <3>9 DEF LeadsTo
        <3>11. next + 1 \in (p + 1)..first
            BY <1>1, <3>3, <3>10
        <3>12. at[next + 1] = first
            BY <3>10, <3>11
        <3> HIDE DEF next, lines, n
        <3>13. QED
            BY <3>5, <3>12
    <2> HIDE DEF lines, n
    <2>10. lines # {} /\ at[FirstOf(lines, n) + 1] = first
        BY <2>8, <2>9
    <2>11. PairAt(s, p) # BlockPair
        BY <1>8, SignsDiffer DEF LinePair, BlockPair
    <2>12. QED
        BY <2>10, <2>11 DEF lines, n
<1>9. CASE PairAt(s, p) = BlockPair
    <2> DEFINE closings == ClosingsFrom(s, p)
               from == {j \in (p + 3)..n : s[j - 1] = Star /\ s[j] = Slash}
               last == FirstOf(from, n)
    <2>1. \A j \in (p + 2)..(n - 1) : PairAt(s, j) = ClosingPair <=> s[j] = Star /\ s[j + 1] = Slash
        <3> TAKE j \in (p + 2)..(n - 1)
        <3>1. j < n
            BY <1>1
        <3>2. PairAt(s, j) = <<s[j], s[j + 1]>>
            BY <3>1 DEF PairAt
        <3>3. QED
            BY <3>2 DEF ClosingPair
    <2>2. end = last
        <3>1. end = EndOf(s, BlockComment, p + 2)
            BY <1>9, PieceEnds DEF end
        <3>2. (p + 2) + 1 = p + 3
            BY <1>1
        <3>3. EndOf(s, BlockComment, p + 2) = FirstOf(from, n)
            BY <3>2 DEF EndOf, Lowest, IsEnd
        <3>4. QED
            BY <3>1, <3>3
    <2>3. /\ from # {} /\ last \in from /\ \A q \in from : last <= q
        <3>1. from \in SUBSET Nat
            BY <1>1
        <3>2. end = FirstOf(from, n)
            BY <2>2
        <3> HIDE DEF from, n, last
        <3>3. from # {} /\ FirstOf(from, n) \in from /\ \A q \in from : FirstOf(from, n) <= q
            BY <1>1, <1>6, <3>1, <3>2, FirstOfIs
        <3>4. QED
            BY <3>3 DEF last
    <2> HIDE DEF last
    <2>4. last - 1 \in closings
        <3>1. last \in (p + 3)..n /\ s[last - 1] = Star /\ s[last] = Slash
            BY <2>3
        <3>2. last - 1 \in (p + 2)..(n - 1) /\ (last - 1) + 1 = last
            BY <1>1, <3>1
        <3>3. QED
            BY <2>1, <3>1, <3>2 DEF ClosingsFrom
    <2>5. \A q \in closings : last - 1 <= q
        <3> TAKE q \in closings
        <3>1. q \in (p + 2)..(n - 1) /\ s[q] = Star /\ s[q + 1] = Slash
            BY <2>1 DEF ClosingsFrom
        <3>2. q + 1 \in (p + 3)..n /\ (q + 1) - 1 = q
            BY <1>1, <3>1
        <3>3. q + 1 \in from
            BY <3>1, <3>2
        <3>4. last <= q + 1 /\ last \in Nat
            <4>1. last \in from
                BY <2>3
            <4>2. last \in Nat
                BY <1>1, <4>1
            <4>3. QED
                BY <2>3, <3>3, <4>2
        <3>5. QED
            BY <1>1, <3>1, <3>4
    <2>6. FirstOf(closings, n) = last - 1
        <3>1. closings \in SUBSET Nat
            BY <1>1 DEF ClosingsFrom
        <3> HIDE DEF closings, n
        <3> DEFINE q == last - 1
        <3>2. q \in closings /\ \A j \in closings : q <= j
            BY <2>4, <2>5
        <3> HIDE DEF q
        <3>3. \A a \in closings : (\A b \in closings : a <= b) => FirstOf(closings, n) = a
            BY <1>1, <3>1, FirstOfIs, Zenon
        <3>4. QED
            BY <3>2, <3>3 DEF q
    <2>7. (last - 1) + 2 = end + 1
        BY <1>1, <1>2, <2>2
    <2>8. closings # {} /\ at[FirstOf(closings, n) + 2] = first
        <3> HIDE DEF closings, n
        <3>1. QED
            BY <1>7, <2>4, <2>6, <2>7
    <2>9. PairAt(s, p) # LinePair
        BY <1>9, SignsDiffer DEF LinePair, BlockPair
    <2>10. QED
        BY <2>8, <2>9
<1>10. QED
    BY <1>8, <1>9

\* The keyword is looked for where the first token stands.
LEMMA KeywordIsFirst ==
    ASSUME NEW s \in Seq(Symbols), NEW first, Leading(s, first)
    PROVE  KeywordAt(s) = first
<1> DEFINE n == Len(s)
           at == Turns(s)
<1>1. /\ n \in Nat /\ first \in 1..n /\ Starts(s)[1] = Pieces(s)
      /\ KeywordAt(s) = at[1] /\ \A i \in 1..(n + 1) : at[i] = Turn(s, at, i)
    BY LenProperties, StartsGoOn, TurnsGoOn DEF Leading
<1>2. /\ s[first] \in Words
      /\ \A q \in Pieces(s) : q < first =>
            s[q] \in Spaces \cup {Parenthesis} \/ PairAt(s, q) \in {LinePair, BlockPair}
      /\ \A q \in 2..first : s[q] = Parenthesis => s[q - 1] \notin Spaces
      /\ \A q \in Pieces(s) : q < first => EndsWithLine(s, q)
    BY DEF Leading
<1>3. /\ Parenthesis \notin Words \cup Quotes \cup Spaces \cup {SquareOpen, Dash, Slash}
      /\ Spaces \cap (Quotes \cup {SquareOpen, Dash, Slash}) = {}
      /\ {Parenthesis} \cap (Quotes \cup {SquareOpen, Dash, Slash}) = {}
      /\ s[first] \notin Spaces /\ s[first] \notin {Parenthesis}
      /\ s[first] \notin {Dash, Slash}
    <2>1. Parenthesis \notin Words \cup Quotes \cup Spaces \cup {SquareOpen, Dash, Slash}
        BY Zenon DEF Parenthesis, Words, RowWords, WriteWords, Quotes, Spaces, LineEnds, SquareOpen, Dash, Slash
    <2>2. QED
        BY <1>2, <2>1, SignsDiffer
<1> HIDE DEF at
<1>4. ASSUME NEW i \in 1..first, LeadsTo(s, i, first),
             \A j \in (i + 1)..first : LeadsTo(s, j, first) => at[j] = first
      PROVE  at[i] = first
    <2> DEFINE q == Past(s, i, {Parenthesis})
               p == Past(s, q, Spaces)
    <2>1. i \in 1..(n + 1)
        BY <1>1
    <2>2. q \in i..first /\ LeadsTo(s, q, first) /\ s[q] # Parenthesis
        BY <1>3, <1>4, <2>1, RunLeads
    <2> HIDE DEF q
    <2>3. q \in 1..(n + 1)
        BY <1>1, <2>2
    <2>4. p \in q..first /\ LeadsTo(s, p, first) /\ s[p] \notin Spaces
        BY <1>3, <2>2, <2>3, RunLeads
    <2>5. \A j \in q..(p - 1) : s[j] \in Spaces
        BY <2>3, PastIs
    <2>6. p = Lead(s, i)
        BY DEF Lead, p, q
    <2> HIDE DEF p
    <2>7. p \in 1..n /\ p \in i..first
        BY <1>1, <2>2, <2>4
    <2>8. p \in Pieces(s)
        <3>1. p \in Starts(s)[p]
            BY <2>7, StartsGoOn
        <3>2. QED
            BY <2>4, <3>1 DEF LeadsTo
    <2>9. /\ p <= n /\ PairAt(s, p) = LinePair =>
                at[i] = IF LinesFrom(s, p) = {} THEN n + 1 ELSE at[FirstOf(LinesFrom(s, p), n) + 1]
          /\ p <= n /\ PairAt(s, p) = BlockPair =>
                at[i] = IF ClosingsFrom(s, p) = {} THEN n + 1 ELSE at[FirstOf(ClosingsFrom(s, p), n) + 2]
          /\ ~ (p <= n /\ PairAt(s, p) \in {LinePair, BlockPair}) => at[i] = p
        <3>1. at[i] = Turn(s, at, i)
            BY <1>1, <2>1
        <3>2. QED
            BY <2>6, <3>1, TurnIs
    <2>10. CASE p = first
        <3>1. PairAt(s, p) \notin {LinePair, BlockPair}
            BY <1>3, <2>10, NoComment
        <3>2. QED
            BY <2>9, <2>10, <3>1
    <2>11. CASE p # first
        <3>1. p < first /\ first \in Nat
            BY <1>1, <2>7, <2>11
        <3>2. s[p] # Parenthesis
            <4>1. SUFFICES ASSUME s[p] = Parenthesis PROVE FALSE
                OBVIOUS
            <4>2. p # q
                BY <2>2, <4>1
            <4>3. p - 1 \in q..(p - 1) /\ p \in 2..first
                BY <1>1, <2>2, <2>3, <2>4, <2>7, <4>2
            <4>4. QED
                BY <1>2, <2>5, <4>1, <4>3
        <3>3. PairAt(s, p) \in {LinePair, BlockPair}
            BY <1>2, <2>4, <2>8, <3>1, <3>2
        <3>4. \A j \in (p + 1)..first : LeadsTo(s, j, first) => at[j] = first
            <4>1. \A j \in (p + 1)..first : j \in (i + 1)..first
                BY <1>1, <2>7
            <4>2. QED
                BY <1>4, <4>1
        <3>5. /\ PairAt(s, p) = LinePair =>
                    LinesFrom(s, p) # {} /\ at[FirstOf(LinesFrom(s, p), n) + 1] = first
              /\ PairAt(s, p) = BlockPair =>
                    ClosingsFrom(s, p) # {} /\ at[FirstOf(ClosingsFrom(s, p), n) + 2] = first
            <4>1. EndsWithLine(s, p)
                BY <1>2, <2>8, <3>1
            <4>2. QED
                BY <1>2, <2>4, <2>7, <3>1, <3>4, <4>1, CommentLeads
        <3>6. p <= n
            BY <1>1, <2>7
        <3>7. QED
            BY <2>9, <3>3, <3>5, <3>6
    <2>12. QED
        BY <2>10, <2>11
<1> DEFINE T == {d \in Nat : \A i \in 1..first : first - i <= d /\ LeadsTo(s, i, first) => at[i] = first}
<1>5. T = Nat
    <2>1. 0 \in T
        <3>1. ASSUME NEW i \in 1..first, first - i <= 0, LeadsTo(s, i, first)
              PROVE  at[i] = first
            <4>1. \A j \in (i + 1)..first : FALSE
                BY <1>1, <3>1
            <4>2. QED
                BY <1>4, <3>1, <4>1
        <3>2. QED
            BY <3>1
    <2>2. ASSUME NEW d \in T
          PROVE  d + 1 \in T
        <3>1. d \in Nat
              /\ \A i \in 1..first : first - i <= d /\ LeadsTo(s, i, first) => at[i] = first
            OBVIOUS
        <3>2. ASSUME NEW i \in 1..first, first - i <= d + 1, LeadsTo(s, i, first)
              PROVE  at[i] = first
            <4>1. \A j \in (i + 1)..first : j \in 1..first /\ first - j <= d
                BY <1>1, <3>1, <3>2
            <4>2. QED
                BY <1>4, <3>1, <3>2, <4>1
        <3>3. QED
            BY <3>1, <3>2
    <2>3. T \in SUBSET Nat
        OBVIOUS
    <2> HIDE DEF T
    <2>4. QED
        BY <2>1, <2>2, <2>3, SetInduction
<1>6. LeadsTo(s, 1, first)
    BY <1>1 DEF LeadsTo, Leading
<1>7. first - 1 \in Nat /\ 1 \in 1..first
    BY <1>1
<1>8. at[1] = first
    <2>1. first - 1 \in T
        BY <1>5, <1>7
    <2>2. QED
        BY <1>6, <1>7, <2>1
<1>9. QED
    BY <1>1, <1>8

-----------------------------------------------------------------------------
(***************************************************************************)
(* Whether a statement yields rows.                                        *)
(***************************************************************************)
\* Every word there is comes from a place where one stands.
LEMMA WordsComeFrom ==
    ASSUME NEW s \in Seq(Symbols), NEW i \in 0..Len(s), NEW k \in DOMAIN WordsUpTo(s)[i]
    PROVE  \E q \in 1..i : IsWord(s, q) /\ WordsUpTo(s)[i][k] = WordAt(s, q)
<1> DEFINE n == Len(s)
           upto == WordsUpTo(s)
           From(j) == \A x \in DOMAIN upto[j] : \E q \in 1..j : IsWord(s, q) /\ upto[j][x] = WordAt(s, q)
           T == {j \in Nat : j <= n => From(j)}
<1>1. /\ n \in Nat /\ upto[0] = <<>>
      /\ \A j \in 1..n : upto[j] = IF IsWord(s, j) /\ ~ IsWord(s, j - 1)
                                   THEN Append(upto[j - 1], WordAt(s, j)) ELSE upto[j - 1]
    BY LenProperties, WordsGoOn DEF IsJoined
<1>2. \A j \in 0..n : upto[j] \in Seq(Words)
    BY WordsStay
<1> HIDE DEF n, upto
<1>3. 0 \in T
    BY <1>1
<1>4. ASSUME NEW j \in T
      PROVE  j + 1 \in T
    <2>1. SUFFICES ASSUME j + 1 <= n PROVE From(j + 1)
        OBVIOUS
    <2>2. j \in Nat /\ j + 1 \in 1..n /\ (j + 1) - 1 = j /\ j \in 0..n /\ From(j)
        BY <1>1, <2>1
    <2>3. \A q \in 1..j : q \in 1..(j + 1)
        BY <2>2
    <2>4. CASE upto[j + 1] = upto[j]
        BY <2>2, <2>3, <2>4
    <2>5. CASE IsWord(s, j + 1) /\ upto[j + 1] = Append(upto[j], WordAt(s, j + 1))
        <3> DEFINE a == upto[j]
                   word == WordAt(s, j + 1)
        <3>1. a \in Seq(Words) /\ word \in Words
            <4>1. word \in Words
                BY <2>5, Zenon DEF WordAt, IsWord, Words
            <4>2. QED
                BY <1>2, <2>2, <4>1
        <3>2. \A x \in DOMAIN a : \E q \in 1..(j + 1) : IsWord(s, q) /\ a[x] = WordAt(s, q)
            BY <2>2, <2>3
        <3>3. IsWord(s, j + 1) /\ word = WordAt(s, j + 1) /\ j + 1 \in 1..(j + 1)
            BY <2>2, <2>5
        <3> HIDE DEF a, word
        <3>4. DOMAIN Append(a, word) = 1..(Len(a) + 1) /\ DOMAIN a = 1..Len(a) /\ Len(a) \in Nat
            <4>1. Append(a, word) \in Seq(Words)
                BY <3>1, AppendProperties
            <4>2. Len(Append(a, word)) = Len(a) + 1
                BY <3>1, AppendProperties
            <4>3. QED
                BY <3>1, <4>1, <4>2, LenProperties
        <3>5. Append(a, word)[Len(a) + 1] = word
            BY <3>1, AppendProperties
        <3>6. \A x \in 1..Len(a) : Append(a, word)[x] = a[x]
            BY <3>1, AppendProperties
        <3>7. \A x \in DOMAIN Append(a, word) : x = Len(a) + 1 \/ x \in 1..Len(a)
            BY <3>4
        <3>8. \A x \in DOMAIN Append(a, word) :
                \E q \in 1..(j + 1) : IsWord(s, q) /\ Append(a, word)[x] = WordAt(s, q)
            BY <3>2, <3>3, <3>4, <3>5, <3>6, <3>7
        <3>9. QED
            BY <2>5, <3>8 DEF a, word
    <2>6. QED
        BY <1>1, <2>2, <2>4, <2>5
<1>5. T = Nat
    <2> HIDE DEF T
    <2>1. T \in SUBSET Nat
        BY DEF T
    <2>2. QED
        BY <1>3, <1>4, <2>1, SetInduction
<1>6. i \in T /\ i <= n
    BY <1>1, <1>5 DEF n
<1>7. QED
    BY <1>6 DEF upto

FirstToken(s) == FirstOf({i \in Tokens(s) : s[i] # "("}, 0)

PlainStatement(s, first) ==
    /\ first > 0 /\ s[first] \in Words /\ EndsKeyword(s, first + 1)
    /\ \A i \in 2..first : s[i] = "(" => s[i - 1] \notin Spaces
    /\ \A i \in Pieces(s) :
          i < first /\ PairAt(s, i) = <<"-", "-">> /\ s[PieceEnd(s, i)] = "cr" =>
              s[PieceEnd(s, i) + 1] = "\n"
    /\ \A i \in DOMAIN s : s[i] = "RETURNING" =>
          i \in Pieces(s) /\ \A j \in {i - 1, i + 1} \cap Pieces(s) : s[j] \notin Words

YieldsRows(words) ==
    \/ words[1] \in RowWords
    \/ words[1] \in WriteWords /\ \E k \in DOMAIN words : words[k] = "RETURNING"

\* Before the first token of one statement stand parentheses, spaces and comments.
LEMMA FirstLeads ==
    ASSUME NEW s \in Seq(Symbols), OneStatement(s), PlainStatement(s, FirstToken(s))
    PROVE  Leading(s, FirstToken(s))
<1> DEFINE first == FirstToken(s)
           places == {i \in Tokens(s) : s[i] # Parenthesis}
<1>1. Pieces(s) \subseteq 1..Len(s) /\ Len(s) \in Nat
    BY StartsGoOn, LenProperties
<1>2. /\ \A j : j \in Semicolons(s) <=> j \in Pieces(s) /\ s[j] = Semi
      /\ \A j : j \in Tokens(s) <=> j \in Pieces(s) /\ IsToken(s, j)
    BY SemicolonsAndTokens
<1>3. places \in SUBSET Nat
    BY <1>1, <1>2
<1>4. first = FirstOf(places, 0)
    BY Zenon DEF FirstToken, Parenthesis
<1>5. /\ first > 0 /\ s[first] \in Words
      /\ \A q \in 2..first : s[q] = Parenthesis => s[q - 1] \notin Spaces
      /\ \A q \in Pieces(s) : q < first => EndsWithLine(s, q)
    BY Zenon DEF PlainStatement, EndsWithLine, Parenthesis, LinePair, Dash, Return, LineFeed
<1> HIDE DEF first, places
<1>6. first \in places /\ \A q \in places : first <= q
    <2>1. places = {} => FirstOf(places, 0) = 0
        BY <1>3, FirstOfIs
    <2>2. places # {} => FirstOf(places, 0) \in places /\ \A q \in places : FirstOf(places, 0) <= q
        BY <1>3, FirstOfIs
    <2>3. places # {}
        BY <1>4, <1>5, <2>1
    <2>4. QED
        BY <1>4, <2>2, <2>3
<1>7. first \in Tokens(s) /\ first \in Pieces(s) /\ first \in Nat
    BY <1>1, <1>2, <1>6 DEF places
<1>8. ASSUME NEW q \in Pieces(s), q < first
      PROVE  s[q] \in Spaces \cup {Parenthesis} \/ PairAt(s, q) \in {LinePair, BlockPair}
    <2>1. q \notin places /\ q \in Nat
        BY <1>1, <1>6, <1>7, <1>8
    <2>2. s[q] # Semi
        <3>1. SUFFICES ASSUME s[q] = Semi PROVE FALSE
            OBVIOUS
        <3>2. q \in Semicolons(s)
            BY <1>2, <3>1
        <3>3. first < q
            BY <1>7, <3>2 DEF OneStatement
        <3>4. QED
            BY <1>7, <1>8, <2>1, <3>3
    <2>3. s[q] = Parenthesis \/ ~ IsToken(s, q)
        BY <1>2, <2>1 DEF places
    <2>4. QED
        BY <2>2, <2>3 DEF IsToken
<1>9. Leading(s, first)
    BY <1>5, <1>7, <1>8 DEF Leading
<1>10. QED
    BY <1>9 DEF first

\* What the first word ends at is no word.
LEMMA KeywordEnds ==
    ASSUME NEW s \in Seq(Symbols), NEW first \in 1..Len(s), PlainStatement(s, first)
    PROVE  first = Len(s) \/ s[first + 1] \in Spaces \cup {Parenthesis}
<1> DEFINE n == Len(s)
           next == first + 1
<1>1. n \in Nat
    BY LenProperties
<1>2. (\A i \in next..n : s[i] \in Spaces) \/ s[next] \in {" ", LineFeed, Return, Parenthesis}
    BY Zenon DEF PlainStatement, EndsKeyword, LineFeed, Return, Parenthesis
<1>3. {" ", LineFeed, Return} \subseteq Spaces
    BY Zenon DEF LineFeed, Return, Spaces, LineEnds
<1>4. first # n => next \in next..n
    BY <1>1
<1>5. QED
    BY <1>2, <1>3, <1>4

\* The first word is the first token.
LEMMA FirstWord ==
    ASSUME NEW s \in Seq(Symbols), NEW first, Leading(s, first), PlainStatement(s, first)
    PROVE  WordsOf(s)[1] = s[first] /\ \A q \in 1..(first - 1) : ~ IsWord(s, q)
<1> DEFINE n == Len(s)
           upto == WordsUpTo(s)
<1>1. n \in Nat /\ first \in 1..n /\ Pieces(s) \subseteq 1..n
    BY StartsGoOn, LenProperties DEF Leading
<1>2. ASSUME NEW q \in 0..(first - 1)
      PROVE  ~ IsWord(s, q)
    <2>1. SUFFICES ASSUME q \in Pieces(s), s[q] \in Words PROVE FALSE
        BY DEF IsWord
    <2>2. q < first
        BY <1>1
    <2>3. s[q] \in Spaces \cup {Parenthesis} \/ PairAt(s, q) \in {LinePair, BlockPair}
        BY <2>1, <2>2 DEF Leading
    <2>4. Parenthesis \notin Words
        BY Zenon DEF Parenthesis, Words, RowWords, WriteWords
    <2>5. s[q] \notin {Dash, Slash}
        BY <2>1, SignsDiffer
    <2>6. QED
        BY <2>1, <2>3, <2>4, <2>5, NoComment, SignsDiffer
<1>3. \A j \in 1..n : upto[j] = IF IsWord(s, j) /\ ~ IsWord(s, j - 1)
                                THEN Append(upto[j - 1], WordAt(s, j)) ELSE upto[j - 1]
    BY WordsGoOn
<1>4. upto[0] = <<>>
    BY WordsGoOn DEF IsJoined
<1> HIDE DEF upto
<1> DEFINE T == {j \in Nat : j <= first - 1 => upto[j] = <<>>}
<1>5. T = Nat
    <2>1. 0 \in T
        BY <1>4
    <2>2. ASSUME NEW j \in T
          PROVE  j + 1 \in T
        <3>1. SUFFICES ASSUME j + 1 <= first - 1 PROVE upto[j + 1] = <<>>
            OBVIOUS
        <3>2. j + 1 \in 1..n /\ (j + 1) - 1 = j /\ j + 1 \in 0..(first - 1) /\ j <= first - 1
            BY <1>1, <3>1
        <3>3. upto[j] = <<>>
            BY <3>2
        <3>4. QED
            BY <1>2, <1>3, <3>2, <3>3
    <2>3. T \in SUBSET Nat
        OBVIOUS
    <2> HIDE DEF T
    <2>4. QED
        BY <2>1, <2>2, <2>3, SetInduction
<1>6. upto[first - 1] = <<>>
    <2>1. first - 1 \in Nat /\ first - 1 <= first - 1
        BY <1>1
    <2>2. first - 1 \in T
        BY <1>5, <2>1
    <2>3. QED
        BY <2>1, <2>2
<1>7. IsWord(s, first) /\ ~ IsWord(s, first - 1)
    <2>1. IsWord(s, first)
        BY DEF Leading, IsWord
    <2>2. first - 1 \in 0..(first - 1)
        BY <1>1
    <2>3. QED
        BY <1>2, <2>1, <2>2
<1>8. WordAt(s, first) = s[first] /\ s[first] \in Words
    <2>1. first = n \/ s[first + 1] \in Spaces \cup {Parenthesis}
        BY <1>1, KeywordEnds
    <2>2. ~ IsWord(s, first + 1)
        <3>1. CASE first = n
            <4>1. first + 1 \notin 1..n
                BY <1>1, <3>1
            <4>2. QED
                BY <1>1, <4>1 DEF IsWord
        <3>2. CASE s[first + 1] \in Spaces \cup {Parenthesis}
            <4>1. Parenthesis \notin Words
                BY Zenon DEF Parenthesis, Words, RowWords, WriteWords
            <4>2. s[first + 1] \notin Words
                BY <3>2, <4>1, SignsDiffer
            <4>3. QED
                BY <4>2 DEF IsWord
        <3>3. QED
            BY <2>1, <3>1, <3>2
    <2>3. QED
        BY <1>7, <2>2 DEF WordAt, IsWord
<1>9. upto[first] = <<s[first]>>
    <2>1. upto[first] = Append(<<>>, s[first])
        BY <1>1, <1>3, <1>6, <1>7, <1>8
    <2>2. Append(<<>>, s[first]) = <<s[first]>>
        OBVIOUS
    <2>3. QED
        BY <2>1, <2>2
<1>10. WordsOf(s)[1] = s[first]
    <2>1. first \in 0..n
        BY <1>1
    <2>2. IsBeginning(upto[first], WordsOf(s))
        BY <2>1, WordsStay DEF upto
    <2>3. Len(upto[first]) = 1 /\ upto[first][1] = s[first]
        BY <1>9
    <2>4. QED
        BY <2>2, <2>3 DEF IsBeginning
<1>11. \A q \in 1..(first - 1) : q \in 0..(first - 1)
    BY <1>1
<1>12. QED
    BY <1>2, <1>10, <1>11

\* RETURNING is one of the words if it stands behind the first token.
LEMMA ReturningIs ==
    ASSUME NEW s \in Seq(Symbols), NEW first, Leading(s, first), PlainStatement(s, first)
    PROVE  (\E k \in DOMAIN WordsOf(s) : WordsOf(s)[k] = "RETURNING")
              <=> \E j \in first..Len(s) : s[j] = "RETURNING"
<1> DEFINE n == Len(s)
           w == WordsOf(s)
           upto == WordsUpTo(s)
<1>1. /\ n \in Nat /\ first \in 1..n /\ DOMAIN s = 1..n /\ Pieces(s) \subseteq 1..n
      /\ w = upto[n] /\ n \in 0..n
    BY StartsGoOn, WordsGoOn, LenProperties DEF Leading
<1>2. ASSUME NEW k \in DOMAIN w, w[k] = "RETURNING"
      PROVE  \E j \in first..n : s[j] = "RETURNING"
    <2>1. PICK q \in 1..n : IsWord(s, q) /\ upto[n][k] = WordAt(s, q)
        <3>1. k \in DOMAIN upto[n]
            BY <1>1
        <3>2. QED
            BY <1>1, <3>1, WordsComeFrom
    <2>2. s[q] = "RETURNING"
        BY <1>1, <1>2, <2>1 DEF WordAt
    <2>3. ~ (q \in 1..(first - 1))
        BY <2>1, FirstWord
    <2>4. q \in first..n
        BY <1>1, <2>3
    <2>5. QED
        BY <2>2, <2>4
<1>3. ASSUME NEW j \in first..n, s[j] = "RETURNING"
      PROVE  \E k \in DOMAIN w : w[k] = "RETURNING"
    <2>1. j \in 1..n /\ j - 1 \in 0..n /\ j \in 0..n
        BY <1>1
    <2>2. j \in Pieces(s) /\ \A q \in {j - 1, j + 1} \cap Pieces(s) : s[q] \notin Words
        BY <1>1, <1>3, <2>1 DEF PlainStatement
    <2>3. "RETURNING" \in Words
        BY Zenon DEF Words
    <2>4. IsWord(s, j) /\ ~ IsWord(s, j - 1) /\ ~ IsWord(s, j + 1)
        BY <1>3, <2>2, <2>3 DEF IsWord
    <2>5. upto[j] = Append(upto[j - 1], "RETURNING")
        <3>1. WordAt(s, j) = "RETURNING"
            BY <1>3, <2>4 DEF WordAt
        <3>2. QED
            BY <2>1, <2>4, <3>1, WordsGoOn
    <2> DEFINE a == upto[j - 1]
               i == j - 1
    <2>6. a \in Seq(Words)
        <3>1. i \in 0..n
            BY <2>1
        <3> HIDE DEF i
        <3>2. upto[i] \in Seq(Words)
            BY <3>1, WordsStay
        <3>3. QED
            BY <3>2 DEF i
    <2>7. IsBeginning(upto[j], w) /\ w \in Seq(Words)
        BY <2>1, WordsStay
    <2> HIDE DEF a, w
    <2>8. Len(Append(a, "RETURNING")) = Len(a) + 1
        BY <2>3, <2>6, AppendProperties
    <2>9. Append(a, "RETURNING")[Len(a) + 1] = "RETURNING"
        BY <2>3, <2>6, AppendProperties
    <2>10. Len(a) \in Nat /\ DOMAIN w = 1..Len(w) /\ Len(w) \in Nat
        BY <2>6, <2>7, LenProperties
    <2> DEFINE k == Len(a) + 1
    <2>11. Len(upto[j]) = k /\ upto[j][k] = "RETURNING"
        BY <2>5, <2>8, <2>9 DEF a
    <2>12. k \in 1..k
        BY <2>10
    <2> HIDE DEF k
    <2>13. k <= Len(w) /\ w[k] = "RETURNING"
        BY <2>7, <2>11, <2>12 DEF IsBeginning
    <2>14. k \in DOMAIN w
        BY <2>10, <2>13 DEF k
    <2>15. QED
        BY <2>13, <2>14
<1>4. QED
    BY <1>2, <1>3

KeywordEnd(s, from) == FirstOf({j \in from..Len(s) : EndsKeyword(s, j)}, Len(s) + 1)

\* What Execute goes by is the first word, and whether RETURNING is another.
LEMMA ReturnsRowsRightly ==
    ASSUME NEW s \in Seq(Symbols), OneStatement(s), PlainStatement(s, FirstToken(s))
    PROVE  ReturnsRows(s) <=> YieldsRows(WordsOf(s))
<1> DEFINE n == Len(s)
           first == FirstToken(s)
           ends == {j \in first..n : EndsKeyword(s, j)}
<1>1. Leading(s, first)
    BY FirstLeads
<1>2. n \in Nat /\ first \in 1..n /\ s[first] \in Words
    BY <1>1, StartsGoOn, LenProperties DEF Leading
<1>3. KeywordAt(s) = first
    BY <1>1, KeywordIsFirst
<1>4. EndsKeyword(s, first + 1)
    BY Zenon DEF PlainStatement
<1>5. (\E k \in DOMAIN WordsOf(s) : WordsOf(s)[k] = "RETURNING")
         <=> \E j \in first..n : s[j] = "RETURNING"
    <2> HIDE DEF first
    <2>1. PlainStatement(s, first)
        BY DEF first
    <2>2. QED
        BY <1>1, <2>1, ReturningIs
<1>6. WordsOf(s)[1] = s[first]
    <2> HIDE DEF first
    <2>1. PlainStatement(s, first)
        BY DEF first
    <2>2. QED
        BY <1>1, <2>1, FirstWord
<1>7. KeywordEnd(s, first) = FirstOf(ends, n + 1)
    BY Zenon DEF KeywordEnd
<1> HIDE DEF first
<1>8. FirstOf(ends, n + 1) = first + 1
    <2>1. ends \in SUBSET Nat /\ n + 1 \in Nat
        BY <1>2
    <2>2. first \notin ends
        <3>1. Parenthesis \notin Words /\ s[first] \notin Spaces
            BY <1>2, SignsDiffer, Zenon DEF Parenthesis, Words, RowWords, WriteWords
        <3>2. {" ", LineFeed, Return} \subseteq Spaces
            BY Zenon DEF LineFeed, Return, Spaces, LineEnds
        <3>3. EndsKeyword(s, first) =>
                \/ \A i \in first..n : s[i] \in Spaces
                \/ s[first] \in {" ", LineFeed, Return, Parenthesis}
            BY Zenon DEF EndsKeyword, LineFeed, Return, Parenthesis
        <3>4. first \in first..n
            BY <1>2
        <3>5. QED
            BY <1>2, <3>1, <3>2, <3>3, <3>4
    <2>3. \A j \in ends : first + 1 <= j
        <3> TAKE j \in ends
        <3>1. j \in first..n /\ j # first
            BY <2>2
        <3>2. QED
            BY <1>2, <3>1
    <2>4. CASE first = n
        <3>1. ends = {}
            <4>1. \A j \in first..n : j = first
                BY <1>2, <2>4
            <4>2. QED
                BY <2>2, <4>1
        <3> DEFINE default == n + 1
        <3>2. default \in Nat
            BY <2>1
        <3> HIDE DEF ends, default
        <3>3. FirstOf(ends, default) = default
            BY <2>1, <3>1, <3>2, FirstOfIs
        <3>4. QED
            BY <2>4, <3>3 DEF default
    <2>5. CASE first # n
        <3>1. first + 1 \in ends
            <4>1. first + 1 \in first..n
                BY <1>2, <2>5
            <4>2. QED
                BY <1>4, <2>5, <4>1
        <3> DEFINE next == first + 1
                   default == n + 1
        <3>2. next \in ends /\ (\A j \in ends : next <= j) /\ default \in Nat
            BY <2>1, <2>3, <3>1
        <3> HIDE DEF ends, next, default
        <3>3. \A a \in ends : (\A b \in ends : a <= b) => FirstOf(ends, default) = a
            BY <2>1, <3>2, FirstOfIs, Zenon
        <3>4. QED
            BY <3>2, <3>3 DEF next, default
    <2>6. QED
        BY <2>4, <2>5
<1>9. ReturnsRows(s) <=>
        \/ KeywordEnd(s, KeywordAt(s)) = KeywordAt(s) + 1 /\ s[KeywordAt(s)] \in RowWords
        \/ /\ KeywordEnd(s, KeywordAt(s)) = KeywordAt(s) + 1 /\ s[KeywordAt(s)] \in WriteWords
           /\ \E j \in KeywordAt(s)..n : s[j] = "RETURNING"
    BY Zenon DEF ReturnsRows, KeywordEnd
<1>10. KeywordEnd(s, first) = first + 1
    BY <1>7, <1>8
<1>11. ReturnsRows(s) <=>
        \/ s[first] \in RowWords
        \/ s[first] \in WriteWords /\ \E j \in first..n : s[j] = "RETURNING"
    BY <1>3, <1>9, <1>10
<1>12. QED
    BY <1>5, <1>6, <1>11 DEF YieldsRows

\* Whatever the statement, Execute fetches rows exactly if its first word is one
\* that yields them, or one that writes and RETURNING is a word of its own, provided
\* that word is followed by a blank, a tab, a line end, a parenthesis or nothing, no
\* parenthesis before it comes after white space alone, and no line comment before it ends at a
\* carriage return without a newline (ReturnsRows).
THEOREM RowsAreFetchedRightly == ScanSpec => []RowsAreFetched
<1>1. ScanInv => RowsAreFetched
    <2> SUFFICES ASSUME ScanInv PROVE RowsAreFetched
        OBVIOUS
    <2> DEFINE s == scan.statement
    <2>1. SUFFICES ASSUME scan.answer = "ok", PlainStatement(s, FirstToken(s))
                   PROVE  ReturnsRows(s) <=> YieldsRows(WordsOf(s))
        BY Zenon DEF RowsAreFetched, PlainStatement, FirstToken, YieldsRows
    <2>2. s \in Seq(Symbols) /\ OneStatement(s)
        BY <2>1 DEF ScanInv, ScanType, OneStatementPasses
    <2>3. QED
        BY <2>1, <2>2, ReturnsRowsRightly
<1>2. QED
    BY <1>1, ScanStarts, ScanGoesOn, PTL DEF ScanSpec

-----------------------------------------------------------------------------
Apostrophe == "sq"
Texts == Seq(Characters)

\* What Quoted makes of each character.
Parts(text) ==
    [k \in 1..Len(text) |-> IF text[k] = Apostrophe THEN <<Apostrophe, Apostrophe>> ELSE <<text[k]>>]

\* Quoted joins the parts between two quotes.
LEMMA QuotedJoins ==
    ASSUME NEW text \in Texts
    PROVE  /\ Parts(text) \in [1..Len(text) -> Texts]
           /\ \E body : /\ JoinsParts(body, <<Apostrophe>>, Parts(text), Len(text))
                        /\ Quoted(text) = Append(body[Len(text)], Apostrophe)
<1> DEFINE n == Len(text)
           part == Parts(text)
           Part(k) == IF text[k] = Apostrophe THEN <<Apostrophe, Apostrophe>> ELSE <<text[k]>>
           body == CHOOSE b : b = [k \in 0..n |-> IF k = 0 THEN <<Apostrophe>> ELSE b[k - 1] \o Part(k)]
<1>1. n \in Nat /\ Apostrophe \in Characters
    BY LenProperties, Zenon DEF Texts, Apostrophe, Characters
<1>2. part \in [1..n -> Texts]
    <2>1. \A k \in 1..n : text[k] \in Characters
        BY ElementOfSeq DEF Texts
    <2>2. \A k \in 1..n : Part(k) \in Texts
        BY <1>1, <2>1 DEF Texts
    <2>3. part = [k \in 1..n |-> Part(k)]
        BY DEF Parts
    <2> HIDE DEF Part
    <2>4. QED
        BY <2>2, <2>3
<1>3. <<Apostrophe>> \in Texts
    BY <1>1 DEF Texts
<1>4. Quoted(text) = Append(body[n], Apostrophe)
    BY Zenon DEF Quoted, Apostrophe
<1>5. \E f : JoinsParts(f, <<Apostrophe>>, part, n)
    <2> HIDE DEF part, n
    <2>1. QED
        BY <1>1, <1>2, <1>3, JoinExists, Zenon DEF Texts
<1>6. PICK f : JoinsParts(f, <<Apostrophe>>, part, n)
    BY <1>5
<1>7. \A k \in 0..n : k # 0 => k \in 1..n /\ part[k] = Part(k)
    BY <1>1 DEF Parts
<1> HIDE DEF Part, part
<1>8. \A b : JoinsParts(b, <<Apostrophe>>, part, n)
             <=> b = [k \in 0..n |-> IF k = 0 THEN <<Apostrophe>> ELSE b[k - 1] \o Part(k)]
    <2> TAKE b
    <2>1. \A k \in 0..n : (IF k = 0 THEN <<Apostrophe>> ELSE b[k - 1] \o part[k])
                          = (IF k = 0 THEN <<Apostrophe>> ELSE b[k - 1] \o Part(k))
        <3> HIDE DEF n
        <3>1. QED
            BY <1>7, Zenon
    <2>2. [k \in 0..n |-> IF k = 0 THEN <<Apostrophe>> ELSE b[k - 1] \o part[k]]
          = [k \in 0..n |-> IF k = 0 THEN <<Apostrophe>> ELSE b[k - 1] \o Part(k)]
        <3> HIDE DEF n
        <3>1. QED
            BY <2>1, Zenon
    <2>3. QED
        BY <2>2, Zenon DEF JoinsParts
<1>9. body = [k \in 0..n |-> IF k = 0 THEN <<Apostrophe>> ELSE body[k - 1] \o Part(k)]
    <2> HIDE DEF n
    <2>1. QED
        BY <1>6, <1>8, Zenon
<1> HIDE DEF body
<1>10. JoinsParts(body, <<Apostrophe>>, part, n)
    BY <1>8, <1>9, Zenon
<1>11. QED
    BY <1>2, <1>4, <1>10, Zenon DEF part

-----------------------------------------------------------------------------
Prefixed(char, texts) == {<<char>> \o text : text \in texts}

\* What is read from a place on.
ReadFrom(from, sql, i) ==
    IF i > Len(sql) THEN {}
    ELSE IF sql[i] # Apostrophe THEN Prefixed(sql[i], from[i + 1])
    ELSE IF i = Len(sql) THEN {<<>>}
    ELSE IF sql[i + 1] = Apostrophe THEN Prefixed(Apostrophe, from[i + 2])
    ELSE {}

\* ReadAs goes from each place to the next, or the one after.
LEMMA ReadAsReads ==
    ASSUME NEW sql \in Texts
    PROVE  \E from : /\ \A i \in 1..(Len(sql) + 2) : from[i] = ReadFrom(from, sql, i)
                     /\ ReadAs(sql) = (IF Len(sql) > 1 /\ sql[1] = Apostrophe THEN from[2] ELSE {})
<1> DEFINE n == Len(sql)
           N == n + 2
           D == 1..N
           V == SUBSET Texts
           Body(f, i) == ReadFrom(f, sql, i)
           rank == [i \in D |-> N - i]
           Step == [z \in D \X [D -> V] |-> Body(z[2], z[1])]
           from == CHOOSE f : f = [i \in 1..N |-> ReadFrom(f, sql, i)]
<1>1. n \in Nat /\ Apostrophe \in Characters
    BY LenProperties, Zenon DEF Texts, Apostrophe, Characters
<1>2. ASSUME NEW i \in D, NEW f \in [D -> V]
      PROVE  Body(f, i) \in V
    <2>1. \A char \in Characters, texts \in V : Prefixed(char, texts) \in V
        <3> TAKE char \in Characters, texts \in V
        <3>1. <<char>> \in Texts
            BY DEF Texts
        <3>2. \A text \in texts : <<char>> \o text \in Texts
            BY <3>1, ConcatProperties DEF Texts
        <3>3. QED
            BY <3>2 DEF Prefixed
    <2>2. {} \in V /\ {<<>>} \in V
        BY DEF Texts
    <2>3. CASE i > n
        BY <2>2, <2>3 DEF ReadFrom
    <2>4. CASE i <= n
        <3>1. i + 1 \in D /\ i + 2 \in D /\ sql[i] \in Characters
            BY <1>1, <2>4, ElementOfSeq DEF Texts
        <3>2. f[i + 1] \in V /\ f[i + 2] \in V
            <4> HIDE DEF D, V
            <4>1. QED
                BY <3>1
        <3> HIDE DEF V, D, N
        <3>3. QED
            BY <1>1, <2>1, <2>2, <3>1, <3>2, Zenon DEF ReadFrom
    <2>5. QED
        BY <1>1, <2>3, <2>4
<1>3. ASSUME NEW i \in D, NEW f \in [D -> V], NEW g \in [D -> V],
             \A y \in D : rank[y] < rank[i] => f[y] = g[y]
      PROVE  Body(f, i) = Body(g, i)
    <2>1. CASE i > n
        BY <2>1 DEF ReadFrom
    <2>2. CASE i <= n
        <3>1. i + 1 \in D /\ i + 2 \in D
            BY <1>1, <2>2
        <3>2. rank[i + 1] < rank[i] /\ rank[i + 2] < rank[i]
            BY <1>1, <3>1
        <3>3. f[i + 1] = g[i + 1] /\ f[i + 2] = g[i + 2]
            <4> HIDE DEF D, V, rank
            <4>1. QED
                BY <1>3, <3>1, <3>2
        <3> HIDE DEF D, V, N
        <3>4. QED
            BY <3>3, Zenon DEF ReadFrom
    <2>3. QED
        BY <1>1, <2>1, <2>2
<1>4. ReadAs(sql) = (IF n > 1 /\ sql[1] = Apostrophe THEN from[2] ELSE {})
    BY Zenon DEF ReadAs, ReadFrom, Prefixed, Apostrophe
<1>5. rank \in [D -> 0..N] /\ N \in Nat
    BY <1>1
<1> HIDE DEF Body, V
<1>6. Step \in [D \X [D -> V] -> V]
    BY <1>2
<1>7. MadeOfLower(Step, D, V, rank)
    BY <1>3 DEF MadeOfLower
<1>8. V # {}
    BY DEF V
<1>9. PICK f \in [D -> V] : Solves(f, Step, D)
    <2> HIDE DEF D, rank, Step, N
    <2>1. QED
        BY <1>5, <1>6, <1>7, <1>8, RecursiveFunction, Zenon
<1>10. f = [i \in D |-> Body(f, i)]
    BY <1>9 DEF Solves
<1>11. from = [i \in D |-> ReadFrom(from, sql, i)]
    BY <1>10, Zenon DEF Body
<1> HIDE DEF from
<1>12. \A i \in D : from[i] = ReadFrom(from, sql, i)
    BY <1>11
<1>13. QED
    BY <1>4, <1>12

\* What stands in a quoted text for the k-th character: it, or two quotes; the
\* part for the k-th character ends at place end[k].
Encodes(sql, text, end) ==
    /\ end \in [0..Len(text) -> Nat] /\ end[0] = 1
    /\ Len(sql) = end[Len(text)] + 1 /\ sql[1] = Apostrophe /\ sql[Len(sql)] = Apostrophe
    /\ \A k \in 1..Len(text) :
          /\ end[k] < Len(sql)
          /\ IF text[k] = Apostrophe
             THEN end[k] = end[k - 1] + 2 /\ sql[end[k] - 1] = Apostrophe /\ sql[end[k]] = Apostrophe
             ELSE end[k] = end[k - 1] + 1 /\ sql[end[k]] = text[k]

\* Quoted puts it there.
LEMMA QuotedEncodes ==
    ASSUME NEW text \in Texts
    PROVE  Quoted(text) \in Texts /\ \E end : Encodes(Quoted(text), text, end)
<1> DEFINE n == Len(text)
           part == Parts(text)
           sql == Quoted(text)
<1>1. n \in Nat /\ Apostrophe \in Characters /\ <<Apostrophe>> \in Texts
    <2>1. n \in Nat /\ Apostrophe \in Characters
        BY LenProperties, Zenon DEF Texts, Apostrophe, Characters
    <2>2. QED
        BY <2>1 DEF Texts
<1>2. part \in [1..n -> Texts]
    BY QuotedJoins
<1>3. PICK body : JoinsParts(body, <<Apostrophe>>, part, n) /\ sql = Append(body[n], Apostrophe)
    BY QuotedJoins
<1>4. IsJoined(body, Characters, <<Apostrophe>>, part, n)
    <2> HIDE DEF part, n
    <2>1. QED
        BY <1>1, <1>2, <1>3, JoinType, Zenon DEF Texts
<1>5. \A k \in 0..n : body[k] \in Texts /\ Len(body[k]) \in Nat
    BY <1>4, LenProperties DEF Texts, IsJoined
<1>6. \A k \in 0..n : IsBeginning(body[k], body[n])
    <2> TAKE k \in 0..n
    <2>1. n \in k..n
        BY <1>1
    <2> HIDE DEF part, n
    <2>2. QED
        BY <1>1, <1>2, <1>4, <2>1, JoinStays DEF Texts
<1>7. /\ sql \in Texts /\ Len(sql) = Len(body[n]) + 1 /\ sql[Len(sql)] = Apostrophe
      /\ \A i \in 1..Len(body[n]) : sql[i] = body[n][i]
    <2>1. body[n] \in Seq(Characters)
        BY <1>1, <1>5 DEF Texts
    <2>2. \A s \in Seq(Characters) :
            /\ Append(s, Apostrophe) \in Texts /\ Len(Append(s, Apostrophe)) = Len(s) + 1
            /\ Append(s, Apostrophe)[Len(s) + 1] = Apostrophe
            /\ \A i \in 1..Len(s) : Append(s, Apostrophe)[i] = s[i]
        BY <1>1, AppendProperties DEF Texts
    <2> HIDE DEF sql, n
    <2>3. QED
        BY <1>3, <2>1, <2>2
<1> DEFINE end == [k \in 0..n |-> Len(body[k])]
<1>8. ASSUME NEW k \in 0..n
      PROVE  /\ end[k] = Len(body[k]) /\ end[k] < Len(sql)
             /\ \A i \in 1..end[k] : sql[i] = body[k][i]
    <2>1. n \in 0..n
        BY <1>1
    <2>2. Len(body[k]) \in Nat /\ Len(body[n]) \in Nat
        BY <1>5, <2>1
    <2>3. IsBeginning(body[k], body[n])
        BY <1>6
    <2> HIDE DEF sql, n
    <2>4. QED
        BY <1>7, <2>2, <2>3 DEF IsBeginning
<1>9. end \in [0..n -> Nat] /\ end[0] = 1 /\ sql[1] = Apostrophe
    <2>1. 0 \in 0..n /\ Len(<<Apostrophe>>) = 1 /\ <<Apostrophe>>[1] = Apostrophe
        BY <1>1
    <2>2. Len(body[0]) = 1 /\ body[0][1] = Apostrophe
        BY <1>4, <2>1 DEF IsJoined
    <2>3. end \in [0..n -> Nat]
        BY <1>5
    <2>4. end[0] = 1 /\ sql[1] = body[0][1]
        <3> HIDE DEF sql, n, end
        <3>1. QED
            BY <1>8, <2>1, <2>2
    <2>5. QED
        BY <2>2, <2>3, <2>4
<1>10. Len(sql) = end[n] + 1
    BY <1>1, <1>7
<1>11. ASSUME NEW k \in 1..n
       PROVE  IF text[k] = Apostrophe
              THEN end[k] = end[k - 1] + 2 /\ sql[end[k] - 1] = Apostrophe /\ sql[end[k]] = Apostrophe
              ELSE end[k] = end[k - 1] + 1 /\ sql[end[k]] = text[k]
    <2> DEFINE a == body[k - 1]
               b == part[k]
    <2>1. k \in 0..n /\ k - 1 \in 0..n
        BY <1>1
    <2>2. b = (IF text[k] = Apostrophe THEN <<Apostrophe, Apostrophe>> ELSE <<text[k]>>)
        BY DEF Parts
    <2>3. body[k] = a \o b
        BY <1>4 DEF IsJoined
    <2>4. a \in Texts /\ b \in Texts /\ Len(a) \in Nat
        BY <1>2, <1>5, <2>1
    <2>5. end[k] = Len(body[k]) /\ end[k - 1] = Len(a) /\ (\A i \in 1..end[k] : sql[i] = body[k][i])
        BY <1>8, <2>1
    <2>6. \A s, t \in Texts :
            /\ Len(s \o t) = Len(s) + Len(t)
            /\ \A i \in 1..(Len(s) + Len(t)) :
                  (s \o t)[i] = IF i <= Len(s) THEN s[i] ELSE t[i - Len(s)]
        BY ConcatProperties DEF Texts
    <2> HIDE DEF sql, n, end, part
    <2>7. CASE text[k] = Apostrophe
        <3>1. Len(b) = 2 /\ b[1] = Apostrophe /\ b[2] = Apostrophe
            BY <2>2, <2>7
        <3> HIDE DEF a, b
        <3>2. Len(body[k]) = Len(a) + 2 /\ body[k][Len(a) + 1] = Apostrophe /\ body[k][Len(a) + 2] = Apostrophe
            <4>1. /\ Len(a \o b) = Len(a) + Len(b)
                  /\ \A i \in 1..(Len(a) + Len(b)) :
                        (a \o b)[i] = IF i <= Len(a) THEN a[i] ELSE b[i - Len(a)]
                BY <2>4, <2>6
            <4>2. (Len(a) + 1) - Len(a) = 1 /\ (Len(a) + 2) - Len(a) = 2
                BY <2>4
            <4>3. QED
                BY ONLY <2>3, <2>4, <3>1, <4>1, <4>2
        <3>3. QED
            BY <2>4, <2>5, <2>7, <3>2
    <2>8. CASE text[k] # Apostrophe
        <3>1. Len(b) = 1 /\ b[1] = text[k]
            BY <2>2, <2>8
        <3> HIDE DEF a, b
        <3>2. Len(body[k]) = Len(a) + 1 /\ body[k][Len(a) + 1] = text[k]
            <4>1. /\ Len(a \o b) = Len(a) + Len(b)
                  /\ \A i \in 1..(Len(a) + Len(b)) :
                        (a \o b)[i] = IF i <= Len(a) THEN a[i] ELSE b[i - Len(a)]
                BY <2>4, <2>6
            <4>2. (Len(a) + 1) - Len(a) = 1 /\ (Len(a) + 2) - Len(a) = 2
                BY <2>4
            <4>3. QED
                BY ONLY <2>3, <2>4, <3>1, <4>1, <4>2
        <3>3. QED
            BY <2>4, <2>5, <2>8, <3>2
    <2>9. QED
        BY <2>7, <2>8
<1>12. \A k \in 1..n : end[k] < Len(sql)
    <2> TAKE k \in 1..n
    <2>1. k \in 0..n
        OBVIOUS
    <2>2. QED
        BY <1>8, <2>1
<1> HIDE DEF sql, end
<1>13. Encodes(sql, text, end)
    BY <1>7, <1>9, <1>10, <1>11, <1>12 DEF Encodes
<1>14. QED
    BY <1>7, <1>13 DEF sql

\* A quoted text is read as itself and as nothing else.
LEMMA QuotedIsRead ==
    ASSUME NEW text \in Texts
    PROVE  ReadAs(Quoted(text)) = {text}
<1> DEFINE n == Len(text)
           sql == Quoted(text)
           After(k) == SubSeq(text, k + 1, n)
<1>1. sql \in Texts /\ n \in Nat /\ Len(sql) \in Nat
    BY QuotedEncodes, LenProperties DEF Texts
<1>2. PICK end : Encodes(sql, text, end)
    BY QuotedEncodes
<1>3. PICK from : /\ \A i \in 1..(Len(sql) + 2) : from[i] = ReadFrom(from, sql, i)
                  /\ ReadAs(sql) = (IF Len(sql) > 1 /\ sql[1] = Apostrophe THEN from[2] ELSE {})
    BY <1>1, ReadAsReads
<1>4. After(n) = <<>> /\ After(0) = text
    BY <1>1, SubSeqEmpty, SubSeqFull DEF Texts
<1>5. \A k \in 1..n : After(k - 1) = <<text[k]>> \o After(k)
    <2> TAKE k \in 1..n
    <2>1. n \in k..Len(text) /\ (k - 1) + 1 = k
        BY <1>1
    <2>2. QED
        BY <2>1, SubSeqRecursiveFirst DEF Texts
<1>6. \A k \in 0..n : end[k] \in Nat
    BY <1>2 DEF Encodes
<1>7. \A char, s : Prefixed(char, {s}) = {<<char>> \o s}
    BY DEF Prefixed
<1> HIDE DEF After, sql
<1>8. from[end[n] + 1] = {After(n)}
    <2>1. n \in 0..n
        BY <1>1
    <2>2. Len(sql) = end[n] + 1 /\ sql[end[n] + 1] = Apostrophe
        BY <1>2 DEF Encodes
    <2>3. end[n] + 1 \in 1..(Len(sql) + 2)
        BY <1>6, <2>1, <2>2
    <2>4. ~ (end[n] + 1 > Len(sql))
        BY <1>1, <2>2
    <2>5. from[end[n] + 1] = ReadFrom(from, sql, end[n] + 1)
        BY <1>3, <2>3
    <2>6. QED
        BY <1>4, <2>2, <2>4, <2>5, Zenon DEF ReadFrom
<1>9. ASSUME NEW k \in 1..n, from[end[k] + 1] = {After(k)}
      PROVE  from[end[k - 1] + 1] = {After(k - 1)}
    <2> DEFINE i == end[k - 1] + 1
    <2>1. end[k - 1] \in Nat /\ end[k] \in Nat
        <3>1. k \in 0..n /\ k - 1 \in 0..n
            BY <1>1
        <3>2. QED
            BY <1>6, <3>1
    <2>2. CASE text[k] # Apostrophe
        <3>1. end[k] = i /\ sql[i] = text[k] /\ end[k] < Len(sql)
            BY <1>2, <2>2 DEF Encodes
        <3>2. i \in 1..(Len(sql) + 2) /\ ~ (i > Len(sql)) /\ end[k] + 1 = i + 1
            BY <1>1, <2>1, <3>1
        <3> HIDE DEF i, n
        <3>3. from[i] = ReadFrom(from, sql, i)
            BY <1>3, <3>2
        <3>4. from[i] = Prefixed(text[k], from[i + 1])
            BY <2>2, <3>1, <3>2, <3>3, Zenon DEF ReadFrom
        <3>5. from[i] = {After(k - 1)}
            <4>1. After(k - 1) = <<text[k]>> \o After(k)
                BY <1>5 DEF n
            <4>2. from[i + 1] = {After(k)}
                BY <1>9, <3>2
            <4>3. Prefixed(text[k], {After(k)}) = {<<text[k]>> \o After(k)}
                BY <1>7
            <4>4. QED
                BY <2>2, <3>4, <4>1, <4>2, <4>3
        <3>6. QED
            BY <3>5 DEF i
    <2>3. CASE text[k] = Apostrophe
        <3>1. end[k] = end[k - 1] + 2 /\ sql[end[k] - 1] = Apostrophe /\ sql[end[k]] = Apostrophe /\ end[k] < Len(sql)
            BY <1>2, <2>3 DEF Encodes
        <3>2. /\ i \in 1..(Len(sql) + 2) /\ ~ (i > Len(sql)) /\ end[k] + 1 = i + 2 /\ i # Len(sql)
              /\ sql[i] = Apostrophe /\ sql[i + 1] = Apostrophe
            <4>1. end[k] - 1 = i /\ end[k] = i + 1
                BY <2>1, <3>1
            <4>2. i + 1 < Len(sql) /\ i >= 1 /\ i \in Nat
                BY <2>1, <3>1
            <4>3. sql[i] = Apostrophe /\ sql[i + 1] = Apostrophe
                BY <3>1, <4>1
            <4> HIDE DEF i
            <4>4. QED
                BY ONLY <1>1, <2>1, <4>1, <4>2, <4>3
        <3> HIDE DEF i, n
        <3>3. from[i] = ReadFrom(from, sql, i)
            BY <1>3, <3>2
        <3>4. from[i] = Prefixed(text[k], from[i + 2])
            BY <2>3, <3>2, <3>3, Zenon DEF ReadFrom
        <3>5. from[i] = {After(k - 1)}
            <4>1. After(k - 1) = <<text[k]>> \o After(k)
                BY <1>5 DEF n
            <4>2. from[i + 2] = {After(k)}
                BY <1>9, <3>2
            <4>3. Prefixed(Apostrophe, {After(k)}) = {<<Apostrophe>> \o After(k)}
                BY <1>7
            <4>4. QED
                BY <2>3, <3>4, <4>1, <4>2, <4>3
        <3>6. QED
            BY <3>5 DEF i
    <2>4. QED
        BY <2>2, <2>3
<1> DEFINE T == {d \in Nat : d <= n => from[end[n - d] + 1] = {After(n - d)}}
<1>10. T = Nat
    <2>1. 0 \in T
        <3>1. n - 0 = n
            BY <1>1
        <3>2. QED
            BY <1>8, <3>1
    <2>2. ASSUME NEW d \in T
          PROVE  d + 1 \in T
        <3>1. SUFFICES ASSUME d + 1 <= n
                       PROVE  from[end[n - (d + 1)] + 1] = {After(n - (d + 1))}
            OBVIOUS
        <3>2. n - d \in 1..n /\ n - (d + 1) = (n - d) - 1 /\ d <= n
            BY <1>1, <3>1
        <3>3. from[end[n - d] + 1] = {After(n - d)}
            BY <2>2, <3>2
        <3> DEFINE k == n - d
        <3> HIDE DEF k
        <3>4. k \in 1..n /\ from[end[k] + 1] = {After(k)}
            BY <3>2, <3>3 DEF k
        <3>5. from[end[k - 1] + 1] = {After(k - 1)}
            BY <1>9, <3>4
        <3>6. QED
            BY <3>2, <3>5 DEF k
    <2>3. T \in SUBSET Nat
        OBVIOUS
    <2> HIDE DEF T
    <2>4. QED
        BY <2>1, <2>2, <2>3, SetInduction
<1>11. from[end[0] + 1] = {After(0)}
    <2>1. n \in T
        BY <1>1, <1>10
    <2>2. n - n = 0 /\ n <= n
        BY <1>1
    <2>3. QED
        BY <2>1, <2>2
<1>12. end[0] = 1 /\ sql[1] = Apostrophe /\ Len(sql) > 1
    <2>1. end[0] = 1 /\ sql[1] = Apostrophe /\ Len(sql) = end[n] + 1
        BY <1>2 DEF Encodes
    <2>2. end[n] >= 1
        <3>1. n = 0 \/ n \in 1..n
            BY <1>1
        <3>2. CASE n = 0
            BY <2>1, <3>2
        <3>3. CASE n \in 1..n
            <4>1. n - 1 \in 0..n /\ n \in 0..n
                BY <3>3
            <4>2. end[n - 1] \in Nat /\ end[n] \in Nat
                BY <1>6, <4>1
            <4>3. end[n] = end[n - 1] + 2 \/ end[n] = end[n - 1] + 1
                BY <1>2, <3>3 DEF Encodes
            <4>4. QED
                BY <4>2, <4>3
        <3>4. QED
            BY <3>1, <3>2, <3>3
    <2>3. end[n] \in Nat
        BY <1>1, <1>6
    <2>4. QED
        BY <2>1, <2>2, <2>3
<1>13. ReadAs(sql) = {text}
    BY <1>3, <1>4, <1>11, <1>12
<1>14. QED
    BY <1>13 DEF sql

-----------------------------------------------------------------------------
LiteralType ==
    [pc : {"start", "number", "done"}, text : Texts, index : Nat \ {0}, sql : Texts]

\* Up to the index the text could be that of a number.
NumberSoFar ==
    /\ AtPlace("start") => literal.index = 1
    /\ AtPlace("number") =>
          /\ Trimmed \notin Keywords \cup {<<>>}
          /\ \A k \in 1..Len(Trimmed) : k < literal.index => InNumber(Trimmed[k], k)

LiteralInv == literal \in LiteralType /\ NumberSoFar /\ DefaultsKeepTheirMeaning

\* Some places in a text have a first and a last one.
LEMMA FirstAndLast ==
    ASSUME NEW n \in Nat, NEW kept \in SUBSET (1..n), kept # {}
    PROVE  /\ \E i \in kept : \A j \in kept : i <= j
           /\ \E i \in kept : \A j \in kept : i >= j
<1>1. \A S \in SUBSET Nat : S # {} => \E i \in S : \A j \in S : i <= j
    <2> TAKE S \in SUBSET Nat
    <2> HAVE S # {}
    <2>1. PICK i \in S : \A j \in S : ~ (<<j, i>> \in OpToRel(<, Nat))
        BY WFMin, NatLessThanWellFounded
    <2>2. \A j \in S : ~ (j < i)
        BY <2>1 DEF OpToRel
    <2>3. \A j \in S : j \in Nat /\ i \in Nat
        BY <2>1
    <2>4. \A j \in S : i <= j
        BY <2>2, <2>3
    <2>5. QED
        BY <2>1, <2>4
<1>2. kept \in SUBSET Nat
    OBVIOUS
<1> DEFINE before == {n - j : j \in kept}
<1>3. before \in SUBSET Nat /\ before # {}
    <2>1. \A j \in kept : j \in 1..n /\ n - j \in Nat
        OBVIOUS
    <2>2. QED
        BY <2>1
<1>4. PICK d \in before : \A e \in before : d <= e
    <2> HIDE DEF before
    <2>1. QED
        BY <1>1, <1>3
<1>5. PICK i \in kept : d = n - i
    BY <1>4
<1>6. \A j \in kept : n - i <= n - j
    BY <1>4, <1>5
<1>7. \A j \in kept : i >= j
    BY <1>6
<1>8. QED
    BY <1>1, <1>2, <1>7

\* What is trimmed is a text.
LEMMA TrimType ==
    ASSUME NEW text \in Texts
    PROVE  Trim(text) \in Texts
<1> DEFINE n == Len(text)
           Kept(i) == text[i] # " "
           kept == {i \in DOMAIN text : Kept(i)}
           first == CHOOSE i \in kept : \A j \in kept : i <= j
           last == CHOOSE i \in kept : \A j \in kept : i >= j
<1>1. n \in Nat /\ DOMAIN text = 1..n /\ \A i \in 1..n : text[i] \in Characters
    BY LenProperties, ElementOfSeq DEF Texts
<1>2. Trim(text) = (IF kept = {} THEN <<>> ELSE SubSeq(text, first, last))
    BY Zenon DEF Trim
<1> HIDE DEF Kept
<1>3. CASE kept = {}
    BY <1>2, <1>3 DEF Texts
<1>4. CASE kept # {}
    <2>1. kept \in SUBSET (1..n)
        BY <1>1
    <2> HIDE DEF kept
    <2>2. /\ \E i \in kept : \A j \in kept : i <= j
          /\ \E i \in kept : \A j \in kept : i >= j
        <3> HIDE DEF n
        <3>1. QED
            BY <1>1, <1>4, <2>1, FirstAndLast
    <2>3. first \in kept /\ last \in kept
        BY <2>2, Zenon
    <2> HIDE DEF first, last
    <2>4. first \in 1..n /\ last \in 1..n
        BY <2>1, <2>3
    <2>5. first \in Int /\ last \in Int /\ \A i \in first..last : text[i] \in Characters
        BY <1>1, <2>4
    <2>6. SubSeq(text, first, last) \in Texts
        BY <2>5, SubSeqProperties DEF Texts
    <2>7. QED
        BY <1>2, <1>4, <2>6
<1>5. QED
    BY <1>3, <1>4

Digits == {".", "0"}

\* The loop lets a text pass that is dots and digits behind its sign.
LEMMA NumberIsAmongDigits ==
    ASSUME NEW text \in Texts
    PROVE  Among(Unsigned(text), {".", "0"}) <=> \A k \in 1..Len(text) : InNumber(text[k], k)
<1> DEFINE n == Len(text)
<1>1. \A char, k : InNumber(char, k) <=> ((char \in Signs /\ k = 1) \/ char \in Digits)
    BY Zenon DEF InNumber, Digits
<1>2. n \in Nat /\ DOMAIN text = 1..n /\ (text = <<>> <=> n = 0)
    BY LenProperties, EmptySeq DEF Texts
<1>3. \A s : Among(s, Digits) <=> \A i \in DOMAIN s : s[i] \in Digits
    BY Zenon DEF Among
<1>4. CASE text # <<>> /\ text[1] \in Signs
    <2> DEFINE rest == Tail(text)
    <2>1. Unsigned(text) = rest
        BY <1>4, Zenon DEF Unsigned
    <2>2. rest \in Texts /\ Len(rest) = n - 1 /\ \A i \in 1..Len(rest) : rest[i] = text[i + 1]
        BY <1>4, HeadTailProperties DEF Texts
    <2>3. DOMAIN rest = 1..(n - 1)
        BY <2>2, LenProperties DEF Texts
    <2> HIDE DEF rest
    <2>4. ASSUME \A i \in 1..(n - 1) : rest[i] \in Digits, NEW k \in 1..n
          PROVE  InNumber(text[k], k)
        <3>1. CASE k = 1
            BY <1>1, <1>4, <3>1
        <3>2. CASE k # 1
            <4>1. k - 1 \in 1..(n - 1) /\ (k - 1) + 1 = k
                BY <1>2, <3>2
            <4>2. rest[k - 1] = text[k]
                BY <2>2, <4>1
            <4>3. QED
                BY <1>1, <2>4, <4>1, <4>2
        <3>3. QED
            BY <3>1, <3>2
    <2>5. ASSUME \A k \in 1..n : InNumber(text[k], k), NEW i \in 1..(n - 1)
          PROVE  rest[i] \in Digits
        <3>1. i + 1 \in 1..n /\ i + 1 # 1 /\ i \in 1..Len(rest)
            BY <1>2, <2>2
        <3>2. rest[i] = text[i + 1]
            BY <2>2, <3>1
        <3>3. QED
            BY <1>1, <2>5, <3>1, <3>2
    <2> HIDE DEF n
    <2>6. Among(rest, Digits) <=> \A k \in 1..n : InNumber(text[k], k)
        BY <1>3, <2>3, <2>4, <2>5
    <2>7. QED
        BY <2>1, <2>6, Zenon DEF Digits, n
<1>5. CASE ~ (text # <<>> /\ text[1] \in Signs)
    <2>1. Unsigned(text) = text
        BY <1>5, Zenon DEF Unsigned
    <2>2. \A k \in 1..n : InNumber(text[k], k) <=> text[k] \in Digits
        BY <1>1, <1>2, <1>5
    <2> HIDE DEF n
    <2>3. Among(text, Digits) <=> \A k \in 1..n : InNumber(text[k], k)
        BY <1>2, <1>3, <2>2
    <2>4. QED
        BY <2>1, <2>3, Zenon DEF Digits, n
<1>6. QED
    BY <1>4, <1>5, Zenon

\* What a statement says where the default stands is what the default says.
Means(sql) ==
    CASE Trimmed = <<>> -> ReadAs(sql) = {<<>>}
      [] Trimmed \in Keywords \/ IsNumber(Trimmed) -> sql = Trimmed
      [] OTHER -> ReadAs(sql) = {literal.text} \/ (IsRefused(sql) /\ IsRefused(Trimmed))

\* A finished literal with the meaning of its text.
LEMMA LiteralFinishKeeps ==
    ASSUME LiteralInv, NEW sql \in Texts, Finish(sql),
           Means(sql)
    PROVE  LiteralInv'
<1>1. literal \in LiteralType
    BY DEF LiteralInv
<1>2. /\ literal' \in LiteralType /\ literal'.pc = "done" /\ literal'.sql = sql
      /\ literal'.text = literal.text
    BY <1>1 DEF Finish, LiteralType
<1>3. Trimmed' = Trimmed
    BY <1>2, Zenon DEF Trimmed
<1>4. NumberSoFar'
    BY <1>2 DEF NumberSoFar, AtPlace
<1>5. DefaultsKeepTheirMeaning'
    BY <1>2, <1>3, Zenon DEF DefaultsKeepTheirMeaning, Means
<1>6. QED
    BY <1>2, <1>4, <1>5 DEF LiteralInv

\* One case for each turn of the loop.
LEMMA LiteralNextInv == LiteralInv /\ [LiteralNext]_literal => LiteralInv'
<1> SUFFICES ASSUME LiteralInv, [LiteralNext]_literal PROVE LiteralInv'
    OBVIOUS
<1>1. literal \in LiteralType /\ literal.text \in Texts /\ literal.index \in Nat \ {0}
    BY DEF LiteralInv, LiteralType
<1>2. Trimmed \in Texts /\ Len(Trimmed) \in Nat
    BY <1>1, TrimType, LenProperties DEF Trimmed, Texts
<1>3. CASE WriteBlank
    <2>1. Trimmed = <<>> /\ Finish(<<Apostrophe, Apostrophe>>)
        BY <1>3, Zenon DEF WriteBlank, Apostrophe
    <2>2. <<>> \in Texts /\ Quoted(<<>>) = <<Apostrophe, Apostrophe>>
        <3>1. <<>> \in Texts /\ Len(<<>>) = 0
            BY DEF Texts
        <3>2. PICK body : /\ JoinsParts(body, <<Apostrophe>>, Parts(<<>>), Len(<<>>))
                          /\ Quoted(<<>>) = Append(body[Len(<<>>)], Apostrophe)
            BY <3>1, QuotedJoins
        <3>3. body[0] = <<Apostrophe>>
            BY <3>1, <3>2 DEF JoinsParts
        <3>4. Append(<<Apostrophe>>, Apostrophe) = <<Apostrophe, Apostrophe>>
            <4>1. Apostrophe \in Characters
                BY Zenon DEF Apostrophe, Characters
            <4> HIDE DEF Apostrophe, Characters
            <4>2. /\ <<Apostrophe>> \in Seq(Characters) /\ <<Apostrophe, Apostrophe>> \in Seq(Characters)
                  /\ Len(<<Apostrophe>>) = 1 /\ Len(<<Apostrophe, Apostrophe>>) = 2
                BY <4>1
            <4>3. /\ Append(<<Apostrophe>>, Apostrophe) \in Seq(Characters)
                  /\ Len(Append(<<Apostrophe>>, Apostrophe)) = 2
                  /\ Append(<<Apostrophe>>, Apostrophe)[1] = Apostrophe /\ Append(<<Apostrophe>>, Apostrophe)[2] = Apostrophe
                BY <4>1, <4>2, AppendProperties
            <4>4. <<Apostrophe, Apostrophe>>[1] = Apostrophe /\ <<Apostrophe, Apostrophe>>[2] = Apostrophe
                OBVIOUS
            <4> DEFINE a == Append(<<Apostrophe>>, Apostrophe)
                       b == <<Apostrophe, Apostrophe>>
            <4> HIDE DEF a, b
            <4>5. /\ a \in Seq(Characters) /\ b \in Seq(Characters) /\ Len(a) = 2 /\ Len(b) = 2
                  /\ a[1] = b[1] /\ a[2] = b[2]
                BY <4>2, <4>3, <4>4 DEF a, b
            <4>6. \A i \in 1..Len(a) : a[i] = b[i]
                BY <4>5
            <4>7. QED
                BY <4>5, <4>6, SeqEqual DEF a, b
        <3>5. QED
            BY <3>1, <3>2, <3>3, <3>4
    <2>3. <<Apostrophe, Apostrophe>> \in Texts /\ ReadAs(<<Apostrophe, Apostrophe>>) = {<<>>}
        BY <2>2, QuotedEncodes, QuotedIsRead
    <2>4. ~ (Trimmed \in Keywords \/ IsNumber(Trimmed))
        <3>1. <<>> \notin Keywords
            BY DEF Keywords
        <3>2. Unsigned(<<>>) = <<>>
            BY Zenon DEF Unsigned
        <3>3. \A i : i \notin DOMAIN <<>>
            OBVIOUS
        <3>4. ~ IsNumber(<<>>)
            BY <3>2, <3>3, Zenon DEF IsNumber
        <3>5. QED
            BY <2>1, <3>1, <3>4
    <2> HIDE DEF Apostrophe
    <2>5. Means(<<Apostrophe, Apostrophe>>)
        BY <2>1, <2>3, <2>4, Zenon DEF Means
    <2>6. QED
        BY <2>1, <2>3, <2>5, LiteralFinishKeeps
<1>4. CASE WriteKeyword
    <2>1. Trimmed \in Keywords /\ Finish(Trimmed) /\ Trimmed # <<>>
        BY <1>4 DEF WriteKeyword, Keywords
    <2>2. Means(Trimmed)
        BY <2>1, Zenon DEF Means
    <2>3. QED
        BY <1>2, <2>1, <2>2, LiteralFinishKeeps
<1>5. CASE CheckNumber
    <2>1. /\ literal' \in LiteralType /\ literal'.pc = "number" /\ literal'.index = literal.index
          /\ literal'.text = literal.text /\ literal.pc = "start"
        BY <1>1, <1>5 DEF CheckNumber, LiteralType, AtPlace
    <2>2. literal.index = 1
        BY <2>1 DEF LiteralInv, NumberSoFar, AtPlace
    <2>3. Trimmed' = Trimmed /\ Trimmed \notin Keywords \cup {<<>>}
        BY <1>5, <2>1 DEF Trimmed, CheckNumber
    <2>4. NumberSoFar' /\ DefaultsKeepTheirMeaning'
        BY <2>1, <2>2, <2>3 DEF NumberSoFar, AtPlace, DefaultsKeepTheirMeaning
    <2>5. QED
        BY <2>1, <2>4 DEF LiteralInv
<1>6. CASE PassCharacter
    <2>1. /\ literal' \in LiteralType /\ literal'.pc = "number" /\ literal'.text = literal.text
          /\ literal'.index = literal.index + 1 /\ literal.pc = "number"
        BY <1>1, <1>6 DEF PassCharacter, LiteralType, AtPlace
    <2>2. Trimmed' = Trimmed
        BY <2>1 DEF Trimmed
    <2>3. /\ Trimmed \notin Keywords \cup {<<>>}
          /\ \A k \in 1..Len(Trimmed) : k < literal.index => InNumber(Trimmed[k], k)
        BY <2>1 DEF LiteralInv, NumberSoFar, AtPlace
    <2>4. InNumber(Trimmed[literal.index], literal.index)
        BY <1>6 DEF PassCharacter, Character
    <2>5. \A k \in 1..Len(Trimmed) : k < literal'.index => InNumber(Trimmed[k], k)
        <3> TAKE k \in 1..Len(Trimmed)
        <3> HAVE k < literal'.index
        <3>1. k < literal.index \/ k = literal.index
            BY <1>1, <1>2, <2>1
        <3>2. QED
            BY <2>3, <2>4, <3>1
    <2>6. NumberSoFar' /\ DefaultsKeepTheirMeaning'
        BY <2>1, <2>2, <2>3, <2>5 DEF NumberSoFar, AtPlace, DefaultsKeepTheirMeaning
    <2>7. QED
        BY <2>1, <2>6 DEF LiteralInv
<1>7. CASE WriteText
    <2>1. /\ literal.index \in 1..Len(Trimmed) /\ ~ InNumber(Trimmed[literal.index], literal.index)
          /\ Finish(Quoted(literal.text)) /\ AtPlace("number")
        BY <1>1, <1>2, <1>7 DEF WriteText, Character
    <2>2. ~ Among(Unsigned(Trimmed), {".", "0"})
        BY <1>2, <2>1, NumberIsAmongDigits, Zenon
    <2>3. ~ IsNumber(Trimmed)
        BY <2>2, Zenon DEF IsNumber
    <2>4. Trimmed \notin Keywords \cup {<<>>}
        BY <2>1 DEF LiteralInv, NumberSoFar
    <2>5. Quoted(literal.text) \in Texts /\ ReadAs(Quoted(literal.text)) = {literal.text}
        BY <1>1, QuotedEncodes, QuotedIsRead
    <2>6. Trimmed # <<>> /\ Trimmed \notin Keywords
        BY <2>4
    <2>7. Means(Quoted(literal.text))
        BY <2>3, <2>5, <2>6, Zenon DEF Means
    <2>8. QED
        BY <2>1, <2>5, <2>7, LiteralFinishKeeps
<1>8. CASE WriteNumber
    <2>1. AtPlace("number") /\ literal.index > Len(Trimmed) /\ Finish(Trimmed)
        BY <1>8 DEF WriteNumber
    <2>2. /\ Trimmed \notin Keywords \cup {<<>>}
          /\ \A k \in 1..Len(Trimmed) : k < literal.index => InNumber(Trimmed[k], k)
        BY <2>1 DEF LiteralInv, NumberSoFar
    <2>3. \A k \in 1..Len(Trimmed) : InNumber(Trimmed[k], k)
        BY <1>1, <1>2, <2>1, <2>2
    <2>4. Among(Unsigned(Trimmed), {".", "0"})
        BY <1>2, <2>3, NumberIsAmongDigits, Zenon
    <2>5. IsNumber(Trimmed) \/ IsRefused(Trimmed)
        BY <2>4, Zenon DEF IsRefused
    <2>6. Trimmed # <<>> /\ Trimmed \notin Keywords
        BY <2>2
    <2>7. Means(Trimmed)
        BY <2>5, <2>6, Zenon DEF Means
    <2>8. QED
        BY <1>2, <2>1, <2>7, LiteralFinishKeeps
<1>9. CASE UNCHANGED literal
    <2>1. literal' = literal /\ Trimmed' = Trimmed
        BY <1>9 DEF Trimmed
    <2>2. QED
        BY <2>1 DEF LiteralInv, NumberSoFar, AtPlace, DefaultsKeepTheirMeaning
<1>10. QED
    BY <1>3, <1>4, <1>5, <1>6, <1>7, <1>8, <1>9 DEF LiteralNext

\* Whatever the text of a default, postgresDefault writes what it means.
THEOREM DefaultsMean == LiteralSpec => []DefaultsKeepTheirMeaning
<1>1. LiteralInit => LiteralInv
    <2> SUFFICES ASSUME LiteralInit PROVE LiteralInv
        OBVIOUS
    <2>1. literal \in LiteralType /\ literal.pc = "start" /\ literal.index = 1
        BY DefaultsAssumption DEF LiteralInit, LiteralType, Texts
    <2>2. QED
        BY <2>1 DEF LiteralInv, NumberSoFar, AtPlace, DefaultsKeepTheirMeaning
<1>2. LiteralInv => DefaultsKeepTheirMeaning
    BY DEF LiteralInv
<1>3. QED
    BY <1>1, <1>2, LiteralNextInv, PTL DEF LiteralSpec
=============================================================================
