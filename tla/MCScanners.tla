----------------------------- MODULE MCScanners -----------------------------
(* The scanners of the driver side by side: each behaviour displays one text,  *)
(* judges one statement or writes one default, and leaves the other scanners   *)
(* as they end on an empty text.                                               *)
EXTENDS Display, StatementScanner, Defaults

Lines(alphabet, n) == UNION {[1..k -> alphabet] : k \in 0..n}

\* Every text of up to three bytes, and longer ones out of whole and broken
\* escape sequences.
Fragments ==
    { <<"ESC", "[", "1", "a">>, <<"ESC", "[", "1">>, <<"ESC", "]", "a", "BEL">>,
      <<"ESC", "]", "1", "ESC", "\\">>, <<"ESC", "]", "ESC">>, <<"ESC">>, <<"ESC", "C3">>,
      <<"80", "\n">>, <<"C3", "80", " ">>, <<"a", "\n">>, <<"C2", "80">>, <<"a">> }

MCShown == Lines(Bytes, 3) \cup {x \o y \o z : x, y, z \in Fragments}

MCLimits == {0, 1, 3}

\* Every statement of up to three symbols, and longer ones out of phrases.
Phrases ==
    { <<"SELECT", " ", "x">>, <<"INSERT">>, <<" ", "RETURNING", "\n">>, <<"CREATE", " ">>,
      <<"OR", " ", "REPLACE", " ">>, <<"IF", "/", "*", "*", "/", "NOT", " ", "EXISTS", " ">>,
      <<"TEMP", "\n">>, <<"TRIGGER">>, <<" ">>, <<"sq", ";", "sq", "sq">>, <<"sq">>, <<"-", "-", "sq">>,
      <<"\n">>, <<"/", "*">>, <<"*", "/">>, <<"/">>, <<"dq">>, <<";">>, <<"(">>, <<"bq">>,
      <<"[">>, <<"]">>,
      <<"CONSTRAINT", " ">>, <<"-", "-", "x", "cr">>, <<"cr", "\n">>, <<"ff">> }

\* Further words and separators between CREATE and TRIGGER.
Leading ==
    { <<"OR", " ", "REPLACE", " ">>, <<"IF", "/", "*", "*", "/", "NOT", " ", "EXISTS", " ">>,
      <<"TEMP", "\n">>, <<"TRIGGER">>, <<"x", " ">>, <<"-", "-", "x", "\n">>, <<"OR", "TRIGGER">>,
      <<"CONSTRAINT", "ff">>, <<"CREATE", " ">> }

MCStatements ==
    Lines(Symbols, 3) \cup {x \o y \o z : x, y, z \in Phrases}
    \cup {<<"CREATE", " ">> \o x \o y \o z \o <<"TRIGGER">> : x, y, z \in Leading}

\* Every default of up to four characters.
MCDefaultTexts == Lines(Characters, 4)

\* A scanner that is not at work has done with an empty text.
Displayless == [pc |-> "done", text |-> <<>>, limit |-> 0, index |-> 1, out |-> <<>>,
                lastWasSpace |-> FALSE, truncated |-> FALSE]
Scanless == [statement |-> <<>>, index |-> 1, state |-> "normal", seenToken |-> FALSE,
             trailingSemicolon |-> FALSE, trigger |-> "before", token |-> <<>>,
             answer |-> "empty"]
Literalless == [pc |-> "done", text |-> <<>>, index |-> 1, sql |-> <<"sq", "sq">>]

vars == <<display, scan, literal>>

Init == \/ DisplayInit /\ scan = Scanless /\ literal = Literalless
        \/ ScanInit /\ display = Displayless /\ literal = Literalless
        \/ LiteralInit /\ display = Displayless /\ scan = Scanless

Next == \/ DisplayNext /\ UNCHANGED <<scan, literal>>
        \/ ScanNext /\ UNCHANGED <<display, literal>>
        \/ LiteralNext /\ UNCHANGED <<display, scan>>

\* Each scanner is a loop in one goroutine, which goes on.
Spec == Init /\ [][Next]_vars /\ WF_vars(Next)

\* Every text is displayed and every statement judged, open sequences, quotes
\* and comments at the end included (sanitizeDisplay, validateStatement).
ScannersEnd == DisplayEnds /\ ScanEnds
=============================================================================
