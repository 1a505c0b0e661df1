-------------------------- MODULE StatementScanner --------------------------
(***************************************************************************)
(* validateStatement, one step for each turn of its loop, and ReturnsRows. *)
(* A statement is a sequence of symbols: a character that means something  *)
(* to the scanner, or a word.  Words that touch are one longer word; "x"   *)
(* is any word without a meaning, "=" any sign.  Of white space, which is  *)
(* what unicode.IsSpace takes for it, " " is a blank or tab, "cr" a        *)
(* carriage return and "ff" any other but "\n".  "sq", "dq" and "bq" are   *)
(* quotes, single, double and back, and "TEMP" is TEMPORARY as well.       *)
(***************************************************************************)
EXTENDS Naturals, Sequences, FiniteSets

CONSTANT Statements  \* bound: the statements to scan

RowWords == {"SELECT"}      \* SHOW, EXPLAIN, WITH, VALUES and TABLE are as SELECT
WriteWords == {"INSERT"}    \* UPDATE, DELETE and MERGE are as INSERT
Words == RowWords \cup WriteWords \cup
         {"x", "RETURNING", "CREATE", "TRIGGER", "TEMP", "OR", "REPLACE", "CONSTRAINT", "IF", "NOT",
          "EXISTS"}
LineEnds == {"\n", "cr"}
Spaces == LineEnds \cup {" ", "ff"}
Quotes == {"sq", "dq", "bq"}
Symbols == Words \cup Spaces \cup Quotes \cup {"[", "]", ";", "-", "/", "*", "(", "="}

ASSUME ScannerAssumption == Statements \subseteq Seq(Symbols)

VARIABLE scan
(***************************************************************************)
(* scan.index    the next symbol                                           *)
(* scan.state    "normal", or what the scan is inside of: a quote is named *)
(*               by its sign, comments are "--" and "/*"                   *)
(* scan.token    the symbols of a word under way                           *)
(* scan.trigger  how far the words lead towards CREATE TRIGGER             *)
(***************************************************************************)
ScanInit ==
    \E statement \in Statements :
        scan = [statement |-> statement, index |-> 1, state |-> "normal", seenToken |-> FALSE,
                trailingSemicolon |-> FALSE, trigger |-> "before", token |-> <<>>,
                answer |-> "none"]

Scanning == scan.answer = "none" /\ scan.index <= Len(scan.statement)
Current == scan.statement[scan.index]

\* Two symbols of a statement from the i-th on; "" beyond its end.
PairAt(statement, i) ==
    <<statement[i], IF i < Len(statement) THEN statement[i + 1] ELSE "">>
Pair == PairAt(scan.statement, scan.index)

Refused(answer) == [scan EXCEPT !.answer = answer]

(***************************************************************************)
(* consumeToken                                                            *)
(***************************************************************************)
\* Mutant: CREATE OR REPLACE leads nowhere.
FollowNoReplace(trigger, word) ==
    CASE trigger = "before" -> IF word = "CREATE" THEN "create" ELSE "before"
      [] trigger = "create" -> IF word = "TRIGGER" THEN "trigger" ELSE "other"
      [] OTHER -> trigger

Follow(trigger, word) ==
    LET Only(expected, then) == IF word = expected THEN then ELSE "other"
    IN  CASE trigger = "before" -> IF word = "CREATE" THEN "create" ELSE "before"
          [] trigger = "create" -> CASE word = "TRIGGER" -> "trigger"
                                     [] word = "TEMP" -> "temp"
                                     [] word = "OR" -> "or"
                                     [] word = "IF" -> "if"
                                     [] OTHER -> "other"
          [] trigger = "temp" -> Only("TRIGGER", "trigger")
          [] trigger = "or" -> Only("REPLACE", "create")
          [] trigger = "if" -> Only("NOT", "not")
          [] trigger = "not" -> Only("EXISTS", "create")
          [] OTHER -> "other"

Consumed ==
    IF scan.token = <<>> THEN scan.trigger
    ELSE Follow(scan.trigger, IF Len(scan.token) = 1 THEN scan.token[1] ELSE "x")

\* The word under way ends here, and the scan goes on as `new' says.
Consume(new) ==
    scan' = IF Consumed = "trigger" THEN Refused("trigger")
            ELSE [new EXCEPT !.token = <<>>, !.trigger = Consumed]

(***************************************************************************)
(* Inside comments and quotes                                              *)
(***************************************************************************)
Inside(state) == Scanning /\ scan.state = state
Leave(length) == scan' = [scan EXCEPT !.state = "normal", !.index = @ + length]
Stay(length) == scan' = [scan EXCEPT !.index = @ + length]

InLineComment == Inside("--") /\ IF Current \in LineEnds THEN Leave(1) ELSE Stay(1)

InBlockComment == Inside("/*") /\ IF Pair = <<"*", "/">> THEN Leave(2) ELSE Stay(1)

InQuote ==
    \E quote \in Quotes :
        /\ Inside(quote)
        /\ IF Current # quote THEN Stay(1) ELSE IF Pair[2] = quote THEN Stay(2) ELSE Leave(1)

InBracket == Inside("[") /\ IF Current = "]" THEN Leave(1) ELSE Stay(1)

(***************************************************************************)
(* Outside of them                                                         *)
(***************************************************************************)
Normal == Inside("normal")
Enter(state, length) == [scan EXCEPT !.state = state, !.index = @ + length]

Space == Normal /\ Current \in Spaces /\ Consume(Enter("normal", 1))

\* Mutant: the second sign of an opened comment is looked at again.
OpeningHalf == 1

Opening == 2

Comment ==
    /\ Normal /\ Pair \in {<<"-", "-">>, <<"/", "*">>}
    /\ Consume(Enter(IF Current = "-" THEN "--" ELSE "/*", Opening))

Semicolon ==
    /\ Normal /\ Current = ";"
    /\ Consume(IF ~ scan.seenToken \/ scan.trailingSemicolon THEN Refused("several")
               ELSE [Enter("normal", 1) EXCEPT !.trailingSemicolon = TRUE])

\* What is left belongs to the statement, of which there is one.
Token == Normal /\ Current \notin Spaces \cup {";"} /\ Pair \notin {<<"-", "-">>, <<"/", "*">>}

RefuseSecond == Token /\ scan.trailingSemicolon /\ scan' = Refused("several")

Seen(state) == [Enter(state, 1) EXCEPT !.seenToken = TRUE]

Quote ==
    /\ Token /\ ~ scan.trailingSemicolon /\ Current \in Quotes \cup {"["}
    /\ Consume(Seen(Current))

Word ==
    /\ Token /\ ~ scan.trailingSemicolon /\ Current \in Words
    /\ scan' = [Seen("normal") EXCEPT !.token = Append(@, Current)]

Sign ==
    /\ Token /\ ~ scan.trailingSemicolon /\ Current \notin Words \cup Quotes \cup {"["}
    /\ Consume(Seen("normal"))

FinishScan ==
    /\ scan.answer = "none" /\ ~ Scanning
    /\ Consume(Refused(IF scan.seenToken THEN "ok" ELSE "empty"))

ScanNext ==
    \/ InLineComment \/ InBlockComment \/ InQuote \/ InBracket
    \/ Space \/ Comment \/ Semicolon \/ RefuseSecond \/ Quote \/ Word \/ Sign
    \/ FinishScan

ScanSpec == ScanInit /\ [][ScanNext]_scan /\ WF_scan(ScanNext)

(***************************************************************************)
(* ReturnsRows: which call Execute makes for a statement                   *)
(***************************************************************************)
FirstOf(positions, default) ==
    IF positions = {} THEN default ELSE CHOOSE p \in positions : \A q \in positions : p <= q

\* The first place from i on that holds no symbol of a set.
Past(statement, i, symbols) ==
    FirstOf({j \in i..Len(statement) : statement[j] \notin symbols}, Len(statement) + 1)

\* Mutant: comments are not passed over.
KeywordAtUncommented(s) == Past(s, Past(s, 1, {"("}), Spaces)

\* Where parentheses, then spaces, then comments leave off, over and over; one
\* beyond the end if there is nothing more.
KeywordAt(s) ==
    LET n == Len(s)
        at[i \in 1..(n + 1)] ==
            LET p == Past(s, Past(s, i, {"("}), Spaces)
                lines == {j \in p..n : s[j] = "\n"}
                closings == {j \in (p + 2)..(n - 1) : PairAt(s, j) = <<"*", "/">>}
            IN  CASE p <= n /\ PairAt(s, p) = <<"-", "-">> ->
                       IF lines = {} THEN n + 1 ELSE at[FirstOf(lines, n) + 1]
                  [] p <= n /\ PairAt(s, p) = <<"/", "*">> ->
                       IF closings = {} THEN n + 1 ELSE at[FirstOf(closings, n) + 2]
                  [] OTHER -> p
    IN  at[1]

\* The keyword ends before the j-th symbol: there is one to end it, or nothing
\* but the white space that TrimSpace leaves off.
EndsKeyword(s, j) ==
    (\A i \in j..Len(s) : s[i] \in Spaces) \/ s[j] \in {" ", "\n", "cr", "("}

ReturnsRows(s) ==
    LET from == KeywordAt(s)
        to == FirstOf({j \in from..Len(s) : EndsKeyword(s, j)}, Len(s) + 1)
        Keyword(words) == to = from + 1 /\ s[from] \in words
    IN  \/ Keyword(RowWords)
        \/ Keyword(WriteWords) /\ \E j \in from..Len(s) : s[j] = "RETURNING"

(***************************************************************************)
(* What statements are: a text is cut into pieces, each a comment, a       *)
(* quotation or a symbol.  A doubled quote ends one quotation and begins   *)
(* another, which comes to the same.                                       *)
(***************************************************************************)
PieceEnd(s, i) ==
    LET n == Len(s)
        closing == IF s[i] = "[" THEN "]" ELSE s[i]
    IN  CASE PairAt(s, i) = <<"-", "-">> -> FirstOf({j \in (i + 2)..n : s[j] \in LineEnds}, n)
          [] PairAt(s, i) = <<"/", "*">> ->
                FirstOf({j \in (i + 3)..n : s[j - 1] = "*" /\ s[j] = "/"}, n)
          [] s[i] \in Quotes \cup {"["} -> FirstOf({j \in (i + 1)..n : s[j] = closing}, n)
          [] OTHER -> i

\* Where the pieces begin.
Pieces(s) ==
    LET from[i \in 1..(Len(s) + 1)] ==
            IF i > Len(s) THEN {} ELSE {i} \cup from[PieceEnd(s, i) + 1]
    IN  from[1]

Semicolons(s) == {i \in Pieces(s) : s[i] = ";"}

Tokens(s) ==
    {i \in Pieces(s) : s[i] \notin Spaces \cup {";"}
                       /\ PairAt(s, i) \notin {<<"-", "-">>, <<"/", "*">>}}

OneStatement(s) ==
    /\ Tokens(s) # {} /\ Cardinality(Semicolons(s)) <= 1
    /\ \A i \in Tokens(s), j \in Semicolons(s) : i < j

\* The words of a statement in their order.
WordsOf(s) ==
    LET pieces == Pieces(s)
        IsWord(i) == i \in pieces /\ s[i] \in Words
        words[i \in 0..Len(s)] ==
            IF i = 0 THEN <<>>
            ELSE IF IsWord(i) /\ ~ IsWord(i - 1)
                 THEN Append(words[i - 1], IF IsWord(i + 1) THEN "x" ELSE s[i])
                 ELSE words[i - 1]
    IN  words[Len(s)]

\* What may stand between CREATE and TRIGGER, over and over: PostgreSQL's OR REPLACE
\* and CONSTRAINT, other dialects' IF NOT EXISTS and, last, TEMP.
Options == {<<"OR", "REPLACE">>, <<"CONSTRAINT">>, <<"IF", "NOT", "EXISTS">>}

\* The j-th word is of an option that stands whole behind the k-th and before the m-th.
OfOption(words, k, m, j) ==
    \E option \in Options : \E from \in (k + 1)..j :
        /\ j < from + Len(option) /\ from + Len(option) <= m
        /\ \A d \in DOMAIN option : words[from + d - 1] = option[d]

\* The k-th word is CREATE, and the m-th makes it a CREATE TRIGGER.
Completes(words, k, m) ==
    /\ k < m /\ words[k] = "CREATE" /\ words[m] = "TRIGGER"
    /\ \A j \in (k + 1)..(m - 1) :
          OfOption(words, k, m, j) \/ (j = m - 1 /\ words[j] = "TEMP")

\* What consumeToken does not look for: CONSTRAINT, and a second CREATE, as of a
\* trigger that is created within CREATE SCHEMA.
Overlooked(words, k, m) ==
    \/ \E j \in (k + 1)..(m - 1) : words[j] = "CONSTRAINT"
    \/ \E j \in 1..(k - 1) : words[j] = "CREATE"

\* How PostgreSQL's statements for triggers begin.
TriggerHeads ==
    { <<"CREATE", "TRIGGER">>, <<"CREATE", "OR", "REPLACE", "TRIGGER">>,
      <<"CREATE", "CONSTRAINT", "TRIGGER">>, <<"CREATE", "OR", "REPLACE", "CONSTRAINT", "TRIGGER">> }

(***************************************************************************)
(* Properties                                                              *)
(***************************************************************************)
\* What is taken for one statement is one, and what is refused as several or
\* empty is that, whatever quotes and comments the semicolons stand in.
OneStatementPasses ==
    LET s == scan.statement IN
    /\ scan.answer = "ok" => OneStatement(s)
    /\ scan.answer = "several" => Semicolons(s) # {} /\ ~ OneStatement(s)
    /\ scan.answer = "empty" => Tokens(s) = {} /\ Semicolons(s) = {}

\* CREATE TRIGGER is refused with the words that may stand in between, however
\* they are separated, and nothing else is; but for CONSTRAINT, and for what
\* follows another CREATE, which pass.
TriggersAreRefused ==
    LET words == WordsOf(scan.statement) IN
    /\ scan.answer = "trigger" =>
          \E k, m \in DOMAIN words : Completes(words, k, m) /\ ~ Overlooked(words, k, m)
    /\ scan.answer = "ok" =>
          \A k, m \in DOMAIN words : Completes(words, k, m) => Overlooked(words, k, m)

\* What contracts.go:201 answers, that trigger statements are not supported, would
\* have no statement pass that begins as PostgreSQL's do.
TriggersAreUnsupported ==
    LET words == WordsOf(scan.statement) IN
    scan.answer = "ok" => \A head \in TriggerHeads :
        Len(head) <= Len(words) => SubSeq(words, 1, Len(head)) # head

\* Execute fetches rows exactly for SELECT and its like, and for INSERT and its
\* like with RETURNING, if a blank, tab, line end, parenthesis or the end of the
\* text ends the first word, no parenthesis before it follows a space, no line
\* comment before it ends at a carriage return alone, and RETURNING is nowhere
\* but a word of its own.
RowsAreFetched ==
    LET s == scan.statement
        first == FirstOf({i \in Tokens(s) : s[i] # "("}, 0)
        words == WordsOf(s)
        plain == /\ first > 0 /\ s[first] \in Words /\ EndsKeyword(s, first + 1)
                 /\ \A i \in 2..first : s[i] = "(" => s[i - 1] \notin Spaces
                 /\ \A i \in Pieces(s) :
                       i < first /\ PairAt(s, i) = <<"-", "-">> /\ s[PieceEnd(s, i)] = "cr" =>
                           s[PieceEnd(s, i) + 1] = "\n"
                 /\ \A i \in DOMAIN s : s[i] = "RETURNING" =>
                       i \in Pieces(s) /\ \A j \in {i - 1, i + 1} \cap Pieces(s) : s[j] \notin Words
    IN  scan.answer = "ok" /\ plain =>
            (ReturnsRows(s) <=>
                \/ words[1] \in RowWords
                \/ words[1] \in WriteWords /\ \E k \in DOMAIN words : words[k] = "RETURNING")

\* Every statement is judged, open quotes and comments at its end included.
ScanEnds == <>(scan.answer # "none")
=============================================================================
