------------------------------ MODULE Defaults ------------------------------
(***************************************************************************)
(* postgresDefault, one step for each turn of the loop of numericDefault:  *)
(* what the text of a column's default becomes in a statement.  A text is  *)
(* a sequence of characters: " " is white space, "sq" a single quote, "0"  *)
(* any digit, "a" any other character, and a word with a meaning of its    *)
(* own is one symbol.  "NULL" is CURRENT_DATE, _TIME and _TIMESTAMP too,   *)
(* in capitals or not.                                                     *)
(***************************************************************************)
EXTENDS Naturals, Sequences

CONSTANT DefaultTexts  \* bound: the texts given as defaults

Characters == {" ", "sq", "+", "-", ".", "0", "a", "NULL"}
Keywords == {<<"NULL">>}
Signs == {"+", "-"}

ASSUME DefaultsAssumption == DefaultTexts \subseteq Seq(Characters)

VARIABLE literal
(***************************************************************************)
(* literal.index  the next character of the trimmed text                   *)
(* literal.sql    what is written into the statement                       *)
(***************************************************************************)
Trim(text) ==
    LET kept == {i \in DOMAIN text : text[i] # " "}
    IN  IF kept = {} THEN <<>>
        ELSE SubSeq(text, CHOOSE i \in kept : \A j \in kept : i <= j,
                          CHOOSE i \in kept : \A j \in kept : i >= j)

LiteralInit ==
    \E text \in DefaultTexts :
        literal = [pc |-> "start", text |-> text, index |-> 1, sql |-> <<>>]

AtPlace(pc) == literal.pc = pc
Trimmed == Trim(literal.text)
Character == Trimmed[literal.index]
Finish(sql) == literal' = [literal EXCEPT !.pc = "done", !.sql = sql]

\* The text in quotes, those within it doubled.
Quoted(text) ==
    LET body[k \in 0..Len(text)] ==
            IF k = 0 THEN <<"sq">>
            ELSE body[k - 1] \o (IF text[k] = "sq" THEN <<"sq", "sq">> ELSE <<text[k]>>)
    IN  Append(body[Len(text)], "sq")

WriteBlank == AtPlace("start") /\ Trimmed = <<>> /\ Finish(<<"sq", "sq">>)

WriteKeyword == AtPlace("start") /\ Trimmed \in Keywords /\ Finish(Trimmed)

CheckNumber ==
    /\ AtPlace("start") /\ Trimmed \notin Keywords \cup {<<>>}
    /\ literal' = [literal EXCEPT !.pc = "number"]

\* Mutant: a sign may stand anywhere.
InNumberAnywhere(char, index) == char \in Signs \cup {".", "0"}

InNumber(char, index) == (char \in Signs /\ index = 1) \/ char \in {".", "0"}

PassCharacter ==
    /\ AtPlace("number") /\ literal.index <= Len(Trimmed)
    /\ InNumber(Character, literal.index)
    /\ literal' = [literal EXCEPT !.index = @ + 1]

\* The text is quoted as it was given, with its spaces.
WriteText ==
    /\ AtPlace("number") /\ literal.index <= Len(Trimmed)
    /\ ~ InNumber(Character, literal.index)
    /\ Finish(Quoted(literal.text))

WriteNumber == AtPlace("number") /\ literal.index > Len(Trimmed) /\ Finish(Trimmed)

LiteralNext ==
    WriteBlank \/ WriteKeyword \/ CheckNumber \/ PassCharacter \/ WriteText \/ WriteNumber

LiteralSpec == LiteralInit /\ [][LiteralNext]_literal

(***************************************************************************)
(* PostgreSQL: what a statement says where its default stands              *)
(***************************************************************************)
Unsigned(sql) == IF sql # <<>> /\ sql[1] \in Signs THEN Tail(sql) ELSE sql

Among(sql, chars) == \A i \in DOMAIN sql : sql[i] \in chars

IsNumber(sql) ==
    LET digits == Unsigned(sql) IN
    /\ Among(digits, {".", "0"}) /\ \E i \in DOMAIN digits : digits[i] = "0"
    /\ \A i, j \in DOMAIN digits : digits[i] = "." /\ digits[j] = "." => i = j

\* A sign, dots and digits that make no number are an error of syntax.
IsRefused(sql) == Among(Unsigned(sql), {".", "0"}) /\ ~ IsNumber(sql)

\* The texts that a quoted literal is read as: one or, if its quotes are not
\* right, none.
ReadAs(sql) ==
    LET n == Len(sql)
        Then(char, texts) == {<<char>> \o text : text \in texts}
        from[i \in 1..(n + 2)] ==
            IF i > n THEN {}
            ELSE IF sql[i] # "sq" THEN Then(sql[i], from[i + 1])
            ELSE IF i = n THEN {<<>>}
            ELSE IF sql[i + 1] = "sq" THEN Then("sq", from[i + 2])
            ELSE {}
    IN  IF n > 1 /\ sql[1] = "sq" THEN from[2] ELSE {}

(***************************************************************************)
(* Properties                                                              *)
(***************************************************************************)
\* A default means in the statement what its text is: nothing for blanks, a
\* keyword, a number, or else the text itself, letter by letter.  What looks like
\* a number and is none is refused by PostgreSQL; no text becomes an expression.
DefaultsKeepTheirMeaning ==
    LET sql == literal.sql IN
    AtPlace("done") =>
        CASE Trimmed = <<>> -> ReadAs(sql) = {<<>>}
          [] Trimmed \in Keywords \/ IsNumber(Trimmed) -> sql = Trimmed
          [] OTHER -> \/ ReadAs(sql) = {literal.text}
                      \/ IsRefused(sql) /\ IsRefused(Trimmed)
=============================================================================
