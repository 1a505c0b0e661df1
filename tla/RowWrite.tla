------------------------------ MODULE RowWrite ------------------------------
(***************************************************************************)
(* Writing rows: InsertRow, UpdateRow and DeleteRow, as RowWrite calls     *)
(* them, and what PostgreSQL makes of the statements.                      *)
(*                                                                         *)
(* A statement's text and its arguments travel apart: the text has only    *)
(* placeholders $1, $2, ..., numbered while it is put together, and the    *)
(* server binds the arguments to them by number.  Each row of a request's  *)
(* lists is a step here, so the numbering can be watched as it grows.      *)
(***************************************************************************)
EXTENDS Naturals, Sequences

CONSTANTS
    Columns,    \* the columns of the table
    Strings,    \* the values a column can have, other than NULL
    NULL,       \* driver.ValueNull, and SQL's null
    DEFAULT,    \* driver.ValueDefault
    TYPED,      \* a value of any other kind
    Defaults,   \* what a column gets when an INSERT leaves it out
    RowIds,     \* bound: the rows the table can have at a time
    InitialTable,
    None,       \* nothing yet
    Calls,      \* the calls of the plugin, each made once
    Requests    \* what they may ask for

Content == [Columns -> Strings \cup {NULL}]
Table == UNION {[ids -> Content] : ids \in SUBSET RowIds}

RowValue == [name : Columns, value : Strings \cup {NULL, DEFAULT, TYPED}]

Request ==
    [op : {"insert", "update", "delete", "replace"}, key : Seq(RowValue), values : Seq(RowValue)]

ASSUME RowWriteAssumption ==
    /\ Strings \cap {NULL, DEFAULT, TYPED} = {}
    /\ NULL # DEFAULT /\ NULL # TYPED /\ DEFAULT # TYPED
    /\ None \notin Request /\ None \notin {"ok", "validation", "failed", "lost"}
    /\ Defaults \in Content
    /\ InitialTable \in Table
    /\ Requests \subseteq Request

VARIABLES
    table,      \* the rows committed
    call,       \* the driver's goroutine handling a call
    wire,       \* what is under way on the call's connection
    applied     \* history: how many times a call's statement was carried out

vars == <<table, call, wire, applied>>

(***************************************************************************)
(* call[c].pc        "values" and "key" while a list is gone through,      *)
(*                   "send" before and "wait" after the statement is sent  *)
(* call[c].taken     how much of the list has been gone through            *)
(* call[c].columns   INSERT's columns                                      *)
(* call[c].sets      UPDATE's "column = $place" terms                      *)
(* call[c].where     the key's: place 0 is written IS NULL                 *)
(* call[c].offset    the last placeholder used in the key condition        *)
(***************************************************************************)
Term == [column : Columns, place : Nat]
Arg == Strings \cup {NULL}

Idle == [pc |-> "idle", request |-> None, taken |-> 0, columns |-> <<>>, sets |-> <<>>,
         args |-> <<>>, where |-> <<>>, whereArgs |-> <<>>, offset |-> 0, answer |-> None]

CallState ==
    [pc : {"idle", "values", "key", "send", "wait", "done"}, request : Request \cup {None},
     taken : Nat, columns : Seq(Columns), sets : Seq(Term), args : Seq(Arg),
     where : Seq(Term), whereArgs : Seq(Arg), offset : Nat,
     answer : {None, "ok", "validation", "failed", "lost"}]

TypeOK ==
    /\ table \in Table
    /\ call \in [Calls -> CallState]
    /\ wire \in [Calls -> {"idle", "running", "ran", "refused"}]
    /\ applied \in [Calls -> Nat]

Init ==
    /\ table = InitialTable
    /\ call = [c \in Calls |-> Idle]
    /\ wire = [c \in Calls |-> "idle"]
    /\ applied = [c \in Calls |-> 0]

At(c, pc) == call[c].pc = pc
Op(c) == call[c].request.op
Become(c, new) == call' = [call EXCEPT ![c] = new]
Answer(c, answer) == Become(c, [call[c] EXCEPT !.pc = "done", !.answer = answer])

\* The next row of a list that is not exhausted.
More(c, list) == call[c].taken < Len(list)
NextOf(c, list) == list[call[c].taken + 1]

(***************************************************************************)
(* The driver: going through the lists                                     *)
(***************************************************************************)
Receive(c, r) ==
    /\ At(c, "idle")
    /\ Become(c,
        CASE r.op \in {"insert", "update"} -> [Idle EXCEPT !.request = r, !.pc = "values"]
          [] r.op = "delete" -> [Idle EXCEPT !.request = r, !.pc = "key"]
          [] OTHER -> [Idle EXCEPT !.request = r, !.pc = "done", !.answer = "validation"])
    /\ UNCHANGED <<table, wire, applied>>

\* Mutant: DEFAULT can be bound too.
DefaultBindable(value) == value \in Arg \cup {DEFAULT}

\* rowWriteArg
Bindable(value) == value \in Arg

\* At the next of the request's values.
AtValue(c, op) == At(c, "values") /\ Op(c) = op /\ More(c, call[c].request.values)
NextValue(c) == NextOf(c, call[c].request.values)

\* Mutant: DEFAULT is bound as NULL.
DefaultAsNull(c) ==
    /\ AtValue(c, "insert") /\ NextValue(c).value = DEFAULT
    /\ Become(c, [call[c] EXCEPT !.taken = @ + 1,
                                 !.columns = Append(@, NextValue(c).name),
                                 !.args = Append(@, NULL)])
    /\ UNCHANGED <<table, wire, applied>>

SkipDefault(c) ==
    /\ AtValue(c, "insert") /\ NextValue(c).value = DEFAULT
    /\ Become(c, [call[c] EXCEPT !.taken = @ + 1])
    /\ UNCHANGED <<table, wire, applied>>

BindColumn(c) ==
    /\ AtValue(c, "insert") /\ Bindable(NextValue(c).value)
    /\ Become(c, [call[c] EXCEPT !.taken = @ + 1,
                                 !.columns = Append(@, NextValue(c).name),
                                 !.args = Append(@, NextValue(c).value)])
    /\ UNCHANGED <<table, wire, applied>>

SetColumn(c) ==
    /\ AtValue(c, "update") /\ Bindable(NextValue(c).value)
    /\ Become(c, [call[c] EXCEPT
            !.taken = @ + 1,
            !.sets = Append(@, [column |-> NextValue(c).name, place |-> Len(call[c].args) + 1]),
            !.args = Append(@, NextValue(c).value)])
    /\ UNCHANGED <<table, wire, applied>>

\* UPDATE has no DEFAULT either.
RejectValue(c) ==
    /\ \/ AtValue(c, "insert") /\ NextValue(c).value = TYPED
       \/ AtValue(c, "update") /\ ~ Bindable(NextValue(c).value)
    /\ Answer(c, "validation")
    /\ UNCHANGED <<table, wire, applied>>

\* Mutant: the key condition's placeholders start again at $1.
OffsetRestarted(c) == 0

Offset(c) == Len(call[c].args)

EndOfValues(c) ==
    /\ At(c, "values") /\ ~ More(c, call[c].request.values)
    /\ \/ Op(c) = "insert" /\ Become(c, [call[c] EXCEPT !.pc = "send"])
       \/ Op(c) = "update" /\ call[c].sets = <<>> /\ Answer(c, "ok")
       \/ /\ Op(c) = "update" /\ call[c].sets # <<>>
          /\ Become(c, [call[c] EXCEPT !.pc = "key", !.taken = 0, !.offset = Offset(c)])
    /\ UNCHANGED <<table, wire, applied>>

AtKey(c) == At(c, "key") /\ More(c, call[c].request.key)
NextKey(c) == NextOf(c, call[c].request.key)

\* Mutant: a NULL in the key is compared like any other value.
WithKeyNeverNull(cl, row) ==
    [cl EXCEPT !.taken = @ + 1, !.offset = @ + 1,
               !.where = Append(@, [column |-> row.name, place |-> cl.offset + 1]),
               !.whereArgs = Append(@, row.value)]

WithKey(cl, row) ==
    IF row.value = NULL
    THEN [cl EXCEPT !.taken = @ + 1, !.where = Append(@, [column |-> row.name, place |-> 0])]
    ELSE [cl EXCEPT !.taken = @ + 1, !.offset = @ + 1,
                    !.where = Append(@, [column |-> row.name, place |-> cl.offset + 1]),
                    !.whereArgs = Append(@, row.value)]

BindKey(c) ==
    /\ AtKey(c) /\ Bindable(NextKey(c).value)
    /\ Become(c, WithKey(call[c], NextKey(c)))
    /\ UNCHANGED <<table, wire, applied>>

RejectKey(c) ==
    /\ \/ At(c, "key") /\ call[c].request.key = <<>>
       \/ AtKey(c) /\ ~ Bindable(NextKey(c).value)
    /\ Answer(c, "validation")
    /\ UNCHANGED <<table, wire, applied>>

EndOfKey(c) ==
    /\ At(c, "key") /\ ~ More(c, call[c].request.key) /\ call[c].request.key # <<>>
    /\ Become(c, [call[c] EXCEPT !.pc = "send"])
    /\ UNCHANGED <<table, wire, applied>>

(***************************************************************************)
(* The driver: the statement and its answer                                *)
(***************************************************************************)
\* postgresInsertStatement numbers the placeholders in a loop of its own.
Placed(c) ==
    [k \in DOMAIN call[c].columns |-> [column |-> call[c].columns[k], place |-> k]]

Assigned(c) == IF Op(c) = "insert" THEN Placed(c) ELSE call[c].sets

\* Mutant: the key's arguments come first.
KeyArgumentsFirst(c) == call[c].whereArgs \o call[c].args

Arguments(c) == call[c].args \o call[c].whereArgs

Send(c) ==
    /\ At(c, "send")
    /\ Become(c, [call[c] EXCEPT !.pc = "wait"])
    /\ wire' = [wire EXCEPT ![c] = "running"]
    /\ UNCHANGED <<table, applied>>

ReceiveAnswer(c) ==
    /\ At(c, "wait") /\ wire[c] \in {"ran", "refused"}
    /\ Answer(c, IF wire[c] = "ran" THEN "ok" ELSE "failed")
    /\ wire' = [wire EXCEPT ![c] = "idle"]
    /\ UNCHANGED <<table, applied>>

\* Mutant: a lost answer is taken for a lost statement.
RetryLost(c) ==
    /\ At(c, "wait")
    /\ Become(c, [call[c] EXCEPT !.pc = "send"])
    /\ UNCHANGED <<table, wire, applied>>

\* The context ends or the connection breaks: before the statement went out,
\* or while its answer is awaited; then it may still be carried out.
GiveUp(c) ==
    /\ At(c, "send") \/ At(c, "wait")
    /\ Answer(c, "lost")
    /\ UNCHANGED <<table, wire, applied>>

(***************************************************************************)
(* PostgreSQL: statements on a connection of their own, one transaction    *)
(* each.                                                                   *)
(***************************************************************************)
Places(terms) == {terms[k].place : k \in DOMAIN terms} \ {0}

\* There is an argument for every placeholder and a placeholder for every
\* argument.
PlacesFit(c) == Places(Assigned(c)) \cup Places(call[c].where) = DOMAIN Arguments(c)

\* A column is assigned once at most.
AssignedOnce(c) ==
    \A j, k \in DOMAIN Assigned(c) : Assigned(c)[j].column = Assigned(c)[k].column => j = k

\* NULL is equal to nothing, not even NULL.
Holds(c, term, row) ==
    IF term.place = 0 THEN row[term.column] = NULL
    ELSE row[term.column] # NULL /\ row[term.column] = Arguments(c)[term.place]

Hit(c) ==
    {id \in DOMAIN table : \A k \in DOMAIN call[c].where : Holds(c, call[c].where[k], table[id])}

Written(c, row) ==
    [column \in Columns |->
        IF \E k \in DOMAIN Assigned(c) : Assigned(c)[k].column = column
        THEN Arguments(c)[Assigned(c)[CHOOSE k \in DOMAIN Assigned(c) :
                                        Assigned(c)[k].column = column].place]
        ELSE row[column]]

RunInsert(c) ==
    \E id \in RowIds \ DOMAIN table :
        table' = [i \in DOMAIN table \cup {id} |->
                    IF i = id THEN Written(c, Defaults) ELSE table[i]]

RunUpdate(c) ==
    table' = [i \in DOMAIN table |-> IF i \in Hit(c) THEN Written(c, table[i]) ELSE table[i]]

RunDelete(c) == table' = [i \in DOMAIN table \ Hit(c) |-> table[i]]

Run(c) ==
    /\ wire[c] = "running" /\ PlacesFit(c) /\ AssignedOnce(c)
    /\ CASE Op(c) = "insert" -> RunInsert(c)
         [] Op(c) = "update" -> RunUpdate(c)
         [] Op(c) = "delete" -> RunDelete(c)
    /\ wire' = [wire EXCEPT ![c] = "ran"]
    /\ applied' = [applied EXCEPT ![c] = @ + 1]
    /\ UNCHANGED call

\* A constraint, a type or a privilege is in the way, or the connection's end
\* is noticed first.
Refuse(c) ==
    /\ wire[c] = "running"
    /\ wire' = [wire EXCEPT ![c] = "refused"]
    /\ UNCHANGED <<table, call, applied>>

Next ==
    \E c \in Calls :
        \/ \E r \in Requests : Receive(c, r)
        \/ SkipDefault(c) \/ BindColumn(c) \/ SetColumn(c) \/ RejectValue(c) \/ EndOfValues(c)
        \/ BindKey(c) \/ RejectKey(c) \/ EndOfKey(c)
        \/ Send(c) \/ ReceiveAnswer(c) \/ GiveUp(c)
        \/ Run(c) \/ Refuse(c)

Spec == Init /\ [][Next]_vars

(***************************************************************************)
(* Properties.  What a write does is judged by its request alone.          *)
(***************************************************************************)
\* No statement goes out with a placeholder too many or an argument too many:
\* the three numberings, of INSERT's columns, UPDATE's terms and the key's
\* terms after them, agree with the arguments whichever values are skipped.
StatementsFit == \A c \in Calls : call[c].pc \in {"send", "wait"} => PlacesFit(c)

Ran(c, op) == applied'[c] # applied[c] /\ Op(c) = op

\* What the request's values ask of a column: a value, DEFAULT or nothing.
Asked(r, column) == {r.values[k].value : k \in {k \in DOMAIN r.values : r.values[k].name = column}}

\* A row as it should be written on top of another.
OnTop(r, row) ==
    [column \in Columns |->
        IF \E v \in Asked(r, column) : v # DEFAULT
        THEN CHOOSE v \in Asked(r, column) : v # DEFAULT
        ELSE row[column]]

\* The rows a key means: NULL finds the rows that have NULL there.
Meant(r, rows) ==
    {id \in DOMAIN rows : \A k \in DOMAIN r.key : rows[id][r.key[k].name] = r.key[k].value}

\* An INSERT that is carried out adds one row, with each value in the column
\* it was given for, whichever others were left to their default
\* (postgresInsertParts skips them, postgresInsertStatement numbers the rest).
InsertIsExact ==
    [][ \A c \in Calls : Ran(c, "insert") =>
          \E id \in DOMAIN table' \ DOMAIN table :
             table' = [i \in DOMAIN table \cup {id} |->
                IF i = id THEN OnTop(call[c].request, Defaults) ELSE table[i]] ]_vars

\* An UPDATE changes every row the key means and no other, and gives each
\* column its own value: the placeholders of SET and WHERE never mix, with
\* NULLs on either side (row_write.go:159, "numbering continues after the
\* update arguments").
UpdateIsExact ==
    [][ \A c \in Calls : Ran(c, "update") =>
          table' = [i \in DOMAIN table |->
             IF i \in Meant(call[c].request, table)
             THEN OnTop(call[c].request, table[i]) ELSE table[i]] ]_vars

\* A DELETE removes the rows the key means, those with NULL in the key
\* included, and never all rows for want of a key.
DeleteIsExact ==
    [][ \A c \in Calls : Ran(c, "delete") =>
          /\ call[c].request.key # <<>>
          /\ table' = [i \in DOMAIN table \ Meant(call[c].request, table) |-> table[i]] ]_vars

\* A call writes at most once, a rejected or refused one never, and an "ok"
\* says that it wrote, except for an UPDATE of nothing.
WriteAnswersAreHonest ==
    \A c \in Calls :
        /\ applied[c] <= 1
        /\ call[c].answer \in {"validation", "failed"} => applied[c] = 0
        /\ call[c].answer = "ok" =>
            applied[c] = 1 \/ (Op(c) = "update" /\ call[c].request.values = <<>>)

(***************************************************************************)
(* The inductive invariant.  What has been gone through of a list is in    *)
(* the terms and the arguments, each row with its own placeholder; what    *)
(* the answer and the connection say agrees with the history.              *)
(***************************************************************************)
InsertScanned(cl) ==
    LET values == cl.request.values
        Row(j) == [name |-> cl.columns[j], value |-> cl.args[j]]
    IN  /\ cl.where = <<>> /\ cl.whereArgs = <<>>
        /\ cl.taken <= Len(values)
        /\ cl.pc # "values" => cl.taken = Len(values)
        /\ Len(cl.columns) = Len(cl.args)
        /\ \A j \in 1..Len(cl.args) : \E k \in 1..cl.taken : values[k] = Row(j)
        /\ \A k \in 1..cl.taken :
              values[k].value = DEFAULT \/ \E j \in 1..Len(cl.args) : values[k] = Row(j)

SetsScanned(cl, n) ==
    LET values == cl.request.values
    IN  /\ n <= Len(values) /\ Len(cl.sets) = n /\ Len(cl.args) = n
        /\ \A k \in 1..n : /\ cl.sets[k] = [column |-> values[k].name, place |-> k]
                           /\ cl.args[k] = values[k].value

KeyScanned(cl) ==
    LET key == cl.request.key
        set == Len(cl.args)
    IN  /\ cl.offset = set + Len(cl.whereArgs)
        /\ cl.taken <= Len(key) /\ Len(cl.where) = cl.taken
        /\ cl.pc # "key" => cl.taken = Len(key) /\ key # <<>>
        /\ \A k \in 1..cl.taken :
              /\ cl.where[k].column = key[k].name
              /\ key[k].value = NULL => cl.where[k].place = 0
              /\ key[k].value # NULL =>
                    /\ cl.where[k].place \in (set + 1)..cl.offset
                    /\ cl.whereArgs[cl.where[k].place - set] = key[k].value
        /\ \A n \in (set + 1)..cl.offset : \E k \in 1..cl.taken : cl.where[k].place = n

Scanned(cl) ==
    \/ cl.request.op = "insert" /\ cl.pc # "key" /\ InsertScanned(cl)
    \/ /\ cl.request.op = "update" /\ cl.pc = "values"
       /\ cl.where = <<>> /\ cl.whereArgs = <<>> /\ SetsScanned(cl, cl.taken)
    \/ /\ cl.request.op = "update" /\ cl.pc # "values"
       /\ SetsScanned(cl, Len(cl.request.values)) /\ KeyScanned(cl)
    \/ /\ cl.request.op = "delete" /\ cl.pc # "values"
       /\ cl.args = <<>> /\ cl.sets = <<>> /\ KeyScanned(cl)

\* The statement is being put together, or is complete and matters still.
Active(c) == call[c].pc \in {"values", "key", "send", "wait"} \/ wire[c] = "running"

HistoryFits(c) ==
    /\ call[c].pc # "idle" => call[c].request \in Request
    /\ call[c].pc # "done" => call[c].answer = None
    /\ call[c].pc \notin {"wait", "done"} => wire[c] = "idle" /\ applied[c] = 0
    /\ At(c, "wait") => wire[c] # "idle"
    /\ At(c, "done") /\ wire[c] # "idle" => call[c].answer = "lost"
    /\ wire[c] # "idle" => applied[c] = IF wire[c] = "ran" THEN 1 ELSE 0
    /\ applied[c] <= 1
    /\ call[c].answer \in {"validation", "failed"} => applied[c] = 0
    /\ call[c].answer = "ok" =>
         applied[c] = 1 \/ (Op(c) = "update" /\ call[c].request.values = <<>>)

IInv ==
    /\ TypeOK
    /\ \A c \in Calls : HistoryFits(c) /\ (Active(c) => Scanned(call[c]))
=============================================================================
