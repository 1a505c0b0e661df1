------------------------------- MODULE Browse -------------------------------
(***************************************************************************)
(* BrowseTable, and a caller who turns the pages of a table with it while  *)
(* others write to the table.  A call goes through the filters and numbers *)
(* their placeholders, asks for one row more than the page has to learn    *)
(* whether there is another page, and collects the rows that come, of      *)
(* which collectRows takes no more than MaxRows.                           *)
(***************************************************************************)
EXTENDS Patterns, Integers, FiniteSets

CONSTANTS
    Columns,    \* the columns of the table
    Values,     \* the texts that cells hold and filters are given
    NULL,
    Displayed,  \* sanitizeDisplay with its limit of 300 characters: module Display
    Rank,       \* the collation; PostgreSQL puts NULL after every text
    Tables,     \* bound: what the table may hold from time to time
    Requests,   \* the pages asked for first
    MaxRows,    \* maxRows
    None        \* nothing yet

Row == [Columns -> Values \cup {NULL}]

Comparisons == {"=", "!=", "<", "<=", ">", ">="}
Likes == {"LIKE", "NOT LIKE"}
Globs == {"PATTERN", "NOT PATTERN"}
NullTests == {"IS NULL", "IS NOT NULL"}

\* The caller says which columns it takes the table to have.
Request ==
    [offset : Int, limit : Int, columns : SUBSET STRING,
     filters : Seq([column : STRING, operator : STRING, value : Values]),
     sorts : Seq([column : STRING, descending : BOOLEAN])]

ASSUME BrowseAssumption ==
    /\ Values \subseteq Seq(STRING)
    /\ NULL \notin Values
    /\ Displayed \in [Values -> Values]
    /\ Rank \in [Values \cup {NULL} -> Nat]
    /\ Tables \subseteq SUBSET Row
    /\ \A rows \in Tables : IsFiniteSet(rows)
    /\ MaxRows \in Nat
    /\ Requests \subseteq Request
    /\ None \notin {"ok", "validation", "failed"}

VARIABLES
    table,  \* the rows of the table: no two are alike
    call,   \* the call that browses, and what it answered
    walk    \* history: the pages turned, and whether the table stayed the same

vars == <<table, call, walk>>

(***************************************************************************)
(* call.first    history: the offset of the first page of this walk         *)
(* call.taken    how many filters have been gone through                   *)
(* call.terms    the WHERE terms; place 0 where there is no placeholder    *)
(* call.seen     history: the table the query saw                          *)
(* call.ordered  history: all rows the query selects, in the order it took *)
(* call.served   the rows the server sends: LIMIT and OFFSET of those      *)
(* call.raw, call.rows  the rows collected, as they are and for display    *)
(***************************************************************************)
Idle == [pc |-> "idle", request |-> None, first |-> 0, taken |-> 0, terms |-> <<>>, args |-> <<>>,
         seen |-> {}, ordered |-> <<>>, served |-> <<>>, raw |-> <<>>, rows |-> <<>>,
         hasMore |-> FALSE, truncated |-> FALSE, answer |-> None]

Init ==
    /\ table \in Tables
    /\ call = Idle
    /\ walk = [got |-> <<>>, still |-> TRUE]

At(pc) == call.pc = pc
Become(new) == call' = new /\ UNCHANGED <<table, walk>>
Answer(answer) == Become([call EXCEPT !.pc = "done", !.answer = answer])

\* Up to `count' elements of a sequence after the first `skip'.
Slice(seq, skip, count) ==
    SubSeq(seq, skip + 1, IF skip + count <= Len(seq) THEN skip + count ELSE Len(seq))

(***************************************************************************)
(* The call: filters, placeholders and arguments                           *)
(***************************************************************************)
RangeOk(r) == r.offset >= 0 /\ r.limit >= 1 /\ r.limit <= MaxRows

Started(r, first) ==
    LET new == [Idle EXCEPT !.request = r, !.first = first]
    IN  IF RangeOk(r) THEN [new EXCEPT !.pc = "filters"]
                      ELSE [new EXCEPT !.pc = "done", !.answer = "validation"]

Ask(r) == At("idle") /\ Become(Started(r, r.offset))

\* The caller asks for the next page when it is told of one.
TurnPage ==
    /\ At("done") /\ call.hasMore
    /\ Become(Started([call.request EXCEPT !.offset = @ + call.request.limit], call.first))

AtFilter == At("filters") /\ call.taken < Len(call.request.filters)
Filter == call.request.filters[call.taken + 1]

Bound(operator, value) ==
    /\ Filter.column \in call.request.columns
    /\ Become([call EXCEPT !.taken = @ + 1, !.args = Append(@, value),
                           !.terms = Append(@, [column |-> Filter.column, operator |-> operator,
                                                place |-> Len(call.args) + 1])])

BindValue ==
    /\ AtFilter /\ Filter.operator \in Likes \cup Comparisons
    /\ Bound(Filter.operator, Filter.value)

BindPattern ==
    /\ AtFilter /\ Filter.operator \in Globs
    /\ Bound(IF Filter.operator = "PATTERN" THEN "LIKE" ELSE "NOT LIKE", globToLike(Filter.value))

TestNull ==
    /\ AtFilter /\ Filter.operator \in NullTests
    /\ Filter.column \in call.request.columns
    /\ Become([call EXCEPT !.taken = @ + 1,
                           !.terms = Append(@, [column |-> Filter.column,
                                                operator |-> Filter.operator, place |-> 0])])

RejectFilter ==
    /\ AtFilter
    /\ \/ Filter.column \notin call.request.columns
       \/ Filter.operator \notin Likes \cup Comparisons \cup Globs \cup NullTests
    /\ Answer("validation")

\* Sorts by columns the caller does not list are skipped.
Orders == SelectSeq(call.request.sorts, LAMBDA s : s.column \in call.request.columns)

\* Mutant: asks for the page and no more.
AskedExactly(limit) == limit

Asked(limit) == limit + 1

\* LIMIT and OFFSET take the last two placeholders.
Send ==
    /\ At("filters") /\ ~ AtFilter
    /\ Become([call EXCEPT !.pc = "wait",
                           !.args = @ \o <<Asked(call.request.limit), call.request.offset>>])

(***************************************************************************)
(* PostgreSQL: the query on one snapshot of the table                      *)
(***************************************************************************)
Compare(operator, cell, value) ==
    CASE operator = "="  -> cell = value
      [] operator = "!=" -> cell # value
      [] operator = "<"  -> Rank[cell] < Rank[value]
      [] operator = "<=" -> Rank[cell] <= Rank[value]
      [] operator = ">"  -> Rank[cell] > Rank[value]
      [] operator = ">=" -> Rank[cell] >= Rank[value]

\* A term that is unknown for want of a value does not hold.
Holds(operator, cell, value) ==
    IF operator \in NullTests THEN (operator = "IS NULL") <=> (cell = NULL)
    ELSE /\ cell # NULL
         /\ CASE operator = "LIKE" -> Like(value, cell)
              [] operator = "NOT LIKE" -> ~ Like(value, cell)
              [] OTHER -> Compare(operator, cell, value)

Argument(place) == IF place = 0 THEN None ELSE call.args[place]

Selected ==
    {row \in table : \A k \in DOMAIN call.terms :
        Holds(call.terms[k].operator, row[call.terms[k].column], Argument(call.terms[k].place))}

Before(row, other, sorts) ==
    \E k \in DOMAIN sorts :
        LET R(x) == Rank[x[sorts[k].column]] IN
        /\ IF sorts[k].descending THEN R(row) > R(other) ELSE R(row) < R(other)
        /\ \A j \in 1..(k - 1) : row[sorts[j].column] = other[sorts[j].column]

\* Rows that ORDER BY does not tell apart may come in any order.
Sorted(rows, sorts) ==
    {seq \in [1..Cardinality(rows) -> rows] :
        \A j, k \in DOMAIN seq : j < k => seq[j] # seq[k] /\ ~ Before(seq[k], seq[j], sorts)}

\* A query that names a column the table does not have can only fail.
Query ==
    /\ At("wait")
    /\ \A k \in DOMAIN call.terms : call.terms[k].column \in Columns
    /\ \A k \in DOMAIN Orders : Orders[k].column \in Columns
    /\ \E ordered \in Sorted(Selected, Orders) :
          Become([call EXCEPT
            !.pc = "rows", !.seen = table, !.ordered = ordered,
            !.served = Slice(ordered, call.args[Len(call.args)], call.args[Len(call.args) - 1])])

(***************************************************************************)
(* collectRows, and the page that is made of its result                    *)
(***************************************************************************)
Show(row) == [column \in Columns |-> IF row[column] = NULL THEN NULL ELSE Displayed[row[column]]]

\* rows.Next reports a row that has not been collected.
HasNext == Len(call.raw) < Len(call.served)

CollectRow ==
    /\ At("rows") /\ HasNext /\ Len(call.raw) < MaxRows
    /\ LET row == call.served[Len(call.raw) + 1]
       IN  Become([call EXCEPT !.raw = Append(@, row), !.rows = Append(@, Show(row))])

\* Mutants: a full page is taken for one of more; the extra row stays.
MoreThanAskedOrEqual == Len(call.raw) >= call.request.limit
PageUncut(collected) == collected

MoreThanAsked == Len(call.raw) > call.request.limit

Page(collected) == IF MoreThanAsked THEN SubSeq(collected, 1, call.request.limit) ELSE collected

Finish ==
    /\ At("rows") /\ (~ HasNext \/ Len(call.raw) = MaxRows)
    /\ call' = [call EXCEPT !.pc = "done", !.answer = "ok", !.truncated = HasNext,
                            !.hasMore = MoreThanAsked, !.raw = Page(@), !.rows = Page(@)]
    /\ walk' = [walk EXCEPT !.got = @ \o Page(call.raw)]
    /\ UNCHANGED table

\* The query is refused or interrupted, or fetching, scanning or closing fails.
Fail == call.pc \in {"wait", "rows"} /\ Answer("failed")

\* Others write to the table; once a walk has begun, that changes what it walks.
Write ==
    /\ table' \in Tables \ {table}
    /\ walk' = [walk EXCEPT !.still = At("idle")]
    /\ UNCHANGED call

Next ==
    \/ \E r \in Requests : Ask(r)
    \/ TurnPage
    \/ BindValue \/ BindPattern \/ TestNull \/ RejectFilter
    \/ Send \/ Query \/ CollectRow \/ Finish \/ Fail
    \/ Write

Spec == Init /\ [][Next]_vars

(***************************************************************************)
(* Properties                                                              *)
(***************************************************************************)
Means(filter, cell) ==
    CASE filter.operator = "PATTERN" -> cell # NULL /\ Glob(filter.value, cell)
      [] filter.operator = "NOT PATTERN" -> cell # NULL /\ ~ Glob(filter.value, cell)
      [] OTHER -> Holds(filter.operator, cell, filter.value)

Meant(r, rows) ==
    {row \in rows : \A k \in DOMAIN r.filters : Means(r.filters[k], row[r.filters[k].column])}

\* The query selects the rows that the filters mean, however many of them take
\* no placeholder, whatever wildcards of the other kind a pattern contains
\* (globToLike), and puts them in the order the sorts ask for.
FiltersKeepTheirMeaning ==
    call.pc \in {"rows", "done"} /\ call.answer \in {None, "ok"} =>
        call.ordered \in Sorted(Meant(call.request, call.seen), Orders)

Answered == At("done") /\ call.answer = "ok"

\* A page is a contiguous part of the rows selected: the `limit' rows after the
\* first `offset', and each displayed row stands beside its own raw row.  The
\* row asked for in excess never shows.
PageIsExact ==
    Answered =>
        /\ call.raw = Slice(call.ordered, call.request.offset, call.request.limit)
        /\ call.rows = [k \in DOMAIN call.raw |-> Show(call.raw[k])]

\* Whether there are more rows is always told: by HasMore, which never cries
\* wolf, or, on a page as long as collectRows allows, by Truncated alone.
MoreIsTold ==
    Answered =>
        LET more == Len(call.ordered) > call.request.offset + call.request.limit
        IN  /\ call.hasMore <=> more /\ call.request.limit < MaxRows
            /\ call.truncated <=> more /\ call.request.limit = MaxRows

\* Turning pages until there are no more finds every row from the first offset
\* on once and in order, if nobody writes meanwhile, the sorts leave no choice of
\* order and the pages are shorter than collectRows allows.
WalkIsComplete ==
    Answered /\ ~ call.hasMore /\ walk.still /\ call.request.limit < MaxRows =>
        LET orders == Sorted(Meant(call.request, table), Orders)
        IN  \A order \in orders :
                orders = {order} => walk.got = SubSeq(order, call.first + 1, Len(order))
=============================================================================
