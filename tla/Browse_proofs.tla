---------------------------- MODULE Browse_proofs ----------------------------
(***************************************************************************)
(* Whatever the table, its columns and collation, the request and the      *)
(* writes of others: a page is exactly the part of the query's rows that   *)
(* was asked for, and whether there are more is told; the query's rows are *)
(* those that the filters mean, for every pattern and every text; and a    *)
(* walk through a table at rest finds every row.                           *)
(***************************************************************************)
EXTENDS Browse, Recursion, SequenceTheorems, FiniteSetTheorems, TLAPS

Places == {"idle", "filters", "wait", "rows", "done"}
Arguments == Values \cup {globToLike(value) : value \in Values} \cup Int
Terms == [column : STRING, operator : STRING \cup Likes, place : Nat]

CallType ==
    [pc : Places, request : Request \cup {None}, first : Int, taken : Nat, terms : Seq(Terms),
     args : Seq(Arguments), seen : SUBSET Row, ordered : Seq(Row), served : Seq(Row),
     raw : Seq(Row), rows : Seq(Row), hasMore : BOOLEAN, truncated : BOOLEAN,
     answer : {None, "ok", "validation", "failed"}]

TypeOK == table \in Tables /\ call \in CallType

\* What each place of the call knows.  On the way to the query nothing has been
\* collected; the last two arguments are LIMIT and OFFSET.
Knows(c) ==
    /\ c.pc # "idle" => c.request \in Request
    /\ c.pc = "idle" => ~ c.hasMore
    /\ c.pc \in {"filters", "wait", "rows"} => RangeOk(c.request) /\ c.answer = None
    /\ c.pc \in {"filters", "wait"} => c.raw = <<>> /\ c.rows = <<>>
    /\ c.pc = "wait" =>
          /\ Len(c.args) >= 2
          /\ c.args[Len(c.args)] = c.request.offset
          /\ c.args[Len(c.args) - 1] = c.request.limit + 1
    /\ c.answer = "ok" => c.pc = "done"

\* The rows collected are the first ones served, each beside its display.
Collected(c) ==
    c.pc = "rows" =>
        /\ c.served = Slice(c.ordered, c.request.offset, c.request.limit + 1)
        /\ Len(c.raw) <= Len(c.served) /\ Len(c.raw) <= MaxRows
        /\ \A k \in 1..Len(c.raw) : c.raw[k] = c.served[k]
        /\ Len(c.rows) = Len(c.raw)
        /\ \A k \in 1..Len(c.raw) : c.rows[k] = Show(c.raw[k])

BrowseInv == TypeOK /\ Knows(call) /\ Collected(call) /\ PageIsExact /\ MoreIsTold

-----------------------------------------------------------------------------
\* A slice has as many elements as are left, and no more than it should.
LEMMA SliceProperties ==
    ASSUME NEW S, NEW seq \in Seq(S), NEW skip \in Nat, NEW count \in Nat
    PROVE  /\ Slice(seq, skip, count) \in Seq(S)
           /\ Len(Slice(seq, skip, count)) =
                 IF Len(seq) - skip <= 0 THEN 0
                 ELSE IF Len(seq) - skip <= count THEN Len(seq) - skip ELSE count
           /\ \A k \in 1..Len(Slice(seq, skip, count)) : Slice(seq, skip, count)[k] = seq[skip + k]
<1> DEFINE n == IF skip + count <= Len(seq) THEN skip + count ELSE Len(seq)
           m == skip + 1
<1>1. Len(seq) \in Nat /\ n \in Int /\ m \in Int /\ n <= Len(seq)
    BY LenProperties
<1>2. \A i \in m..n : seq[i] \in S
    BY <1>1, ElementOfSeq
<1> HIDE DEF n, m
<1>3. /\ SubSeq(seq, m, n) \in Seq(S)
      /\ Len(SubSeq(seq, m, n)) = IF m <= n THEN n - m + 1 ELSE 0
      /\ \A i \in 1..(n - m + 1) : SubSeq(seq, m, n)[i] = seq[m + i - 1]
    BY <1>1, <1>2, SubSeqProperties
<1> DEFINE slice == SubSeq(seq, m, n)
<1>4. Slice(seq, skip, count) = slice
    BY DEF Slice, m, n
<1> HIDE DEF slice
<1>5. Len(slice) = IF Len(seq) - skip <= 0 THEN 0
                   ELSE IF Len(seq) - skip <= count THEN Len(seq) - skip ELSE count
    BY <1>1, <1>3 DEF m, n, slice
<1>6. \A k \in 1..Len(slice) : slice[k] = seq[skip + k]
    <2>1. TAKE k \in 1..Len(slice)
    <2>2. k \in 1..(n - m + 1) /\ m + k - 1 = skip + k
        BY <1>1, <1>3 DEF slice, m
    <2>3. QED
        BY <1>3, <2>2 DEF slice
<1>7. QED
    BY <1>3, <1>4, <1>5, <1>6 DEF slice

\* The same of the rows that the call's query has selected.
LEMMA ServedProperties ==
    ASSUME call.ordered \in Seq(Row), call.request.offset \in Nat, NEW count \in Nat,
           NEW served, served = Slice(call.ordered, call.request.offset, count)
    PROVE  LET left == Len(call.ordered) - call.request.offset IN
           /\ served \in Seq(Row)
           /\ Len(served) = IF left <= 0 THEN 0 ELSE IF left <= count THEN left ELSE count
           /\ \A k \in 1..Len(served) : served[k] = call.ordered[call.request.offset + k]
<1>1. ASSUME NEW seq \in Seq(Row), NEW skip \in Nat
      PROVE  /\ Slice(seq, skip, count) \in Seq(Row)
             /\ Len(Slice(seq, skip, count)) =
                   IF Len(seq) - skip <= 0 THEN 0
                   ELSE IF Len(seq) - skip <= count THEN Len(seq) - skip ELSE count
             /\ \A k \in 1..Len(Slice(seq, skip, count)) :
                   Slice(seq, skip, count)[k] = seq[skip + k]
    BY SliceProperties
<1>2. QED
    BY <1>1, Zenon

\* Displayed rows are rows.
LEMMA ShowType ==
    ASSUME NEW row \in Row
    PROVE  Show(row) \in Row
    BY BrowseAssumption DEF Show, Row

\* Away from the rows and the answer, there is nothing to be exact about.
LEMMA NotAnswered ==
    ASSUME call'.answer # "ok"
    PROVE  PageIsExact' /\ MoreIsTold'
    BY DEF PageIsExact, MoreIsTold, Answered

\* At first there is no call.
LEMMA InitInv == Init => BrowseInv
<1> SUFFICES ASSUME Init PROVE BrowseInv
    OBVIOUS
<1>1. call = Idle /\ Idle.pc = "idle" /\ Idle.answer = None
    BY DEF Init, Idle
<1>2. Idle \in CallType
    BY EmptySeq DEF Idle, CallType, Places
<1>3. PageIsExact /\ MoreIsTold
    BY <1>1 DEF PageIsExact, MoreIsTold, Answered, At
<1>4. Knows(call) /\ Collected(call)
    BY <1>1, BrowseAssumption DEF Knows, Collected, Idle
<1>5. QED
    BY <1>1, <1>2, <1>3, <1>4 DEF BrowseInv, TypeOK, Init

\* A page is asked for, the first or the next.
LEMMA StartKeeps ==
    ASSUME BrowseInv, NEW r \in Request, NEW first \in Int, Become(Started(r, first))
    PROVE  BrowseInv'
<1> DEFINE new == [Idle EXCEPT !.request = r, !.first = first]
           started == Started(r, first)
<1>1. /\ started \in CallType /\ started.request = r /\ started.raw = <<>> /\ started.rows = <<>>
      /\ started.answer # "ok" /\ started.pc \in {"filters", "done"}
      /\ started.pc = "filters" => RangeOk(r) /\ started.answer = None
    BY BrowseAssumption, EmptySeq DEF Started, Idle, CallType, Places
<1> HIDE DEF started
<1>2. call' = started /\ table' = table
    BY DEF Become, started
<1>3. Knows(started) /\ Collected(started)
    BY <1>1 DEF Knows, Collected
<1>4. QED
    BY <1>1, <1>2, <1>3, NotAnswered DEF BrowseInv, TypeOK, Knows, Collected, RangeOk

\* Steps that end the call without rows, and steps on the way to the query.
LEMMA AnswerKeeps ==
    ASSUME BrowseInv, call.pc \in {"filters", "wait", "rows"},
           NEW answer \in {"validation", "failed"}, Answer(answer)
    PROVE  BrowseInv'
<1> DEFINE new == [call EXCEPT !.pc = "done", !.answer = answer]
<1>1. call' = new /\ table' = table /\ call \in CallType /\ call.request \in Request
    BY DEF Answer, Become, BrowseInv, TypeOK, Knows
<1>2. new \in CallType /\ new.pc = "done" /\ new.answer # "ok" /\ new.request = call.request
    BY <1>1 DEF CallType, Places
<1>3. Knows(new) /\ Collected(new)
    BY <1>1, <1>2, BrowseAssumption DEF Knows, Collected
<1>4. QED
    BY <1>1, <1>2, <1>3, NotAnswered DEF BrowseInv, TypeOK

\* A filter that is gone through adds a term and perhaps an argument.
LEMMA FilterKeeps ==
    ASSUME BrowseInv, At("filters"), NEW args \in Seq(Arguments), NEW terms \in Seq(Terms),
           Become([call EXCEPT !.taken = @ + 1, !.args = args, !.terms = terms])
    PROVE  BrowseInv'
<1> DEFINE new == [call EXCEPT !.taken = @ + 1, !.args = args, !.terms = terms]
<1>1. call' = new /\ table' = table /\ call \in CallType /\ call.pc = "filters"
    BY DEF Become, BrowseInv, TypeOK, At
<1>2. /\ new \in CallType /\ new.pc = "filters" /\ new.answer = call.answer
      /\ new.request = call.request /\ new.raw = call.raw /\ new.rows = call.rows
    <2>1. call.taken + 1 \in Nat
        BY <1>1 DEF CallType
    <2>2. QED
        BY <1>1, <2>1 DEF CallType
<1>3. Knows(new) /\ Collected(new) /\ new.answer # "ok"
    BY <1>1, <1>2, BrowseAssumption DEF Knows, Collected, BrowseInv
<1>4. QED
    BY <1>1, <1>2, <1>3, NotAnswered DEF BrowseInv, TypeOK

\* A term and its argument have their types.
LEMMA FilterType ==
    ASSUME BrowseInv, AtFilter
    PROVE  /\ call \in CallType /\ At("filters")
           /\ Filter \in [column : STRING, operator : STRING, value : Values]
<1>1. call \in CallType /\ At("filters") /\ call.request \in Request
    BY DEF BrowseInv, TypeOK, Knows, AtFilter, At
<1>2. call.request.filters \in Seq([column : STRING, operator : STRING, value : Values])
    BY <1>1 DEF Request
<1>3. call.taken + 1 \in 1..Len(call.request.filters)
    BY <1>1, <1>2, LenProperties DEF AtFilter, CallType
<1>4. QED
    BY <1>1, <1>2, <1>3, ElementOfSeq DEF Filter

\* A filter with a placeholder adds both.
LEMMA BoundKeeps ==
    ASSUME BrowseInv, AtFilter, NEW operator \in STRING \cup Likes, NEW value \in Arguments,
           Bound(operator, value)
    PROVE  BrowseInv'
<1> DEFINE term == [column |-> Filter.column, operator |-> operator, place |-> Len(call.args) + 1]
<1>1. call.args \in Seq(Arguments) /\ call.terms \in Seq(Terms) /\ At("filters")
    BY FilterType DEF CallType
<1>2. term \in Terms
    BY <1>1, FilterType, LenProperties DEF Terms
<1> HIDE DEF term
<1>3. Append(call.args, value) \in Seq(Arguments) /\ Append(call.terms, term) \in Seq(Terms)
    BY <1>1, <1>2, AppendProperties
<1>4. Become([call EXCEPT !.taken = @ + 1, !.args = Append(@, value), !.terms = Append(@, term)])
    BY DEF Bound, term
<1>5. QED
    BY <1>1, <1>3, <1>4, FilterKeeps

\* A test for NULL adds a term alone.
LEMMA TestNullKeeps ==
    ASSUME BrowseInv, TestNull
    PROVE  BrowseInv'
<1> DEFINE term == [column |-> Filter.column, operator |-> Filter.operator, place |-> 0]
<1>1. AtFilter
    BY DEF TestNull
<1>2. call.args \in Seq(Arguments) /\ call.terms \in Seq(Terms) /\ At("filters") /\ call \in CallType
    BY <1>1, FilterType DEF CallType
<1>3. term \in Terms
    BY <1>1, FilterType DEF Terms
<1> HIDE DEF term
<1>4. Append(call.terms, term) \in Seq(Terms)
    BY <1>2, <1>3, AppendProperties
<1>5. Become([call EXCEPT !.taken = @ + 1, !.args = call.args, !.terms = Append(@, term)])
    BY <1>2 DEF TestNull, term, CallType
<1>6. QED
    BY <1>2, <1>4, <1>5, FilterKeeps

\* LIMIT and OFFSET are the last two arguments, however many come before.
LEMMA SendKeeps ==
    ASSUME BrowseInv, Send
    PROVE  BrowseInv'
<1> DEFINE last == <<Asked(call.request.limit), call.request.offset>>
           args == call.args \o last
           new == [call EXCEPT !.pc = "wait", !.args = args]
<1>1. /\ call' = new /\ table' = table /\ call \in CallType /\ call.pc = "filters"
      /\ call.request \in Request /\ Knows(call)
    BY DEF Send, Become, BrowseInv, TypeOK, At, Knows
<1>2. /\ call.request.limit \in Int /\ call.request.offset \in Int
      /\ call.args \in Seq(Arguments) /\ Len(call.args) \in Nat
    BY <1>1, LenProperties DEF Request, CallType
<1>3. last \in Seq(Arguments) /\ Len(last) = 2
      /\ last[1] = call.request.limit + 1 /\ last[2] = call.request.offset
    BY <1>2 DEF Asked, Arguments
<1> HIDE DEF last
<1>4. /\ args \in Seq(Arguments) /\ Len(args) = Len(call.args) + 2
      /\ args[Len(call.args) + 1] = last[1] /\ args[Len(call.args) + 2] = last[2]
    <2>1. /\ args \in Seq(Arguments) /\ Len(args) = Len(call.args) + Len(last)
          /\ \A i \in 1..(Len(call.args) + Len(last)) :
                args[i] = IF i <= Len(call.args) THEN call.args[i] ELSE last[i - Len(call.args)]
        BY <1>2, <1>3, ConcatProperties
    <2> DEFINE n == Len(call.args)
    <2> HIDE DEF args, n
    <2>2. n \in Nat /\ n + 1 \in 1..(n + 2) /\ n + 2 \in 1..(n + 2)
          /\ ~ (n + 1 <= n) /\ ~ (n + 2 <= n) /\ (n + 1) - n = 1 /\ (n + 2) - n = 2
        BY <1>2 DEF n
    <2>3. args[n + 1] = last[(n + 1) - n] /\ args[n + 2] = last[(n + 2) - n]
        BY <1>3, <2>1, <2>2 DEF n
    <2>4. args[n + 1] = last[1] /\ args[n + 2] = last[2]
        BY <2>2, <2>3
    <2>5. QED
        BY <1>3, <2>1, <2>4 DEF n
<1> HIDE DEF args
<1>5. /\ new \in CallType /\ new.pc = "wait" /\ new.answer = call.answer /\ new.args = args
      /\ new.request = call.request /\ new.raw = call.raw /\ new.rows = call.rows
    BY <1>1, <1>4 DEF CallType, Places
<1> HIDE DEF new
<1>6. Len(new.args) >= 2 /\ new.args[Len(new.args)] = new.request.offset
      /\ new.args[Len(new.args) - 1] = new.request.limit + 1
    BY <1>2, <1>3, <1>4, <1>5
<1>7. Knows(new) /\ Collected(new) /\ new.answer # "ok"
    BY <1>1, <1>5, <1>6, BrowseAssumption DEF Knows, Collected
<1>8. QED
    BY <1>1, <1>5, <1>7, NotAnswered DEF BrowseInv, TypeOK

\* The rows a query selects are rows of the table, one after another.
LEMMA SortedType ==
    ASSUME TypeOK, NEW sorts, NEW ordered \in Sorted(Selected, sorts)
    PROVE  ordered \in Seq(Row)
<1>1. IsFiniteSet(table) /\ table \subseteq Row
    BY BrowseAssumption DEF TypeOK
<1>2. Selected \subseteq table
    BY DEF Selected
<1>3. Cardinality(Selected) \in Nat
    BY <1>1, <1>2, FS_Subset, FS_CardinalityType
<1>4. ordered \in [1..Cardinality(Selected) -> Selected]
    BY DEF Sorted
<1>5. QED
    BY <1>1, <1>2, <1>3, <1>4

\* The query is served LIMIT rows after the first OFFSET.
LEMMA QueryKeeps ==
    ASSUME BrowseInv, Query
    PROVE  BrowseInv'
<1>1. call \in CallType /\ call.pc = "wait" /\ Knows(call) /\ TypeOK
    BY DEF Query, At, BrowseInv, TypeOK
<1>2. PICK ordered \in Sorted(Selected, Orders) :
          Become([call EXCEPT
            !.pc = "rows", !.seen = table, !.ordered = ordered,
            !.served = Slice(ordered, call.args[Len(call.args)], call.args[Len(call.args) - 1])])
    BY DEF Query
<1> DEFINE served == Slice(ordered, call.request.offset, call.request.limit + 1)
           new == [call EXCEPT !.pc = "rows", !.seen = table, !.ordered = ordered,
                               !.served = served]
<1>3. call' = new /\ table' = table
    BY <1>1, <1>2 DEF Become, Knows
<1>4. /\ call.request \in Request /\ RangeOk(call.request) /\ call.answer = None
      /\ call.raw = <<>> /\ call.rows = <<>>
    BY <1>1 DEF Knows
<1>5. call.request.offset \in Nat /\ call.request.limit + 1 \in Nat
    BY <1>4, BrowseAssumption DEF RangeOk, Request
<1>6. ordered \in Seq(Row) /\ table \in SUBSET Row
    BY <1>1, SortedType, BrowseAssumption DEF TypeOK
<1>7. served \in Seq(Row) /\ Len(served) \in Nat
    BY <1>5, <1>6, SliceProperties, LenProperties
<1> HIDE DEF served
<1>8. /\ new \in CallType /\ new.pc = "rows" /\ new.answer = None /\ new.request = call.request
      /\ new.raw = <<>> /\ new.rows = <<>> /\ new.ordered = ordered /\ new.served = served
    BY <1>1, <1>4, <1>6, <1>7 DEF CallType, Places
<1> HIDE DEF new
<1>9. Knows(new) /\ new.answer # "ok"
    BY <1>4, <1>8, BrowseAssumption DEF Knows
<1>10. Collected(new)
    <2>1. new.served = Slice(new.ordered, new.request.offset, new.request.limit + 1)
        BY <1>8 DEF served
    <2>2. Len(new.raw) = 0 /\ Len(new.rows) = 0 /\ 0 <= MaxRows /\ 0 <= Len(new.served)
        BY <1>7, <1>8, BrowseAssumption
    <2>3. QED
        BY <2>1, <2>2 DEF Collected
<1>11. QED
    BY <1>3, <1>6, <1>1, <1>8, <1>9, <1>10, NotAnswered DEF BrowseInv, TypeOK

\* What is known where rows are collected.
LEMMA AtRows ==
    ASSUME BrowseInv, At("rows")
    PROVE  /\ call \in CallType /\ call.request \in Request /\ call.answer = None
           /\ call.request.offset \in Nat /\ call.request.limit \in Nat \ {0}
           /\ call.request.limit <= MaxRows /\ MaxRows \in Nat
           /\ Len(call.ordered) \in Nat /\ Len(call.served) \in Nat /\ Len(call.raw) \in Nat
<1>1. call \in CallType /\ call.request \in Request /\ RangeOk(call.request) /\ call.answer = None
    BY DEF BrowseInv, TypeOK, Knows, At
<1>2. /\ call.request.offset \in Nat /\ call.request.limit \in Nat \ {0}
      /\ call.request.limit <= MaxRows /\ MaxRows \in Nat
    BY <1>1, BrowseAssumption DEF RangeOk, Request
<1>3. QED
    BY <1>1, <1>2, LenProperties DEF CallType

\* The next row served is collected with its display.
LEMMA CollectKeeps ==
    ASSUME BrowseInv, CollectRow
    PROVE  BrowseInv'
<1> DEFINE n == Len(call.raw)
           row == call.served[n + 1]
           raw == Append(call.raw, row)
           rows == Append(call.rows, Show(row))
           new == [call EXCEPT !.raw = raw, !.rows = rows]
<1>1. At("rows") /\ n < Len(call.served) /\ n < MaxRows /\ call' = new /\ table' = table
    BY DEF CollectRow, HasNext, Become
<1>2. /\ call \in CallType /\ call.pc = "rows" /\ call.answer = None
      /\ n \in Nat /\ Len(call.served) \in Nat /\ MaxRows \in Nat
    BY <1>1, AtRows DEF At
<1>3. /\ call.raw \in Seq(Row) /\ call.rows \in Seq(Row) /\ call.served \in Seq(Row)
      /\ Knows(call) /\ Collected(call)
    BY <1>2 DEF CallType, BrowseInv
<1>4. row \in Row /\ Show(row) \in Row
    BY <1>1, <1>2, <1>3, ElementOfSeq, ShowType
<1> HIDE DEF row
<1>5. /\ raw \in Seq(Row) /\ Len(raw) = n + 1
      /\ \A k \in 1..n : raw[k] = call.raw[k]
      /\ raw[n + 1] = row
    BY <1>3, <1>4, AppendProperties
<1>6. Len(call.rows) = n /\ \A k \in 1..n : call.rows[k] = Show(call.raw[k])
    BY <1>2, <1>3 DEF Collected
<1>7. /\ rows \in Seq(Row) /\ Len(rows) = n + 1
      /\ \A k \in 1..n : rows[k] = call.rows[k]
      /\ rows[n + 1] = Show(row)
    BY <1>3, <1>4, <1>6, AppendProperties
<1> HIDE DEF raw, rows
<1>8. /\ new \in CallType /\ new.pc = "rows" /\ new.answer = None /\ new.request = call.request
      /\ new.raw = raw /\ new.rows = rows /\ new.ordered = call.ordered /\ new.served = call.served
    BY <1>2, <1>5, <1>7 DEF CallType
<1> HIDE DEF new
<1>9. Knows(new) /\ new.answer # "ok"
    BY <1>2, <1>3, <1>8, BrowseAssumption DEF Knows
<1>10. Collected(new)
    <2>1. \A k \in 1..(n + 1) : raw[k] = call.served[k]
        BY <1>2, <1>3, <1>5 DEF Collected, row
    <2>2. \A k \in 1..(n + 1) : rows[k] = Show(raw[k])
        BY <1>2, <1>5, <1>6, <1>7
    <2>3. n + 1 <= Len(call.served) /\ n + 1 <= MaxRows
        BY <1>1, <1>2
    <2>4. QED
        BY <1>2, <1>3, <1>5, <1>7, <1>8, <2>1, <2>2, <2>3 DEF Collected
<1>11. QED
    BY <1>1, <1>8, <1>9, <1>10, NotAnswered DEF BrowseInv, TypeOK

\* How many rows come tells whether there are more: all that are left, one more
\* than the page has, or as many as collectRows takes.
LEMMA CountTells ==
    ASSUME BrowseInv, At("rows"), ~ HasNext \/ Len(call.raw) = MaxRows
    PROVE  LET limit == call.request.limit
               left == Len(call.ordered) - call.request.offset
               size == IF left <= 0 THEN 0 ELSE IF left <= limit THEN left ELSE limit
           IN  /\ MoreThanAsked <=> left > limit /\ limit < MaxRows
               /\ HasNext <=> left > limit /\ limit = MaxRows
               /\ IF MoreThanAsked THEN size = limit ELSE size = Len(call.raw)
<1> DEFINE limit == call.request.limit
           left == Len(call.ordered) - call.request.offset
           got == Len(call.raw)
           sent == Len(call.served)
<1>1. /\ limit \in Nat \ {0} /\ limit <= MaxRows /\ MaxRows \in Nat /\ left \in Int
      /\ got \in Nat /\ sent \in Nat
    BY AtRows
<1>2. got <= sent /\ got <= MaxRows /\ call.served = Slice(call.ordered, call.request.offset, limit + 1)
    BY DEF BrowseInv, Collected, At
<1>3. sent = IF left <= 0 THEN 0 ELSE IF left <= limit + 1 THEN left ELSE limit + 1
    <2>1. call.ordered \in Seq(Row) /\ call.request.offset \in Nat /\ limit + 1 \in Nat
        BY <1>1, AtRows DEF CallType
    <2> DEFINE count == limit + 1
    <2>2. count \in Nat /\ call.served = Slice(call.ordered, call.request.offset, count)
        BY <1>2, <2>1
    <2> HIDE DEF count
    <2>3. sent = IF left <= 0 THEN 0 ELSE IF left <= count THEN left ELSE count
        BY <2>1, <2>2, ServedProperties
    <2>4. QED
        BY <2>3 DEF count
<1>4. (HasNext <=> got < sent) /\ (MoreThanAsked <=> got > limit) /\ (got >= sent \/ got = MaxRows)
    BY <1>1 DEF HasNext, MoreThanAsked
<1> HIDE DEF limit, left, got, sent
<1>5. /\ got > limit <=> left > limit /\ limit < MaxRows
      /\ got < sent <=> left > limit /\ limit = MaxRows
      /\ got <= limit => got = IF left <= 0 THEN 0 ELSE IF left <= limit THEN left ELSE limit
    BY <1>1, <1>2, <1>3, <1>4
<1>6. QED
    BY <1>1, <1>4, <1>5 DEF limit, left, got

\* Cutting the row asked for in excess leaves the page.
LEMMA FinishKeeps ==
    ASSUME BrowseInv, Finish
    PROVE  BrowseInv'
<1> DEFINE limit == call.request.limit
           raw == Page(call.raw)
           rows == Page(call.rows)
           page == Slice(call.ordered, call.request.offset, limit)
           new == [call EXCEPT !.pc = "done", !.answer = "ok", !.truncated = HasNext,
                               !.hasMore = MoreThanAsked, !.raw = raw, !.rows = rows]
<1>1. At("rows") /\ (~ HasNext \/ Len(call.raw) = MaxRows) /\ call' = new /\ table' = table
    BY DEF Finish
<1>2. /\ call \in CallType /\ call.pc = "rows" /\ call.request \in Request
      /\ call.request.offset \in Nat /\ limit \in Nat /\ Len(call.raw) \in Nat
      /\ call.raw \in Seq(Row) /\ call.rows \in Seq(Row) /\ call.ordered \in Seq(Row)
      /\ Len(call.ordered) \in Nat /\ MaxRows \in Nat
    BY <1>1, AtRows DEF At, CallType
<1>3. /\ call.served = Slice(call.ordered, call.request.offset, limit + 1)
      /\ \A k \in 1..Len(call.raw) : call.raw[k] = call.served[k]
      /\ Len(call.rows) = Len(call.raw) /\ Len(call.raw) <= Len(call.served)
      /\ \A k \in 1..Len(call.raw) : call.rows[k] = Show(call.raw[k])
    BY <1>2 DEF BrowseInv, Collected
<1>4. /\ page \in Seq(Row) /\ Len(page) \in Nat
      /\ Len(page) = IF MoreThanAsked THEN limit ELSE Len(call.raw)
      /\ \A k \in 1..Len(page) : page[k] = call.ordered[call.request.offset + k]
    <2> DEFINE count == limit
    <2>1. count \in Nat /\ page = Slice(call.ordered, call.request.offset, count)
        BY <1>2
    <2> HIDE DEF page, count
    <2>2. /\ page \in Seq(Row)
          /\ Len(page) = IF Len(call.ordered) - call.request.offset <= 0 THEN 0
                         ELSE IF Len(call.ordered) - call.request.offset <= count
                              THEN Len(call.ordered) - call.request.offset ELSE count
          /\ \A k \in 1..Len(page) : page[k] = call.ordered[call.request.offset + k]
        BY <1>2, <2>1, ServedProperties
    <2>3. /\ page \in Seq(Row)
          /\ Len(page) = IF Len(call.ordered) - call.request.offset <= 0 THEN 0
                         ELSE IF Len(call.ordered) - call.request.offset <= limit
                              THEN Len(call.ordered) - call.request.offset ELSE limit
          /\ \A k \in 1..Len(page) : page[k] = call.ordered[call.request.offset + k]
        BY <2>2 DEF count
    <2>4. Len(page) = IF MoreThanAsked THEN limit ELSE Len(call.raw)
        BY <1>1, <2>3, CountTells
    <2>5. QED
        BY <2>3, <2>4, LenProperties
<1>5. Len(page) <= Len(call.raw)
    BY <1>2, <1>4 DEF MoreThanAsked
<1>6. \A seq \in Seq(Row) : Len(seq) = Len(call.raw) =>
          /\ Page(seq) \in Seq(Row) /\ Len(Page(seq)) = Len(page)
          /\ \A k \in 1..Len(page) : Page(seq)[k] = seq[k]
    <2>1. TAKE seq \in Seq(Row)
    <2>2. HAVE Len(seq) = Len(call.raw)
    <2>3. CASE MoreThanAsked
        <3>1. Page(seq) = SubSeq(seq, 1, limit) /\ limit <= Len(seq) /\ Len(page) = limit
            BY <1>2, <1>4, <2>2, <2>3 DEF Page, MoreThanAsked
        <3>2. \A i \in 1..limit : seq[i] \in Row
            BY <1>2, <3>1, ElementOfSeq
        <3>3. /\ SubSeq(seq, 1, limit) \in Seq(Row)
              /\ Len(SubSeq(seq, 1, limit)) = IF 1 <= limit THEN limit - 1 + 1 ELSE 0
              /\ \A i \in 1..(limit - 1 + 1) : SubSeq(seq, 1, limit)[i] = seq[1 + i - 1]
            BY <1>2, <3>2, SubSeqProperties
        <3> HIDE DEF limit, page
        <3>4. QED
            BY <1>2, <3>1, <3>3
    <2>4. CASE ~ MoreThanAsked
        BY <1>4, <2>2, <2>4 DEF Page
    <2>5. QED
        BY <2>3, <2>4
<1>7. /\ raw \in Seq(Row) /\ Len(raw) = Len(page) /\ \A k \in 1..Len(page) : raw[k] = call.raw[k]
      /\ rows \in Seq(Row) /\ Len(rows) = Len(page) /\ \A k \in 1..Len(page) : rows[k] = call.rows[k]
    BY <1>2, <1>3, <1>6
<1> HIDE DEF raw, rows
<1>8. raw = page
    <2>1. Len(call.served) \in Nat /\ limit + 1 \in Nat
        BY <1>1, <1>2, AtRows
    <2> DEFINE count == limit + 1
    <2>2. count \in Nat /\ call.served = Slice(call.ordered, call.request.offset, count)
        BY <1>3, <2>1
    <2> HIDE DEF count
    <2>3. \A k \in 1..Len(call.served) : call.served[k] = call.ordered[call.request.offset + k]
        BY <1>2, <2>2, ServedProperties
    <2> HIDE DEF page
    <2>4. \A k \in 1..Len(page) : raw[k] = page[k]
        BY <1>2, <1>3, <1>4, <1>5, <1>7, <2>1, <2>3
    <2>5. QED
        BY <1>4, <1>7, <2>4, SeqEqual
<1>9. rows = [k \in DOMAIN raw |-> Show(raw[k])]
    <2> HIDE DEF page
    <2>1. DOMAIN rows = DOMAIN raw /\ DOMAIN raw = 1..Len(page) /\ rows \in [1..Len(page) -> Row]
        BY <1>7, LenProperties
    <2>2. \A k \in 1..Len(page) : rows[k] = Show(raw[k])
        BY <1>2, <1>3, <1>4, <1>5, <1>7
    <2>3. QED
        BY <2>1, <2>2
<1>10. MoreThanAsked \in BOOLEAN /\ HasNext \in BOOLEAN
    BY DEF MoreThanAsked, HasNext
<1>11. /\ new \in CallType /\ new.pc = "done" /\ new.answer = "ok" /\ new.request = call.request
       /\ new.raw = raw /\ new.rows = rows /\ new.ordered = call.ordered
       /\ new.hasMore = MoreThanAsked /\ new.truncated = HasNext
    BY <1>2, <1>7, <1>10 DEF CallType, Places
<1> HIDE DEF new, page
<1>12. Knows(new) /\ Collected(new)
    BY <1>2, <1>11, BrowseAssumption DEF Knows, Collected
<1>13. PageIsExact'
    BY <1>1, <1>8, <1>9, <1>11 DEF PageIsExact, Answered, page, Show
<1>14. MoreIsTold'
    <2>1. /\ MoreThanAsked <=> Len(call.ordered) - call.request.offset > limit /\ limit < MaxRows
          /\ HasNext <=> Len(call.ordered) - call.request.offset > limit /\ limit = MaxRows
        BY <1>1, CountTells
    <2>2. Len(call.ordered) - call.request.offset > limit
              <=> Len(call.ordered) > call.request.offset + limit
        BY <1>2
    <2>3. QED
        BY <1>1, <1>11, <2>1, <2>2 DEF MoreIsTold, Answered
<1>15. QED
    BY <1>1, <1>11, <1>12, <1>13, <1>14 DEF BrowseInv, TypeOK

\* The call does not see what others write.
LEMMA WriteKeeps ==
    ASSUME BrowseInv, call' = call, table' \in Tables
    PROVE  BrowseInv'
    BY DEF BrowseInv, TypeOK, Knows, Collected, PageIsExact, MoreIsTold, Answered, At, RangeOk, Show

\* One case for each action.
LEMMA NextInv == BrowseInv /\ [Next]_vars => BrowseInv'
<1> SUFFICES ASSUME BrowseInv, [Next]_vars PROVE BrowseInv'
    OBVIOUS
<1>1. ASSUME NEW r \in Requests, Ask(r)
      PROVE  BrowseInv'
    <2>1. r \in Request /\ r.offset \in Int
        BY BrowseAssumption DEF Request
    <2>2. QED
        BY <1>1, <2>1, StartKeeps DEF Ask
<1>2. CASE TurnPage
    <2>1. call \in CallType /\ call.request \in Request
        BY <1>2 DEF TurnPage, At, BrowseInv, TypeOK, Knows
    <2>2. call.request.offset + call.request.limit \in Int /\ call.first \in Int
        BY <2>1 DEF Request, CallType
    <2> DEFINE offset == call.request.offset + call.request.limit
    <2> HIDE DEF offset
    <2>3. [call.request EXCEPT !.offset = offset] \in Request
        BY <2>1, <2>2 DEF Request, offset
    <2>4. [call.request EXCEPT !.offset = @ + call.request.limit] \in Request
        BY <2>3 DEF offset
    <2>5. QED
        BY <1>2, <2>2, <2>4, StartKeeps DEF TurnPage
<1>3. CASE BindValue
    <2>1. AtFilter /\ Filter.operator \in STRING /\ Filter.value \in Arguments
        BY <1>3, FilterType DEF BindValue, Arguments
    <2>2. QED
        BY <1>3, <2>1, BoundKeeps DEF BindValue
<1>4. CASE BindPattern
    <2>1. AtFilter /\ globToLike(Filter.value) \in Arguments
        BY <1>4, FilterType DEF BindPattern, Arguments
    <2> DEFINE operator == IF Filter.operator = "PATTERN" THEN "LIKE" ELSE "NOT LIKE"
    <2>2. operator \in Likes
        BY DEF Likes
    <2>3. QED
        BY <1>4, <2>1, <2>2, BoundKeeps DEF BindPattern
<1>5. CASE RejectFilter \/ Fail
    BY <1>5, AnswerKeeps DEF RejectFilter, Fail, AtFilter, At
<1>6. CASE Write \/ UNCHANGED vars
    BY <1>6, WriteKeeps DEF Write, vars, BrowseInv, TypeOK
<1>7. QED
    BY <1>1, <1>2, <1>3, <1>4, <1>5, <1>6, TestNullKeeps, SendKeeps, QueryKeeps, CollectKeeps,
       FinishKeeps DEF Next

\* The inductive invariant holds in every state.
LEMMA Invariance == Spec => []BrowseInv
<1>1. QED
    BY InitInv, NextInv, PTL DEF Spec

\* Every page is the `limit' rows after the first `offset' of those selected, each
\* displayed row beside its own raw row (BrowseTable, collectRows).
THEOREM PagesExact == Spec => []PageIsExact
<1>1. BrowseInv => PageIsExact
    BY DEF BrowseInv
<1>2. QED
    BY <1>1, Invariance, PTL

\* HasMore or Truncated tells of more rows, and neither does without them
\* (BrowseTable asks for one row more than the limit).
THEOREM MoreTold == Spec => []MoreIsTold
<1>1. BrowseInv => MoreIsTold
    BY DEF BrowseInv
<1>2. QED
    BY <1>1, Invariance, PTL

-----------------------------------------------------------------------------
(***************************************************************************)
(* Patterns: what globToLike makes of a pattern, LIKE takes for what the   *)
(* pattern means.                                                          *)
(***************************************************************************)

\* The characters that mean something in patterns, by name.
Star == "*"
Mark == "?"
Percent == "%"
Underscore == "_"
Escape == "\\"

Characters == STRING \cup {Percent, Underscore, Escape}

\* The special characters are different characters.
LEMMA Wildcards ==
    Star # Mark /\ Percent # Underscore /\ Percent # Escape /\ Underscore # Escape
BY Zenon DEF Star, Mark, Percent, Underscore, Escape

\* What globToLike writes for each character.
LEMMA LikeForCases ==
    ASSUME NEW c
    PROVE  /\ c = Star => LikeFor(c) = <<Percent>>
           /\ c = Mark => LikeFor(c) = <<Underscore>>
           /\ c \in {Escape, Percent, Underscore} => LikeFor(c) = <<Escape, c>>
           /\ c \notin {Star, Mark, Escape, Percent, Underscore} => LikeFor(c) = <<c>>
<1> USE DEF Star, Mark, Percent, Underscore, Escape, LikeFor
<1>1. c = Star => LikeFor(c) = <<Percent>>
  BY Zenon
<1>2. c = Mark => LikeFor(c) = <<Underscore>>
  BY Zenon
<1>3. c \in {Escape, Percent, Underscore} => LikeFor(c) = <<Escape, c>>
  BY Zenon
<1>4. c \notin {Star, Mark, Escape, Percent, Underscore} => LikeFor(c) = <<c>>
  BY Zenon
<1> QED BY ONLY <1>1, <1>2, <1>3, <1>4, Zenon

\* They are one or two characters.
LEMMA LikeForType ==
    ASSUME NEW c \in Characters
    PROVE  LikeFor(c) \in Seq(Characters) /\ Len(LikeFor(c)) \in 1..2
<1>1. Percent \in Characters /\ Underscore \in Characters /\ Escape \in Characters
  BY DEF Characters
<1>2. CASE c = Star
  <2>1. LikeFor(c) = <<Percent>>
    BY <1>2, LikeForCases
  <2> QED BY <1>1, <2>1
<1>3. CASE c = Mark
  <2>1. LikeFor(c) = <<Underscore>>
    BY <1>3, LikeForCases
  <2> QED BY <1>1, <2>1
<1>4. CASE c \in {Escape, Percent, Underscore}
  <2>1. LikeFor(c) = <<Escape, c>>
    BY <1>4, LikeForCases
  <2> QED BY <1>1, <2>1
<1>5. CASE c \notin {Star, Mark, Escape, Percent, Underscore}
  <2>1. LikeFor(c) = <<c>>
    BY <1>5, LikeForCases
  <2> QED BY <2>1
<1> QED BY <1>2, <1>3, <1>4, <1>5

\* The recursion of globToLike: each character's part is put after the parts before.
LEMMA LikeParts ==
    ASSUME NEW p \in Seq(Characters)
    PROVE  \E like \in [0..Len(p) -> Seq(Characters)] :
              /\ globToLike(p) = like[Len(p)]
              /\ like[0] = <<>>
              /\ \A k \in 1..Len(p) : like[k] = like[k - 1] \o LikeFor(p[k])
<1> DEFINE n == Len(p)
           S == 0..n
           V == Seq(Characters)
           Body(f, k) == IF k = 0 THEN <<>> ELSE f[k - 1] \o LikeFor(p[k])
           rank == [k \in S |-> k]
           Step == [z \in S \X [S -> V] |-> Body(z[2], z[1])]
           like == CHOOSE f : f = [k \in S |-> Body(f, k)]
<1>1. n \in Nat
  OBVIOUS
<1>2. ASSUME NEW k \in S, NEW f \in [S -> V]
      PROVE  Body(f, k) \in V
  <2>1. CASE k = 0
    BY <2>1
  <2>2. CASE k # 0
    <3>1. k \in 1..n /\ k - 1 \in S
      BY <1>1, <2>2
    <3>2. LikeFor(p[k]) \in V
      BY <3>1, LikeForType, ElementOfSeq
    <3>3. f[k - 1] \in V
      BY <3>1
    <3> QED BY <2>2, <3>2, <3>3
  <2> QED BY <2>1, <2>2
<1>3. ASSUME NEW k \in S, NEW f \in [S -> V], NEW g \in [S -> V],
             \A y \in S : y < k => f[y] = g[y]
      PROVE  Body(f, k) = Body(g, k)
  BY <1>1, <1>3
<1>4. \A f : globToLike(p) = like[n]
  BY DEF globToLike
<1> HIDE DEF Body, V
<1>5. Step \in [S \X [S -> V] -> V]
  BY <1>2
<1>6. MadeOfLower(Step, S, V, rank)
  BY <1>3 DEF MadeOfLower
<1>7. rank \in [S -> 0..n]
  BY <1>1
<1>8. V # {}
  BY DEF V
<1>9. PICK f \in [S -> V] : Solves(f, Step, S)
  <2> HIDE DEF S, rank, Step, n
  <2> QED BY <1>1, <1>5, <1>6, <1>7, <1>8, RecursiveFunction, Zenon
<1>10. f = [k \in S |-> Body(f, k)]
  BY <1>9 DEF Solves
<1>11. like = [k \in S |-> Body(like, k)]
  BY <1>10
<1> HIDE DEF like
<1>12. \A k \in S : like[k] = Body(like, k)
  BY <1>11
<1>13. \A k \in S : like[k] = f[k]
  <2> DEFINE T == {k \in Nat : k \in S => like[k] = f[k]}
  <2>1. 0 \in T
    BY <1>1, <1>10, <1>12 DEF Body
  <2>2. ASSUME NEW k \in T
        PROVE  k + 1 \in T
    <3>1. SUFFICES ASSUME k + 1 \in S PROVE like[k + 1] = f[k + 1]
      OBVIOUS
    <3>2. k \in Nat /\ k \in S /\ (k + 1) - 1 = k /\ k + 1 # 0
      BY <1>1, <3>1
    <3>3. like[k] = f[k]
      BY <3>2
    <3> QED BY <1>10, <1>12, <3>1, <3>2, <3>3 DEF Body
  <2>3. T = Nat
    <3>1. T \in SUBSET Nat
      OBVIOUS
    <3> HIDE DEF T
    <3> QED BY <2>1, <2>2, <3>1, SetInduction
  <2> QED BY <1>1, <2>3
<1>14. like = f
  BY <1>10, <1>11, <1>13
<1>15. like[0] = <<>>
  BY <1>1, <1>12 DEF Body
<1>16. \A k \in 1..n : like[k] = like[k - 1] \o LikeFor(p[k])
  <2> TAKE k \in 1..n
  <2>1. k \in S /\ k # 0
    BY <1>1
  <2> HIDE DEF S
  <2> QED BY <1>12, <2>1 DEF Body
<1>17. like \in [S -> Seq(Characters)]
  BY <1>9, <1>14 DEF V
<1> QED BY <1>4, <1>15, <1>16, <1>17

\* Where a text may begin that the pattern q matches from its i-th character on,
\* from where it may begin for the rest after one character and after two.
Begins(q, t, i, one, two) ==
    {j \in 1..(Len(t) + 1) :
        IF i > Len(q) THEN i = Len(q) + 1 /\ j = Len(t) + 1
        ELSE CASE q[i] = Percent -> \E k \in one : j <= k
               [] q[i] = Underscore -> j + 1 \in one
               [] q[i] = Escape -> i < Len(q) /\ (j <= Len(t) /\ q[i + 1] = t[j]) /\ j + 1 \in two
               [] OTHER -> (j <= Len(t) /\ q[i] = t[j]) /\ j + 1 \in one}

\* These places, for every part of the pattern.
AllBegins(f, q, t) ==
    /\ f \in [1..(Len(q) + 2) -> SUBSET (1..(Len(t) + 1))]
    /\ \A i \in 1..(Len(q) + 2) : f[i] = Begins(q, t, i, f[i + 1], f[i + 2])

\* A part stands in a pattern, behind some characters.
Stands(part, q, before) ==
    before + Len(part) <= Len(q) /\ \A i \in 1..Len(part) : q[before + i] = part[i]

\* Each kind of character by itself.
LEMMA BeginsCases ==
    ASSUME NEW q, NEW t, NEW i \in 1..Len(q), NEW one, NEW two,
           NEW j \in 1..(Len(t) + 1), Len(q) \in Nat
    PROVE  /\ q[i] = Percent => (j \in Begins(q, t, i, one, two) <=> \E k \in one : j <= k)
           /\ q[i] = Underscore => (j \in Begins(q, t, i, one, two) <=> j + 1 \in one)
           /\ q[i] = Escape =>
                 (j \in Begins(q, t, i, one, two) <=>
                    i < Len(q) /\ (j <= Len(t) /\ q[i + 1] = t[j]) /\ j + 1 \in two)
           /\ q[i] \notin {Percent, Underscore, Escape} =>
                 (j \in Begins(q, t, i, one, two) <=>
                    (j <= Len(t) /\ q[i] = t[j]) /\ j + 1 \in one)
<1>1. ~ (i > Len(q))
  OBVIOUS
<1> QED BY <1>1, Wildcards DEF Begins

\* The recursion of LIKE.
LEMMA LikeBegins ==
    ASSUME NEW q, Len(q) \in Nat, NEW t, Len(t) \in Nat
    PROVE  \E f : AllBegins(f, q, t) /\ (Like(q, t) <=> 1 \in f[1])
<1> DEFINE n == Len(q)
           S == 1..(n + 2)
           V == SUBSET (1..(Len(t) + 1))
           Body(f, i) == Begins(q, t, i, f[i + 1], f[i + 2])
           rank == [i \in S |-> (n + 2) - i]
           Step == [z \in S \X [S -> V] |-> Body(z[2], z[1])]
           begins == CHOOSE f : f = [i \in S |-> Body(f, i)]
<1>1. n \in Nat
  OBVIOUS
<1>2. \A i, f : Body(f, i) \in V
  BY DEF Begins
<1>3. ASSUME NEW i \in S, NEW f \in [S -> V], NEW g \in [S -> V],
             \A y \in S : (n + 2) - y < (n + 2) - i => f[y] = g[y]
      PROVE  Body(f, i) = Body(g, i)
  <2>1. CASE i > n
    <3>1. \A one, two : Begins(q, t, i, one, two) =
             {j \in 1..(Len(t) + 1) : i = n + 1 /\ j = Len(t) + 1}
      BY <2>1 DEF Begins
    <3> QED BY <3>1, Zenon
  <2>2. CASE ~ (i > n)
    <3>1. i + 1 \in S /\ i + 2 \in S
      BY <1>1, <2>2
    <3>2. f[i + 1] = g[i + 1] /\ f[i + 2] = g[i + 2]
      <4>1. (n + 2) - (i + 1) < (n + 2) - i /\ (n + 2) - (i + 2) < (n + 2) - i
        BY <1>1
      <4> HIDE DEF S, V
      <4> QED BY <1>3, <3>1, <4>1
    <3> HIDE DEF S, V, n
    <3> QED BY <3>2, Zenon
  <2> QED BY <2>1, <2>2
<1>4. Like(q, t) <=> 1 \in begins[1]
  BY Zenon DEF Like, Begins, Percent, Underscore, Escape
<1> HIDE DEF Body, V
<1>5. Step \in [S \X [S -> V] -> V]
  BY <1>2
<1>6. MadeOfLower(Step, S, V, rank)
  BY <1>3 DEF MadeOfLower
<1>7. rank \in [S -> 0..(n + 2)] /\ n + 2 \in Nat
  BY <1>1
<1>8. V # {}
  BY DEF V
<1>9. PICK f \in [S -> V] : Solves(f, Step, S)
  <2> DEFINE N == n + 2
  <2>1. rank \in [S -> 0..N] /\ N \in Nat
    BY <1>7
  <2> HIDE DEF S, rank, Step, N
  <2> QED BY <1>5, <1>6, <1>8, <2>1, RecursiveFunction, Zenon
<1>10. f = [i \in S |-> Body(f, i)]
  BY <1>9 DEF Solves
<1>11. begins = [i \in S |-> Body(begins, i)]
  BY <1>10
<1> HIDE DEF begins
<1>12. \A i \in S : begins[i] = Body(begins, i)
  BY <1>11
<1>13. begins \in [S -> V]
  BY <1>2, <1>11
<1>14. AllBegins(begins, q, t)
  BY <1>12, <1>13 DEF AllBegins, Body, V
<1> QED BY <1>4, <1>14

\* What the k-th character of a pattern means for a cut.
Piece(p, t, k, a, b) ==
    IF p[k] = Star THEN b >= a ELSE b = a + 1 /\ (p[k] # Mark => t[b] = p[k])

\* A text from a place on is cut into pieces for the pattern's characters from k on.
Cuts(p, t, k, a, cut) ==
    /\ cut[k] = a /\ cut[Len(p)] = Len(t)
    /\ \A i \in (k + 1)..Len(p) : Piece(p, t, i, cut[i - 1], cut[i])

\* Where globToLike has put the part for a character: it is still there at the end.
LEMMA PartsStay ==
    ASSUME NEW p \in Seq(STRING), NEW like \in [0..Len(p) -> Seq(Characters)],
           like[0] = <<>>,
           \A k \in 1..Len(p) : like[k] = like[k - 1] \o LikeFor(p[k]),
           NEW k \in 0..Len(p)
    PROVE  /\ Len(like[k]) <= Len(like[Len(p)])
           /\ \A i \in 1..Len(like[k]) : like[Len(p)][i] = like[k][i]
<1> DEFINE n == Len(p)
           Stays(m) == \A j \in 0..m :
                          /\ Len(like[j]) <= Len(like[m])
                          /\ \A i \in 1..Len(like[j]) : like[m][i] = like[j][i]
           T == {m \in Nat : m <= n => Stays(m)}
<1>1. n \in Nat
  OBVIOUS
<1>2. 0 \in T
  OBVIOUS
<1>3. ASSUME NEW m \in T
      PROVE  m + 1 \in T
  <2>1. SUFFICES ASSUME m + 1 <= n PROVE Stays(m + 1)
    OBVIOUS
  <2>2. m \in Nat /\ m \in 0..n /\ m + 1 \in 1..n /\ (m + 1) - 1 = m
    BY <1>1, <2>1
  <2>3. Stays(m)
    BY <2>2
  <2>4. like[m + 1] = like[m] \o LikeFor(p[m + 1])
    BY <2>2
  <2> DEFINE a == like[m]
             b == LikeFor(p[m + 1])
             ab == a \o b
  <2>5. a \in Seq(Characters) /\ b \in Seq(Characters)
    <3>1. p[m + 1] \in Characters
      BY <2>2, ElementOfSeq DEF Characters
    <3> QED BY <2>2, <3>1, LikeForType
  <2>6. /\ Len(a) \in Nat /\ Len(a) <= Len(ab)
        /\ \A i \in 1..Len(a) : ab[i] = a[i]
    <3> HIDE DEF a, b
    <3> QED BY <2>5, ConcatProperties
  <2>7. like[m + 1] = ab
    BY <2>4
  <2>8. ASSUME NEW j \in 0..(m + 1)
        PROVE  /\ Len(like[j]) <= Len(like[m + 1])
               /\ \A i \in 1..Len(like[j]) : like[m + 1][i] = like[j][i]
    <3>1. CASE j = m + 1
      <4>1. like[m + 1] \in Seq(Characters)
        BY <2>2
      <4>2. Len(like[m + 1]) \in Nat
        BY <4>1, LenProperties
      <4> QED BY <3>1, <4>2
    <3>2. CASE j # m + 1
      <4>1. j \in 0..m /\ j \in 0..n
        BY <2>2, <3>2
      <4>2. Len(like[j]) \in Nat
        BY <4>1, LenProperties
      <4>3. /\ Len(like[j]) <= Len(a)
            /\ \A i \in 1..Len(like[j]) : a[i] = like[j][i]
        BY <2>3, <4>1
      <4>4. /\ Len(like[j]) <= Len(ab)
            /\ \A i \in 1..Len(like[j]) : ab[i] = like[j][i]
        <5> HIDE DEF a, b, ab
        <5> QED BY <2>6, <4>2, <4>3
      <4> QED BY <2>7, <4>4
    <3> QED BY <3>1, <3>2
  <2> QED BY <2>8
<1>4. T = Nat
  <2>1. T \in SUBSET Nat
    OBVIOUS
  <2> HIDE DEF T
  <2> QED BY <1>2, <1>3, <2>1, SetInduction
<1>5. Stays(n)
  BY <1>1, <1>4
<1> QED BY <1>5

\* The text may begin at one place of f just if a piece leads to the other.
Leads(p, t, k, a, f, from, to) ==
    a + 1 \in f[from] <=> \E b \in 0..Len(t) : Piece(p, t, k, a, b) /\ b + 1 \in f[to]

\* Where the rest of the text may begin for a character's part and what follows.
LEMMA BeginsPiece ==
    ASSUME NEW p \in Seq(STRING), NEW t \in Seq(STRING),
           NEW k \in 1..Len(p), NEW before \in Nat, NEW q \in Seq(Characters),
           NEW part, part = LikeFor(p[k]), Stands(part, q, before),
           NEW f, AllBegins(f, q, t),
           NEW a \in 0..Len(t)
    PROVE  Leads(p, t, k, a, f, before + 1, before + Len(part) + 1)
<1> USE DEF AllBegins, Stands, Leads
<1> DEFINE c == p[k]
           i == before + 1
           j == a + 1
           m == Len(t)
<1>1. /\ m \in Nat /\ Len(q) \in Nat /\ c \in Characters
      /\ part \in Seq(Characters) /\ Len(part) \in 1..2
  <2>1. c \in Characters
    BY ElementOfSeq DEF Characters
  <2> QED BY <2>1, LikeForType
<1>2. /\ i \in 1..Len(q) /\ q[i] = part[1] /\ j \in 1..(m + 1)
  <2>1. i \in 1..Len(q) /\ j \in 1..(m + 1) /\ 1 \in 1..Len(part)
    <3>1. before + Len(part) <= Len(q)
      OBVIOUS
    <3>2. 1 \in 1..Len(part) /\ Len(part) \in Nat /\ 1 <= Len(part)
      <4>1. \A x \in 1..2 : 1 \in 1..x /\ x \in Nat /\ 1 <= x
        OBVIOUS
      <4>2. Len(part) \in 1..2
        BY <1>1
      <4> QED BY <4>1, <4>2, Zenon
    <3>3. j \in 1..(m + 1)
      BY <1>1
    <3> HIDE DEF m, j
    <3> QED BY <1>1, <3>1, <3>2, <3>3
  <2>2. q[before + 1] = part[1]
    BY <2>1
  <2> QED BY <2>1, <2>2
<1>3. f[i] = Begins(q, t, i, f[i + 1], f[i + 2])
  <2>1. i \in 1..(Len(q) + 2)
    <3> HIDE DEF i
    <3> QED BY <1>1, <1>2
  <2> HIDE DEF i
  <2> QED BY <2>1
<1>4. /\ f[i + 1] \subseteq 1..(m + 1)
      /\ f[i + 2] \subseteq 1..(m + 1)
  <2>1. i + 1 \in 1..(Len(q) + 2) /\ i + 2 \in 1..(Len(q) + 2)
    <3> HIDE DEF i
    <3> QED BY <1>1, <1>2
  <2> HIDE DEF i, m
  <2> QED BY <2>1 DEF m
<1>5. /\ q[i] = Percent => (j \in f[i] <=> \E e \in f[i + 1] : j <= e)
      /\ q[i] = Underscore => (j \in f[i] <=> j + 1 \in f[i + 1])
      /\ q[i] = Escape =>
            (j \in f[i] <=> i < Len(q) /\ (j <= m /\ q[i + 1] = t[j]) /\ j + 1 \in f[i + 2])
      /\ q[i] \notin {Percent, Underscore, Escape} =>
            (j \in f[i] <=> (j <= m /\ q[i] = t[j]) /\ j + 1 \in f[i + 1])
  <2> DEFINE one == f[i + 1]
             two == f[i + 2]
  <2>1. f[i] = Begins(q, t, i, one, two)
    BY <1>3
  <2> HIDE DEF i, j, one, two
  <2>2. i \in 1..Len(q) /\ j \in 1..(Len(t) + 1) /\ Len(q) \in Nat
    BY <1>1, <1>2
  <2>3. /\ q[i] = Percent => (j \in Begins(q, t, i, one, two) <=> \E e \in one : j <= e)
        /\ q[i] = Underscore => (j \in Begins(q, t, i, one, two) <=> j + 1 \in one)
        /\ q[i] = Escape =>
              (j \in Begins(q, t, i, one, two) <=>
                 i < Len(q) /\ (j <= Len(t) /\ q[i + 1] = t[j]) /\ j + 1 \in two)
        /\ q[i] \notin {Percent, Underscore, Escape} =>
              (j \in Begins(q, t, i, one, two) <=> (j <= Len(t) /\ q[i] = t[j]) /\ j + 1 \in one)
    BY <2>2, BeginsCases
  <2> QED BY <2>1, <2>3 DEF one, two
<1>6. \A b \in 0..m : (b = a + 1 <=> b = j) /\ b + 1 \in 1..(m + 1)
  BY <1>1
<1> DEFINE Goal == \E b \in 0..m : Piece(p, t, k, a, b) /\ b + 1 \in f[before + Len(part) + 1]
<1>7. CASE c = Star
  <2>1. part = <<Percent>>
    BY <1>7, LikeForCases
  <2>2. q[i] = Percent /\ before + Len(part) + 1 = i + 1
    BY <1>2, <2>1
  <2>3. j \in f[i] <=> \E e \in f[i + 1] : j <= e
    BY <1>5, <2>2
  <2>4. \A b : Piece(p, t, k, a, b) <=> b >= a
    BY <1>7 DEF Piece
  <2>5. (\E e \in f[i + 1] : j <= e) <=> \E b \in 0..m : b >= a /\ b + 1 \in f[i + 1]
    <3>1. ASSUME NEW e \in f[i + 1], j <= e
          PROVE  \E b \in 0..m : b >= a /\ b + 1 \in f[i + 1]
      <4>1. e \in 1..(m + 1) /\ e - 1 \in 0..m /\ e - 1 >= a /\ (e - 1) + 1 = e
        BY <1>1, <1>4, <3>1
      <4> QED BY <4>1
    <3>2. ASSUME NEW b \in 0..m, b >= a, b + 1 \in f[i + 1]
          PROVE  \E e \in f[i + 1] : j <= e
      <4>1. j <= b + 1
        BY <1>1, <3>2
      <4> QED BY <3>2, <4>1
    <3> QED BY <3>1, <3>2
  <2> QED BY <2>2, <2>3, <2>4, <2>5
<1>8. CASE c = Mark
  <2>1. part = <<Underscore>>
    BY <1>8, LikeForCases
  <2>2. q[i] = Underscore /\ before + Len(part) + 1 = i + 1
    BY <1>2, <2>1
  <2>3. j \in f[i] <=> j + 1 \in f[i + 1]
    BY <1>5, <2>2, Wildcards
  <2>4. \A b : Piece(p, t, k, a, b) <=> b = a + 1
    BY <1>8, Wildcards DEF Piece
  <2>5. j + 1 \in f[i + 1] => j \in 0..m
    BY <1>1, <1>4
  <2> QED BY <2>2, <2>3, <2>4, <2>5
<1>9. CASE c \in {Escape, Percent, Underscore}
  <2>1. part = <<Escape, c>>
    BY <1>9, LikeForCases
  <2>2. /\ q[i] = Escape /\ q[i + 1] = c /\ i < Len(q)
        /\ before + Len(part) + 1 = i + 2
    BY <1>1, <1>2, <2>1
  <2>3. j \in f[i] <=> j <= m /\ c = t[j] /\ j + 1 \in f[i + 2]
    BY <1>5, <2>2, Wildcards
  <2>4. c # Star /\ c # Mark
    BY <1>9, Zenon DEF Star, Mark, Escape, Percent, Underscore
  <2>5. \A b : Piece(p, t, k, a, b) <=> b = a + 1 /\ t[b] = c
    BY <2>4 DEF Piece
  <2>6. j \in 0..m <=> j <= m
    BY <1>1
  <2> QED BY <2>2, <2>3, <2>5, <2>6
<1>10. CASE c \notin {Star, Mark, Escape, Percent, Underscore}
  <2>1. part = <<c>>
    BY <1>10, LikeForCases
  <2>2. q[i] = c /\ before + Len(part) + 1 = i + 1
    BY <1>2, <2>1
  <2>3. j \in f[i] <=> j <= m /\ c = t[j] /\ j + 1 \in f[i + 1]
    BY <1>5, <1>10, <2>2
  <2>4. \A b : Piece(p, t, k, a, b) <=> b = a + 1 /\ t[b] = c
    BY <1>10 DEF Piece
  <2>5. j \in 0..m <=> j <= m
    BY <1>1
  <2> QED BY <2>2, <2>3, <2>4, <2>5
<1> QED BY <1>7, <1>8, <1>9, <1>10

\* LIKE, given what globToLike makes of a pattern, finds the texts that the
\* pattern means, whatever wildcards of the other kind it contains.
THEOREM GlobsBecomeLikes ==
    ASSUME NEW p \in Seq(STRING), NEW t \in Seq(STRING)
    PROVE  Like(globToLike(p), t) <=> Glob(p, t)
<1> DEFINE n == Len(p)
           m == Len(t)
           q == globToLike(p)
<1>1. n \in Nat /\ m \in Nat
  OBVIOUS
<1>2. PICK like \in [0..n -> Seq(Characters)] :
         /\ q = like[n]
         /\ like[0] = <<>>
         /\ \A k \in 1..n : like[k] = like[k - 1] \o LikeFor(p[k])
  <2>1. p \in Seq(Characters)
    BY DEF Characters
  <2> QED BY <2>1, LikeParts
<1> DEFINE off(k) == Len(like[k])
<1> HIDE DEF q
<1>3. q \in Seq(Characters) /\ Len(q) \in Nat /\ Len(q) = off(n)
  BY <1>1, <1>2
<1>4. PICK f : AllBegins(f, q, t) /\ (Like(q, t) <=> 1 \in f[1])
  BY <1>1, <1>3, LikeBegins
<1>5. ASSUME NEW k \in 1..n, NEW a \in 0..m
      PROVE  a + 1 \in f[off(k - 1) + 1] <=>
                \E b \in 0..m : Piece(p, t, k, a, b) /\ b + 1 \in f[off(k) + 1]
  <2> DEFINE part == LikeFor(p[k])
             before == off(k - 1)
             x == like[k - 1]
             y == like[k]
  <2>1. /\ k \in 0..n /\ k - 1 \in 0..n /\ p[k] \in Characters
    BY <1>1, ElementOfSeq DEF Characters
  <2>2. x \in Seq(Characters) /\ part \in Seq(Characters) /\ y = x \o part
    BY <1>2, <2>1, LikeForType
  <2>3. /\ before \in Nat /\ Len(part) \in Nat /\ Len(y) = before + Len(part)
        /\ \A i \in 1..Len(part) : y[before + i] = part[i]
    <3>1. before = Len(x)
      OBVIOUS
    <3> HIDE DEF x, y, part, before
    <3> QED BY <2>2, <3>1, ConcatProperties
  <2>4. /\ Len(y) <= Len(q)
        /\ \A i \in 1..Len(y) : q[i] = y[i]
    BY <1>2, <2>1, PartsStay
  <2>5. /\ before + Len(part) <= Len(q)
        /\ \A i \in 1..Len(part) : q[before + i] = part[i]
    <3> HIDE DEF x, y, part, before
    <3>1. before + Len(part) <= Len(q)
      BY <2>3, <2>4
    <3>2. ASSUME NEW i \in 1..Len(part)
          PROVE  q[before + i] = part[i]
      <4>1. before + i \in 1..Len(y)
        BY <2>3
      <4> QED BY <2>3, <2>4, <4>1
    <3> QED BY <3>1, <3>2
  <2>6. off(k) = before + Len(part)
    BY <2>3
  <2>7. Leads(p, t, k, a, f, before + 1, before + Len(part) + 1)
    <3>1. part = LikeFor(p[k])
      OBVIOUS
    <3> HIDE DEF before, part
    <3>2. Stands(part, q, before)
      BY <2>5 DEF Stands
    <3>3. before \in Nat /\ a \in 0..Len(t) /\ k \in 1..Len(p)
      BY <2>3
    <3> HIDE DEF m, n
    <3>4. q \in Seq(Characters) /\ AllBegins(f, q, t)
      BY <1>3, <1>4
    <3> QED BY ONLY p \in Seq(STRING), t \in Seq(STRING), <3>1, <3>2, <3>3, <3>4, BeginsPiece, Zenon
  <2> QED BY <2>6, <2>7 DEF Leads
<1>6. \A a \in 0..m : a + 1 \in f[off(n) + 1] <=> a = m
  <2>1. f[Len(q) + 1] = Begins(q, t, Len(q) + 1, f[(Len(q) + 1) + 1], f[(Len(q) + 1) + 2])
    <3>1. Len(q) + 1 \in 1..(Len(q) + 2)
      BY <1>3
    <3> QED BY <1>4, <3>1 DEF AllBegins
  <2> QED BY <1>1, <1>3, <2>1 DEF Begins
<1> DEFINE Fits(k) == \A a \in 0..m : a + 1 \in f[off(k) + 1] <=>
                         \E cut \in [k..n -> 0..m] : Cuts(p, t, k, a, cut)
           T == {d \in Nat : d <= n => Fits(n - d)}
<1>7. 0 \in T
  <2>1. ASSUME NEW a \in 0..m, a = m
        PROVE  \E cut \in [n..n -> 0..m] : Cuts(p, t, n, a, cut)
    <3>1. [i \in n..n |-> m] \in [n..n -> 0..m]
      BY <1>1
    <3>2. Cuts(p, t, n, a, [i \in n..n |-> m])
      BY <1>1, <2>1 DEF Cuts
    <3> QED BY <3>1, <3>2
  <2>2. ASSUME NEW a \in 0..m, NEW cut \in [n..n -> 0..m], Cuts(p, t, n, a, cut)
        PROVE  a = m
    BY <2>2 DEF Cuts
  <2>3. Fits(n)
    BY <1>6, <2>1, <2>2
  <2>4. n - 0 = n
    BY <1>1
  <2> HIDE DEF Fits
  <2> QED BY <2>3, <2>4
<1>8. ASSUME NEW d \in T
      PROVE  d + 1 \in T
  <2>1. SUFFICES ASSUME d + 1 <= n PROVE Fits(n - (d + 1))
    OBVIOUS
  <2> DEFINE k == n - d
  <2>2. k \in 1..n /\ k - 1 = n - (d + 1) /\ k \in Nat
    BY <1>1, <2>1
  <2>3. Fits(k)
    BY <2>1, <2>2
  <2> HIDE DEF k, T
  <2>4. ASSUME NEW a \in 0..m, NEW b \in 0..m, Piece(p, t, k, a, b),
               NEW cut \in [k..n -> 0..m], Cuts(p, t, k, b, cut)
        PROVE  \E longer \in [(k - 1)..n -> 0..m] : Cuts(p, t, k - 1, a, longer)
    <3> DEFINE longer == [i \in (k - 1)..n |-> IF i = k - 1 THEN a ELSE cut[i]]
    <3>1. \A i \in k..n : i \in (k - 1)..n /\ longer[i] = cut[i]
      BY <1>1, <2>2
    <3>2. longer[k - 1] = a /\ k - 1 \in (k - 1)..n
      BY <1>1, <2>2
    <3>3. longer \in [(k - 1)..n -> 0..m]
      <4>1. \A i \in (k - 1)..n : i = k - 1 \/ i \in k..n
        BY <1>1, <2>2
      <4> QED BY <4>1
    <3> HIDE DEF longer
    <3>4. n \in k..n /\ k \in k..n
      BY <1>1, <2>2
    <3>5. longer[n] = m /\ longer[k] = b
      BY <2>4, <3>1, <3>4 DEF Cuts
    <3>6. ASSUME NEW i \in ((k - 1) + 1)..n
          PROVE  Piece(p, t, i, longer[i - 1], longer[i])
      <4>1. CASE i = k
        BY <2>4, <3>2, <3>5, <4>1
      <4>2. CASE i # k
        <5>1. i \in (k + 1)..n /\ i \in k..n /\ i - 1 \in k..n
          BY <1>1, <2>2, <3>6, <4>2
        <5>2. Piece(p, t, i, cut[i - 1], cut[i])
          BY <2>4, <5>1 DEF Cuts
        <5> QED BY <3>1, <5>1, <5>2
      <4> QED BY <4>1, <4>2
    <3>7. Cuts(p, t, k - 1, a, longer)
      BY <3>2, <3>5, <3>6 DEF Cuts
    <3> QED BY <3>3, <3>7
  <2>5. ASSUME NEW a \in 0..m, NEW cut \in [(k - 1)..n -> 0..m], Cuts(p, t, k - 1, a, cut)
        PROVE  \E b \in 0..m : /\ Piece(p, t, k, a, b)
                               /\ \E shorter \in [k..n -> 0..m] : Cuts(p, t, k, b, shorter)
    <3> DEFINE shorter == [i \in k..n |-> cut[i]]
               b == cut[k]
    <3>1. \A i \in k..n : i \in (k - 1)..n /\ shorter[i] = cut[i]
      BY <1>1, <2>2
    <3>2. k \in k..n /\ n \in k..n /\ k \in ((k - 1) + 1)..n
      BY <1>1, <2>2
    <3>3. b \in 0..m
      BY <3>1, <3>2
    <3>4. shorter \in [k..n -> 0..m]
      BY <3>1
    <3> HIDE DEF shorter
    <3>5. Piece(p, t, k, a, b)
      BY <2>5, <3>2 DEF Cuts
    <3>6. \A i \in (k + 1)..n : Piece(p, t, i, shorter[i - 1], shorter[i])
      <4> TAKE i \in (k + 1)..n
      <4>1. i \in k..n /\ i - 1 \in k..n /\ i \in ((k - 1) + 1)..n
        BY <1>1, <2>2
      <4>2. Piece(p, t, i, cut[i - 1], cut[i])
        BY <2>5, <4>1 DEF Cuts
      <4> QED BY <3>1, <4>1, <4>2
    <3>7. shorter[k] = b /\ shorter[n] = m
      BY <2>5, <3>1, <3>2 DEF Cuts
    <3>8. Cuts(p, t, k, b, shorter)
      BY <3>6, <3>7 DEF Cuts
    <3> HIDE DEF b
    <3> QED BY <3>3, <3>4, <3>5, <3>8
  <2>6. ASSUME NEW a \in 0..m
        PROVE  a + 1 \in f[off(k - 1) + 1] <=>
                  \E cut \in [(k - 1)..n -> 0..m] : Cuts(p, t, k - 1, a, cut)
    <3>1. a + 1 \in f[off(k - 1) + 1] <=>
             \E b \in 0..m : Piece(p, t, k, a, b) /\ b + 1 \in f[off(k) + 1]
      BY <1>5, <2>2
    <3>2. \A b \in 0..m : b + 1 \in f[off(k) + 1] <=>
             \E cut \in [k..n -> 0..m] : Cuts(p, t, k, b, cut)
      BY <2>3
    <3> HIDE DEF off
    <3> QED BY <2>4, <2>5, <3>1, <3>2
  <2>7. Fits(k - 1)
    BY <2>6
  <2> QED BY <2>2, <2>7
<1>9. T = Nat
  <2>1. T \in SUBSET Nat
    OBVIOUS
  <2> HIDE DEF T
  <2> QED BY <1>7, <1>8, <2>1, SetInduction
<1>10. Fits(0)
  <2>1. n \in T /\ n - n = 0
    <3> HIDE DEF T, n
    <3> QED BY <1>1, <1>9
  <2> HIDE DEF Fits
  <2> QED BY <1>1, <2>1
<1>11. Like(q, t) <=> \E cut \in [0..n -> 0..m] : Cuts(p, t, 0, 0, cut)
  <2>1. off(0) = 0 /\ 0 + 1 = 1 /\ 0 \in 0..m
    BY <1>1, <1>2
  <2>2. 0 + 1 \in f[off(0) + 1] <=> \E cut \in [0..n -> 0..m] : Cuts(p, t, 0, 0, cut)
    BY <1>10, <2>1
  <2> QED BY <1>4, <2>1, <2>2
<1>12. Glob(p, t) <=> \E cut \in [0..n -> 0..m] : Cuts(p, t, 0, 0, cut)
  <2>1. \A cut : Cuts(p, t, 0, 0, cut) <=>
           /\ cut[0] = 0 /\ cut[n] = m
           /\ \A k \in 1..n : Piece(p, t, k, cut[k - 1], cut[k])
    BY <1>1 DEF Cuts
  <2>2. Glob(p, t) <=> \E cut \in [0..n -> 0..m] :
           /\ cut[0] = 0 /\ cut[n] = m
           /\ \A k \in 1..n : Piece(p, t, k, cut[k - 1], cut[k])
    BY Zenon DEF Glob, Piece, Star, Mark
  <2> QED BY <2>1, <2>2
<1> QED BY <1>11, <1>12 DEF q

-----------------------------------------------------------------------------
(***************************************************************************)
(* Filters keep their meaning.                                             *)
(***************************************************************************)

\* A term says with its argument what a filter asks for.
Encodes(operator, argument, filter) ==
    \/ filter.operator \in Likes \cup Comparisons /\ operator = filter.operator
       /\ argument = filter.value
    \/ filter.operator \in Globs /\ argument = globToLike(filter.value)
       /\ operator = IF filter.operator = "PATTERN" THEN "LIKE" ELSE "NOT LIKE"
    \/ filter.operator \in NullTests /\ operator = filter.operator

\* The term of a filter, whose argument stands where the term says.
Taken(term, args, filter) ==
    /\ term.column = filter.column
    /\ term.place \in 0..Len(args)
    /\ Encodes(term.operator, IF term.place = 0 THEN None ELSE args[term.place], filter)

\* Each filter gone through has its term; before the query, all have.
Understood(c) ==
    c.pc \in {"filters", "wait"} =>
        /\ c.taken <= Len(c.request.filters) /\ Len(c.terms) = c.taken
        /\ c.pc = "wait" => c.taken = Len(c.request.filters)
        /\ \A k \in 1..c.taken : Taken(c.terms[k], c.args, c.request.filters[k])

\* How calls end: only pages that came tell of more.
Ends(c) ==
    /\ c.pc = "done" => c.answer # None
    /\ c.pc \in {"idle", "filters", "wait"} => c.answer # "ok"
    /\ c.hasMore => c.pc = "done" /\ c.answer = "ok"
    /\ c.answer = "ok" => RangeOk(c.request)

MeaningInv == Understood(call) /\ Ends(call) /\ FiltersKeepTheirMeaning

\* A term holds for the cells that its filter means (globToLike, the WHERE terms).
LEMMA TermsMean ==
    ASSUME NEW filter, filter.value \in Values, NEW cell \in Values \cup {NULL},
           NEW operator, NEW argument, Encodes(operator, argument, filter)
    PROVE  Holds(operator, cell, argument) <=> Means(filter, cell)
<1>1. CASE filter.operator \in Likes \cup Comparisons /\ operator = filter.operator
           /\ argument = filter.value
  <2>1. filter.operator # "PATTERN" /\ filter.operator # "NOT PATTERN"
    BY <1>1, Zenon DEF Likes, Comparisons
  <2> QED BY <1>1, <2>1, Zenon DEF Means
<1>2. CASE filter.operator \in Globs /\ argument = globToLike(filter.value)
           /\ operator = IF filter.operator = "PATTERN" THEN "LIKE" ELSE "NOT LIKE"
  <2>1. ASSUME cell # NULL
        PROVE  Like(argument, cell) <=> Glob(filter.value, cell)
    <3>1. filter.value \in Seq(STRING) /\ cell \in Seq(STRING)
      BY <2>1, BrowseAssumption
    <3> QED BY <1>2, <3>1, GlobsBecomeLikes
  <2>2. "LIKE" \notin NullTests /\ "NOT LIKE" \notin NullTests /\ "LIKE" # "NOT LIKE"
        /\ "PATTERN" # "NOT PATTERN"
    BY Zenon DEF NullTests
  <2>3. CASE filter.operator = "PATTERN"
    <3>1. Means(filter, cell) <=> cell # NULL /\ Glob(filter.value, cell)
      BY <2>3, Zenon DEF Means
    <3>2. Holds(operator, cell, argument) <=> cell # NULL /\ Like(argument, cell)
      BY <1>2, <2>2, <2>3, Zenon DEF Holds
    <3> QED BY <2>1, <3>1, <3>2
  <2>4. CASE filter.operator = "NOT PATTERN"
    <3>1. Means(filter, cell) <=> cell # NULL /\ ~ Glob(filter.value, cell)
      BY <2>2, <2>4, Zenon DEF Means
    <3>2. Holds(operator, cell, argument) <=> cell # NULL /\ ~ Like(argument, cell)
      BY <1>2, <2>2, <2>4, Zenon DEF Holds
    <3> QED BY <2>1, <3>1, <3>2
  <2> QED BY <1>2, <2>3, <2>4, Zenon DEF Globs
<1>3. CASE filter.operator \in NullTests /\ operator = filter.operator
  <2>1. filter.operator # "PATTERN" /\ filter.operator # "NOT PATTERN"
    BY <1>3, Zenon DEF NullTests
  <2>2. Means(filter, cell) <=> Holds(operator, cell, filter.value)
    BY <1>3, <2>1, Zenon DEF Means
  <2> QED BY <1>3, <2>2, Zenon DEF Holds
<1> QED BY <1>1, <1>2, <1>3, Zenon DEF Encodes

\* So the rows that the query selects are those that the filters mean.
LEMMA SelectedMeant ==
    ASSUME BrowseInv, Understood(call), call.pc = "wait",
           \A k \in DOMAIN call.terms : call.terms[k].column \in Columns
    PROVE  Selected = Meant(call.request, table)
<1> DEFINE filters == call.request.filters
           n == Len(filters)
<1>1. /\ call \in CallType /\ call.request \in Request /\ table \subseteq Row
    BY BrowseAssumption DEF BrowseInv, TypeOK, Knows
<1>2. filters \in Seq([column : STRING, operator : STRING, value : Values])
    BY <1>1 DEF Request
<1>3. DOMAIN filters = 1..n /\ DOMAIN call.terms = 1..n /\ n \in Nat
  <2>1. call.terms \in Seq(Terms) /\ Len(call.terms) = n
    BY <1>1 DEF CallType, Understood
  <2> QED BY <1>2, <2>1, LenProperties
<1>4. ASSUME NEW row \in table, NEW k \in 1..n
      PROVE  Holds(call.terms[k].operator, row[call.terms[k].column],
                   Argument(call.terms[k].place))
                <=> Means(filters[k], row[filters[k].column])
  <2>1. Taken(call.terms[k], call.args, filters[k])
    BY DEF Understood
  <2>2. filters[k].value \in Values
    <3> DEFINE F == [column : STRING, operator : STRING, value : Values]
    <3>1. filters \in Seq(F) /\ k \in 1..Len(filters)
      BY <1>2
    <3> HIDE DEF F, filters
    <3>2. filters[k] \in F
      BY <3>1, ElementOfSeq
    <3> QED BY <3>2 DEF F
  <2>3. row[call.terms[k].column] \in Values \cup {NULL}
    BY <1>1, <1>3 DEF Row
  <2>4. Encodes(call.terms[k].operator, Argument(call.terms[k].place), filters[k])
    BY <2>1 DEF Taken, Argument
  <2>5. call.terms[k].column = filters[k].column
    BY <2>1 DEF Taken
  <2> DEFINE filter == filters[k]
             cell == row[call.terms[k].column]
             operator == call.terms[k].operator
             argument == Argument(call.terms[k].place)
  <2>6. Holds(operator, cell, argument) <=> Means(filter, cell)
    <3> HIDE DEF filter, cell, operator, argument
    <3> QED BY <2>2, <2>3, <2>4, TermsMean DEF filter, cell, operator, argument
  <2> QED BY <2>5, <2>6
<1> HIDE DEF n
<1> QED BY <1>3, <1>4, Zenon DEF Selected, Meant

\* A filter is gone through, and its term and argument are there.
LEMMA TakenKeeps ==
    ASSUME BrowseInv, MeaningInv, AtFilter, NEW args \in Seq(Arguments), NEW term \in Terms,
           Len(args) >= Len(call.args),
           \A k \in 1..Len(call.args) : args[k] = call.args[k],
           Taken(term, args, Filter),
           Become([call EXCEPT !.taken = @ + 1, !.args = args, !.terms = Append(@, term)])
    PROVE  MeaningInv'
<1> DEFINE terms == Append(call.terms, term)
           new == [call EXCEPT !.taken = @ + 1, !.args = args, !.terms = terms]
<1>1. /\ call \in CallType /\ call.pc = "filters" /\ call' = new
      /\ call.taken < Len(call.request.filters)
    BY DEF BrowseInv, TypeOK, AtFilter, At, Become
<1>2. /\ call.taken \in Nat /\ call.terms \in Seq(Terms) /\ call.args \in Seq(Arguments)
      /\ Len(call.terms) = call.taken
      /\ \A k \in 1..call.taken : Taken(call.terms[k], call.args, call.request.filters[k])
    BY <1>1 DEF CallType, MeaningInv, Understood
<1>3. /\ Len(terms) = call.taken + 1 /\ terms[call.taken + 1] = term
      /\ \A k \in 1..call.taken : terms[k] = call.terms[k]
    BY <1>2, AppendProperties
<1>4. \A old, filter : Taken(old, call.args, filter) => Taken(old, args, filter)
  <2>1. Len(args) \in Nat /\ Len(call.args) \in Nat
    BY <1>2, LenProperties
  <2> QED BY <2>1 DEF Taken
<1> HIDE DEF terms
<1>5. /\ new.pc = "filters" /\ new.taken = call.taken + 1 /\ new.terms = terms /\ new.args = args
      /\ new.request = call.request /\ new.answer = call.answer /\ new.hasMore = call.hasMore
    BY <1>1 DEF CallType
<1> HIDE DEF new
<1>6. \A k \in 1..(call.taken + 1) : Taken(terms[k], args, call.request.filters[k])
  <2>1. TAKE k \in 1..(call.taken + 1)
  <2>2. CASE k = call.taken + 1
    BY <1>3, <2>2 DEF Filter
  <2>3. CASE k # call.taken + 1
    <3>1. k \in 1..call.taken
      BY <1>2, <2>3
    <3> QED BY <1>2, <1>3, <1>4, <3>1
  <2> QED BY <2>2, <2>3
<1>7. call.taken + 1 <= Len(call.request.filters)
  <2>1. Len(call.request.filters) \in Nat
    BY <1>1, LenProperties DEF BrowseInv, Knows, Request
  <2> QED BY <1>1, <1>2, <2>1
<1>8. Understood(new)
  BY <1>3, <1>5, <1>6, <1>7 DEF Understood
<1>9. Ends(new)
  BY <1>1, <1>5, BrowseAssumption DEF Ends, MeaningInv
<1> QED BY <1>1, <1>5, <1>8, <1>9 DEF MeaningInv, FiltersKeepTheirMeaning

\* A filter with a placeholder puts its argument last.
LEMMA BoundMeans ==
    ASSUME BrowseInv, MeaningInv, AtFilter, NEW operator \in STRING \cup Likes,
           NEW value \in Arguments, Encodes(operator, value, Filter), Bound(operator, value)
    PROVE  MeaningInv'
<1> DEFINE term == [column |-> Filter.column, operator |-> operator, place |-> Len(call.args) + 1]
           args == Append(call.args, value)
<1>1. call.args \in Seq(Arguments) /\ Len(call.args) \in Nat
  BY FilterType, LenProperties DEF CallType
<1>2. term \in Terms
  BY <1>1, FilterType DEF Terms
<1>3. /\ args \in Seq(Arguments) /\ Len(args) = Len(call.args) + 1
      /\ args[Len(call.args) + 1] = value
      /\ \A k \in 1..Len(call.args) : args[k] = call.args[k]
  BY <1>1, AppendProperties
<1>4. Become([call EXCEPT !.taken = @ + 1, !.args = args, !.terms = Append(@, term)])
  BY DEF Bound
<1> HIDE DEF args
<1>5. Taken(term, args, Filter)
  <2>1. Len(call.args) + 1 # 0 /\ Len(call.args) + 1 \in 0..Len(args)
    BY <1>1, <1>3
  <2> QED BY <1>3, <2>1 DEF Taken
<1> HIDE DEF term
<1>6. Len(args) >= Len(call.args)
  BY <1>1, <1>3
<1> QED BY <1>2, <1>3, <1>4, <1>5, <1>6, TakenKeeps

\* The sorts of a request that are taken.
OrdersOf(r) == SelectSeq(r.sorts, LAMBDA s : s.column \in r.columns)

\* What FiltersKeepTheirMeaning says, of one call.
Keeps(c) ==
    c.pc \in {"rows", "done"} /\ c.answer \in {None, "ok"} =>
        c.ordered \in Sorted(Meant(c.request, c.seen), OrdersOf(c.request))

\* It does: Orders is what is taken of the call's sorts.
LEMMA KeepsMeans == (FiltersKeepTheirMeaning <=> Keeps(call)) /\ Orders = OrdersOf(call.request)
BY DEF FiltersKeepTheirMeaning, Keeps, Orders, OrdersOf

\* The same of the next state.
LEMMA KeepsMeansThen == (FiltersKeepTheirMeaning <=> Keeps(call))'
BY KeepsMeans, PTL

\* The next page is asked for with a request like the one before.
LEMMA NextRequest ==
    ASSUME BrowseInv, TurnPage
    PROVE  /\ call.request \in Request
           /\ [call.request EXCEPT !.offset = @ + call.request.limit] \in Request
<1>1. call \in CallType /\ call.request \in Request
  BY DEF TurnPage, At, BrowseInv, TypeOK, Knows
<1>2. call.request.offset + call.request.limit \in Int
  BY <1>1 DEF Request
<1> DEFINE offset == call.request.offset + call.request.limit
<1> HIDE DEF offset
<1>3. [call.request EXCEPT !.offset = offset] \in Request
  BY <1>1, <1>2 DEF Request, offset
<1> QED BY <1>1, <1>3 DEF offset

\* Rows collected change nothing that the filters mean.
LEMMA SameMeaning ==
    ASSUME MeaningInv, call \in CallType, call.pc = "rows", NEW raw, NEW rows,
           call' = [call EXCEPT !.raw = raw, !.rows = rows]
    PROVE  MeaningInv'
<1>1. /\ call'.pc = call.pc /\ call'.request = call.request /\ call'.seen = call.seen
      /\ call'.ordered = call.ordered /\ call'.answer = call.answer
      /\ call'.hasMore = call.hasMore
  BY DEF CallType
<1>2. FiltersKeepTheirMeaning'
  BY <1>1, KeepsMeans, KeepsMeansThen DEF MeaningInv, Keeps
<1> QED BY <1>1, <1>2 DEF MeaningInv, Understood, Ends

\* Each step keeps the filters' meaning.
LEMMA MeaningNext == BrowseInv /\ MeaningInv /\ [Next]_vars => MeaningInv'
<1> SUFFICES ASSUME BrowseInv, MeaningInv, [Next]_vars PROVE MeaningInv'
  OBVIOUS
<1>1. call \in CallType /\ Knows(call)
  BY DEF BrowseInv, TypeOK
<1>2. ASSUME NEW r \in Request, NEW first, Become(Started(r, first))
      PROVE  MeaningInv'
  <2> DEFINE new == Started(r, first)
  <2>1. /\ new.taken = 0 /\ new.terms = <<>> /\ new.request = r /\ ~ new.hasMore
        /\ \/ new.pc = "filters" /\ new.answer = None
           \/ new.pc = "done" /\ new.answer = "validation"
    BY DEF Started, Idle
  <2>2. call' = new
    BY <1>2 DEF Become
  <2> HIDE DEF new
  <2>3. Understood(new)
    <3>1. Len(<<>>) = 0
      BY EmptySeq
    <3>2. 0 <= Len(r.filters)
      BY LenProperties DEF Request
    <3> QED BY <2>1, <3>1, <3>2 DEF Understood
  <2>4. Ends(new)
    BY <2>1, BrowseAssumption DEF Ends
  <2> QED BY <2>1, <2>2, <2>3, <2>4, BrowseAssumption DEF MeaningInv, FiltersKeepTheirMeaning
<1>3. ASSUME NEW r \in Requests, Ask(r)
      PROVE  MeaningInv'
  BY <1>2, <1>3, BrowseAssumption DEF Ask
<1>4. CASE TurnPage
  BY <1>2, <1>4, NextRequest DEF TurnPage
<1>5. CASE BindValue
  <2>1. AtFilter /\ Filter.operator \in STRING /\ Filter.value \in Arguments
    BY <1>5, FilterType DEF BindValue, Arguments
  <2>2. Encodes(Filter.operator, Filter.value, Filter)
    BY <1>5 DEF BindValue, Encodes
  <2> QED BY <1>5, <2>1, <2>2, BoundMeans DEF BindValue
<1>6. CASE BindPattern
  <2> DEFINE operator == IF Filter.operator = "PATTERN" THEN "LIKE" ELSE "NOT LIKE"
             value == globToLike(Filter.value)
  <2>1. AtFilter /\ value \in Arguments /\ Bound(operator, value)
    BY <1>6, FilterType DEF BindPattern, Arguments
  <2>2. operator \in Likes
    BY DEF Likes
  <2>3. Encodes(operator, value, Filter)
    BY <1>6 DEF BindPattern, Encodes
  <2> HIDE DEF operator, value
  <2> QED BY <2>1, <2>2, <2>3, BoundMeans
<1>7. CASE TestNull
  <2> DEFINE term == [column |-> Filter.column, operator |-> Filter.operator, place |-> 0]
             args == call.args
  <2>1. AtFilter
    BY <1>7 DEF TestNull
  <2>2. term \in Terms
    BY <2>1, FilterType DEF Terms
  <2>3. args \in Seq(Arguments) /\ Len(args) \in Nat
    BY <1>1, LenProperties DEF CallType
  <2>4. Taken(term, args, Filter)
    <3>1. term.place = 0 /\ term.column = Filter.column /\ term.operator = Filter.operator
      OBVIOUS
    <3> HIDE DEF term
    <3>2. Encodes(term.operator, None, Filter)
      BY <1>7, <3>1, Zenon DEF Encodes, TestNull
    <3> QED BY <2>3, <3>1, <3>2 DEF Taken
  <2>5. Become([call EXCEPT !.taken = @ + 1, !.args = args, !.terms = Append(@, term)])
    BY <1>1, <1>7 DEF TestNull, CallType
  <2> HIDE DEF term
  <2>6. /\ Len(args) >= Len(call.args)
        /\ \A k \in 1..Len(call.args) : args[k] = call.args[k]
    BY <2>3
  <2> HIDE DEF args
  <2> QED BY <2>1, <2>2, <2>3, <2>4, <2>5, <2>6, TakenKeeps
<1>8. CASE RejectFilter \/ Fail
  <2>1. PICK answer \in {"validation", "failed"} : Answer(answer)
    BY <1>8 DEF RejectFilter, Fail
  <2>2. ~ call.hasMore
    BY <1>1, <1>8 DEF MeaningInv, Ends, RejectFilter, AtFilter, Fail, At
  <2>3. /\ call'.pc = "done" /\ call'.answer = answer /\ call'.hasMore = call.hasMore
    BY <1>1, <2>1 DEF Answer, Become, CallType
  <2> QED BY <2>1, <2>2, <2>3, BrowseAssumption DEF MeaningInv, Understood, Ends, FiltersKeepTheirMeaning
<1>9. CASE Send
  <2> DEFINE last == <<Asked(call.request.limit), call.request.offset>>
             args == call.args \o last
  <2>1. /\ call.pc = "filters" /\ ~ (call.taken < Len(call.request.filters))
        /\ call' = [call EXCEPT !.pc = "wait", !.args = args]
    BY <1>9 DEF Send, AtFilter, At, Become
  <2>2. /\ call.request.limit \in Int /\ call.request.offset \in Int
        /\ call.args \in Seq(Arguments) /\ Len(call.args) \in Nat
        /\ Len(call.request.filters) \in Nat /\ call.taken \in Nat
    BY <1>1, <2>1, LenProperties DEF Request, CallType, Knows
  <2>3. last \in Seq(Arguments) /\ Len(last) = 2
    BY <2>2 DEF Asked, Arguments
  <2> HIDE DEF last
  <2>4. /\ Len(args) = Len(call.args) + 2
        /\ \A k \in 1..Len(call.args) : args[k] = call.args[k]
    <3> DEFINE a == call.args
    <3>1. a \in Seq(Arguments) /\ Len(a) \in Nat
      BY <2>2
    <3> HIDE DEF a
    <3>2. Len(a \o last) = Len(a) + 2 /\ \A k \in 1..Len(a) : (a \o last)[k] = a[k]
      <4> DEFINE all == a \o last
      <4>1. /\ Len(all) = Len(a) + Len(last)
            /\ \A k \in 1..(Len(a) + Len(last)) :
                  all[k] = IF k <= Len(a) THEN a[k] ELSE last[k - Len(a)]
        BY <2>3, <3>1, ConcatProperties
      <4> HIDE DEF all
      <4> QED BY <2>3, <3>1, <4>1 DEF all
    <3> QED BY <3>2 DEF a
  <2> HIDE DEF args
  <2>5. \A term, filter : Taken(term, call.args, filter) => Taken(term, args, filter)
    BY <2>2, <2>4 DEF Taken
  <2>6. /\ call'.pc = "wait" /\ call'.args = args /\ call'.request = call.request
        /\ call'.taken = call.taken /\ call'.terms = call.terms
        /\ call'.answer = call.answer /\ call'.hasMore = call.hasMore
    BY <1>1, <2>1 DEF CallType
  <2>7. call.taken = Len(call.request.filters)
    BY <2>1, <2>2 DEF MeaningInv, Understood
  <2>8. Understood(call)'
    BY <2>1, <2>5, <2>6, <2>7 DEF MeaningInv, Understood
  <2>9. Ends(call)'
    BY <2>1, <2>6 DEF MeaningInv, Ends
  <2> QED BY <2>6, <2>8, <2>9 DEF MeaningInv, FiltersKeepTheirMeaning
<1>10. CASE Query
  <2>1. call.pc = "wait" /\ \A k \in DOMAIN call.terms : call.terms[k].column \in Columns
    BY <1>10 DEF Query, At
  <2>2. PICK ordered \in Sorted(Selected, Orders) : \E served :
           call' = [call EXCEPT !.pc = "rows", !.seen = table, !.ordered = ordered,
                                !.served = served]
    BY <1>10 DEF Query, Become
  <2>3. Selected = Meant(call.request, table)
    BY <2>1, SelectedMeant DEF MeaningInv
  <2>4. /\ call'.pc = "rows" /\ call'.request = call.request /\ call'.seen = table
        /\ call'.ordered = ordered /\ call'.answer = call.answer /\ call'.hasMore = call.hasMore
    BY <1>1, <2>2 DEF CallType
  <2>5. Ends(call)'
    BY <2>1, <2>4 DEF MeaningInv, Ends
  <2>6. FiltersKeepTheirMeaning'
    BY <2>2, <2>3, <2>4, KeepsMeans, KeepsMeansThen DEF Keeps
  <2> QED BY <2>4, <2>5, <2>6 DEF MeaningInv, Understood
<1>11. CASE CollectRow
  <2>1. PICK raw, rows : call' = [call EXCEPT !.raw = raw, !.rows = rows]
    BY <1>11 DEF CollectRow, Become
  <2>2. call.pc = "rows"
    BY <1>11 DEF CollectRow, At
  <2> QED BY <1>1, <2>1, <2>2, SameMeaning
<1>12. CASE Finish
  <2>1. PICK raw, rows, truncated, hasMore :
           call' = [call EXCEPT !.pc = "done", !.answer = "ok", !.truncated = truncated,
                                !.hasMore = hasMore, !.raw = raw, !.rows = rows]
    BY <1>12 DEF Finish
  <2>2. call.pc = "rows" /\ call.answer = None /\ RangeOk(call.request)
    BY <1>1, <1>12 DEF Finish, At, Knows
  <2>3. /\ call'.pc = "done" /\ call'.answer = "ok" /\ call'.request = call.request
        /\ call'.seen = call.seen /\ call'.ordered = call.ordered
    BY <1>1, <2>1 DEF CallType
  <2>4. Ends(call)'
    BY <2>2, <2>3, BrowseAssumption DEF Ends
  <2>5. FiltersKeepTheirMeaning'
    BY <2>2, <2>3, KeepsMeans, KeepsMeansThen DEF MeaningInv, Keeps
  <2> QED BY <2>3, <2>4, <2>5 DEF MeaningInv, Understood
<1>13. CASE Write \/ UNCHANGED vars
  <2>1. call' = call
    BY <1>13 DEF Write, vars
  <2> QED BY <2>1, KeepsMeans, KeepsMeansThen DEF MeaningInv, Understood, Ends
<1> QED BY <1>3, <1>4, <1>5, <1>6, <1>7, <1>8, <1>9, <1>10, <1>11, <1>12, <1>13 DEF Next

\* The filters keep their meaning, whatever they are (BrowseTable, globToLike):
\* LIKE with what is made of a pattern finds the texts that the pattern means.
THEOREM FiltersMean == Spec => []FiltersKeepTheirMeaning
<1>1. Init => MeaningInv
  <2> SUFFICES ASSUME Init PROVE MeaningInv
    OBVIOUS
  <2>1. call.pc = "idle" /\ call.answer = None /\ ~ call.hasMore
    BY DEF Init, Idle
  <2> QED BY <2>1, BrowseAssumption DEF MeaningInv, Understood, Ends, FiltersKeepTheirMeaning
<1>2. MeaningInv => FiltersKeepTheirMeaning
  BY DEF MeaningInv
<1> QED BY <1>1, <1>2, MeaningNext, Invariance, PTL DEF Spec

-----------------------------------------------------------------------------
(***************************************************************************)
(* Walks are complete.                                                     *)
(***************************************************************************)

\* The orders that a request's rows may come in.
OrdersFor(r, rows) == Sorted(Meant(r, rows), OrdersOf(r))

\* The pages turned so far are the part of the order before the page to come,
\* or up to the end of the one that came.
Progress(c, got, order) ==
    RangeOk(c.request) /\ c.answer \in {None, "ok"} =>
        \E before \in Nat :
            /\ c.first \in Nat /\ c.request.offset = c.first + before
            /\ before = 0 \/ c.request.offset <= Len(order)
            /\ got = Slice(order, c.first,
                           IF c.answer = "ok" THEN before + c.request.limit ELSE before)

WalkOk(c, w, rows) ==
    /\ w \in [got : Seq(Row), still : BOOLEAN]
    /\ c.pc = "idle" => w.still /\ w.got = <<>>
    /\ w.still /\ c.pc # "idle" =>
          /\ c.pc \in {"rows", "done"} /\ c.answer \in {None, "ok"} => c.seen = rows
          /\ \A order : OrdersFor(c.request, rows) = {order} => Progress(c, w.got, order)

WalkInv == WalkOk(call, walk, table)

\* An order of the rows of a table is a sequence of rows.
LEMMA OrderType ==
    ASSUME NEW rows \in Tables, NEW r, NEW order \in OrdersFor(r, rows)
    PROVE  order \in Seq(Row)
<1>1. IsFiniteSet(rows) /\ rows \subseteq Row
    BY BrowseAssumption
<1> DEFINE meant == Meant(r, rows)
<1>2. meant \subseteq rows
    BY DEF Meant
<1> HIDE DEF meant
<1>3. Cardinality(meant) \in Nat
    BY <1>1, <1>2, FS_Subset, FS_CardinalityType
<1>4. order \in [1..Cardinality(meant) -> meant]
    BY DEF OrdersFor, Sorted, meant
<1> QED BY <1>1, <1>2, <1>3, <1>4

\* One slice continues another.
LEMMA SlicesJoin ==
    ASSUME NEW S, NEW seq \in Seq(S), NEW skip \in Nat, NEW m \in Nat, NEW n \in Nat,
           m = 0 \/ skip + m <= Len(seq)
    PROVE  Slice(seq, skip, m) \o Slice(seq, skip + m, n) = Slice(seq, skip, m + n)
<1> DEFINE a == Slice(seq, skip, m)
           b == Slice(seq, skip + m, n)
           c == Slice(seq, skip, m + n)
           ab == a \o b
           Size(left, count) == IF left <= 0 THEN 0 ELSE IF left <= count THEN left ELSE count
<1>1. Len(seq) \in Nat /\ skip + m \in Nat /\ m + n \in Nat
  BY LenProperties
<1>2. \A s, k \in Nat :
         /\ Slice(seq, s, k) \in Seq(S)
         /\ Len(Slice(seq, s, k)) = Size(Len(seq) - s, k)
         /\ \A i \in 1..Len(Slice(seq, s, k)) : Slice(seq, s, k)[i] = seq[s + i]
  BY SliceProperties
<1>3. /\ a \in Seq(S) /\ Len(a) = Size(Len(seq) - skip, m)
      /\ \A i \in 1..Len(a) : a[i] = seq[skip + i]
  BY <1>2
<1>4. /\ b \in Seq(S) /\ Len(b) = Size(Len(seq) - (skip + m), n)
      /\ \A i \in 1..Len(b) : b[i] = seq[(skip + m) + i]
  BY <1>1, <1>2
<1>5. /\ c \in Seq(S) /\ Len(c) = Size(Len(seq) - skip, m + n)
      /\ \A i \in 1..Len(c) : c[i] = seq[skip + i]
  BY <1>1, <1>2
<1> HIDE DEF a, b, c
<1>6. /\ ab \in Seq(S) /\ Len(ab) = Len(a) + Len(b)
      /\ \A i \in 1..(Len(a) + Len(b)) : ab[i] = IF i <= Len(a) THEN a[i] ELSE b[i - Len(a)]
  BY <1>3, <1>4, ConcatProperties
<1> HIDE DEF ab
<1>7. Len(a) = m /\ Len(b) \in Nat /\ Len(c) = m + Len(b)
  BY <1>1, <1>3, <1>4, <1>5
<1>8. \A i \in 1..Len(c) : ab[i] = c[i]
  <2> TAKE i \in 1..Len(c)
  <2>1. CASE i <= m
    <3>1. i \in 1..m /\ i \in 1..(Len(a) + Len(b))
      BY <1>7, <2>1
    <3> QED BY <1>3, <1>5, <1>6, <1>7, <3>1
  <2>2. CASE ~ (i <= m)
    <3>1. i - m \in 1..Len(b) /\ i \in 1..(Len(a) + Len(b)) /\ (skip + m) + (i - m) = skip + i
      BY <1>7, <2>2
    <3>2. ab[i] = b[i - m] /\ b[i - m] = seq[(skip + m) + (i - m)]
      BY <1>4, <1>6, <1>7, <2>2, <3>1
    <3> QED BY <1>5, <3>1, <3>2
  <2> QED BY <2>1, <2>2
<1>9. ab = c
  BY <1>5, <1>6, <1>7, <1>8, SeqEqual
<1> QED BY <1>9 DEF ab, a, b, c

\* Nothing is a slice of nothing.
LEMMA NoSlice ==
    ASSUME NEW S, NEW seq \in Seq(S), NEW skip \in Nat
    PROVE  Slice(seq, skip, 0) = <<>>
<1>1. Slice(seq, skip, 0) \in Seq(S) /\ Len(Slice(seq, skip, 0)) = 0
  <2>1. Len(seq) \in Nat
    BY LenProperties
  <2> QED BY <2>1, SliceProperties
<1> QED BY <1>1, EmptySeq

\* A walk begins.
LEMMA AskWalks ==
    ASSUME BrowseInv, WalkInv, NEW r \in Requests, Ask(r)
    PROVE  WalkInv'
<1> DEFINE new == Started(r, r.offset)
<1>1. /\ call.pc = "idle" /\ call' = new /\ walk' = walk /\ table' = table /\ table \in Tables
  BY DEF Ask, At, Become, BrowseInv, TypeOK
<1>2. /\ new.request = r /\ new.first = r.offset
      /\ \/ new.pc = "filters" /\ new.answer = None
         \/ new.pc = "done" /\ new.answer = "validation"
  BY DEF Started, Idle
<1> HIDE DEF new
<1>3. ASSUME NEW order, OrdersFor(r, table) = {order}
      PROVE  Progress(new, <<>>, order)
  <2> SUFFICES ASSUME RangeOk(r), new.answer \in {None, "ok"}
               PROVE  \E before \in Nat :
                  /\ new.first \in Nat /\ new.request.offset = new.first + before
                  /\ before = 0 \/ new.request.offset <= Len(order)
                  /\ <<>> = Slice(order, new.first,
                               IF new.answer = "ok" THEN before + new.request.limit ELSE before)
    BY <1>2 DEF Progress
  <2>1. r.offset \in Nat
    BY BrowseAssumption DEF RangeOk, Request
  <2>2. Slice(order, r.offset, 0) = <<>>
    BY <1>1, <1>3, <2>1, OrderType, NoSlice
  <2>3. 0 \in Nat /\ r.offset = r.offset + 0
    BY <2>1
  <2>4. new.answer # "ok"
    BY <1>2, BrowseAssumption
  <2> QED BY <1>2, <2>1, <2>2, <2>3, <2>4
<1> QED BY <1>1, <1>2, <1>3, BrowseAssumption DEF WalkInv, WalkOk

\* The next page follows what the walk has got.
LEMMA TurnWalks ==
    ASSUME BrowseInv, MeaningInv, WalkInv, TurnPage
    PROVE  WalkInv'
<1> DEFINE old == call.request
           offset == old.offset + old.limit
           r == [old EXCEPT !.offset = offset]
           new == Started(r, call.first)
<1>1. /\ call.pc = "done" /\ call.hasMore /\ call' = new /\ walk' = walk /\ table' = table
      /\ table \in Tables /\ call \in CallType /\ call.request \in Request
  BY DEF TurnPage, At, Become, BrowseInv, TypeOK, Knows
<1>2. call.answer = "ok" /\ RangeOk(old)
  BY <1>1 DEF MeaningInv, Ends
<1>3. /\ r.offset = offset /\ r.limit = old.limit /\ r.filters = old.filters
      /\ r.sorts = old.sorts /\ r.columns = old.columns
  BY <1>1 DEF Request
<1>4. OrdersFor(r, table) = OrdersFor(old, table)
  BY <1>3 DEF OrdersFor, OrdersOf, Meant
<1> HIDE DEF r
<1>5. /\ new.request = r /\ new.first = call.first
      /\ \/ new.pc = "filters" /\ new.answer = None
         \/ new.pc = "done" /\ new.answer = "validation"
  BY DEF Started, Idle
<1> HIDE DEF new
<1>6. ASSUME NEW order, OrdersFor(old, table) = {order}, walk.still
      PROVE  Progress(new, walk.got, order)
  <2>1. call.seen = table /\ Progress(call, walk.got, order)
    BY <1>1, <1>2, <1>6 DEF WalkInv, WalkOk
  <2>2. call.ordered = order
    <3>1. call.ordered \in Sorted(Meant(old, call.seen), OrdersOf(old))
      BY <1>1, <1>2, KeepsMeans DEF MeaningInv, Keeps
    <3> QED BY <1>6, <2>1, <3>1 DEF OrdersFor
  <2>3. Len(order) > offset
    BY <1>1, <1>2, <2>2 DEF BrowseInv, MoreIsTold, Answered, At
  <2>4. PICK before \in Nat :
           /\ call.first \in Nat /\ old.offset = call.first + before
           /\ walk.got = Slice(order, call.first, before + old.limit)
    BY <1>2, <2>1 DEF Progress
  <2>5. before + old.limit \in Nat /\ offset = call.first + (before + old.limit)
    BY <1>1, <1>2, <2>4 DEF RangeOk, Request
  <2>6. offset <= Len(order)
    <3>1. Len(order) \in Nat
      BY <1>1, <1>6, OrderType, LenProperties
    <3>2. offset \in Nat
      BY <2>4, <2>5
    <3> HIDE DEF offset
    <3> QED BY <2>3, <3>1, <3>2
  <2>7. new.answer # "ok"
    BY <1>5, BrowseAssumption
  <2> HIDE DEF offset, old
  <2> QED BY <1>3, <1>5, <2>4, <2>5, <2>6, <2>7 DEF Progress
<1> QED BY <1>1, <1>4, <1>5, <1>6, BrowseAssumption DEF WalkInv, WalkOk

\* Steps that leave the request and the answer alone, and what is seen of the table.
LEMMA SameWalks ==
    ASSUME WalkInv, call.pc # "idle", call'.pc # "idle", call'.request = call.request,
           call'.first = call.first, call'.answer = call.answer,
           walk' = walk, table' = table,
           call'.pc \in {"rows", "done"} /\ call'.answer \in {None, "ok"} => 
              call'.seen = table \/ (call.pc \in {"rows", "done"} /\ call'.seen = call.seen)
    PROVE  WalkInv'
BY DEF WalkInv, WalkOk, Progress

\* The page that came is what the walk has got now.
LEMMA FinishWalks ==
    ASSUME BrowseInv, MeaningInv, WalkInv, BrowseInv', Finish
    PROVE  WalkInv'
<1> DEFINE page == Page(call.raw)
           r == call.request
<1>1. /\ call.pc = "rows" /\ call.answer = None /\ RangeOk(r) /\ r \in Request
      /\ table \in Tables /\ table' = table /\ call \in CallType
  BY DEF Finish, At, BrowseInv, Knows, TypeOK
<1>2. /\ call'.pc = "done" /\ call'.answer = "ok" /\ call'.request = r
      /\ call'.first = call.first /\ call'.seen = call.seen /\ call'.ordered = call.ordered
      /\ call'.raw = page
  BY <1>1 DEF Finish, CallType
<1>3. /\ walk \in [got : Seq(Row), still : BOOLEAN]
      /\ walk' = [walk EXCEPT !.got = @ \o page]
  BY DEF Finish, WalkInv, WalkOk
<1>4. page \in Seq(Row) /\ page = Slice(call.ordered, r.offset, r.limit)
  BY <1>2 DEF BrowseInv, TypeOK, CallType, PageIsExact, Answered, At
<1> HIDE DEF page
<1>5. walk' \in [got : Seq(Row), still : BOOLEAN] /\ walk'.still = walk.still
      /\ walk'.got = walk.got \o page
  <2>1. walk.got \o page \in Seq(Row)
    BY <1>3, <1>4, ConcatProperties
  <2> QED BY <1>3, <2>1
<1>6. ASSUME NEW order, OrdersFor(r, table) = {order}, walk.still
      PROVE  call.seen = table /\ Progress(call', walk'.got, order)
  <2>1. call.seen = table /\ Progress(call, walk.got, order)
    BY <1>1, <1>6 DEF WalkInv, WalkOk
  <2>2. call.ordered = order /\ order \in Seq(Row)
    <3>1. call.ordered \in Sorted(Meant(r, call.seen), OrdersOf(r))
      BY <1>1, KeepsMeans DEF MeaningInv, Keeps
    <3> QED BY <1>1, <1>6, <2>1, <3>1, OrderType DEF OrdersFor
  <2>3. PICK before \in Nat :
           /\ call.first \in Nat /\ r.offset = call.first + before
           /\ before = 0 \/ r.offset <= Len(order)
           /\ walk.got = Slice(order, call.first, before)
    BY <1>1, <2>1, BrowseAssumption DEF Progress
  <2>4. r.limit \in Nat
    BY <1>1 DEF RangeOk, Request
  <2>5. walk'.got = Slice(order, call.first, before + r.limit)
    <3>1. page = Slice(order, call.first + before, r.limit)
      BY <1>4, <2>2, <2>3
    <3> DEFINE first == call.first
               limit == r.limit
    <3>2. first \in Nat /\ limit \in Nat /\ (before = 0 \/ first + before <= Len(order))
      BY <2>3, <2>4
    <3> HIDE DEF first, limit
    <3>3. Slice(order, first, before) \o Slice(order, first + before, limit)
             = Slice(order, first, before + limit)
      BY <2>2, <3>2, SlicesJoin
    <3> QED BY <1>5, <2>3, <3>1, <3>3 DEF first, limit
  <2> HIDE DEF r
  <2> QED BY <1>2, <2>1, <2>3, <2>5 DEF Progress
<1>7. walk.still => call.seen = table
  BY <1>1 DEF WalkInv, WalkOk
<1> QED BY <1>1, <1>2, <1>5, <1>6, <1>7 DEF WalkInv, WalkOk

\* Each step keeps what is known of a walk.
LEMMA WalkNext == BrowseInv /\ MeaningInv /\ WalkInv /\ BrowseInv' /\ [Next]_vars => WalkInv'
<1> SUFFICES ASSUME BrowseInv, MeaningInv, WalkInv, BrowseInv', [Next]_vars PROVE WalkInv'
  OBVIOUS
<1>1. call \in CallType
  BY DEF BrowseInv, TypeOK
<1>2. CASE BindValue \/ BindPattern \/ TestNull
  <2>1. PICK args, terms :
           Become([call EXCEPT !.taken = @ + 1, !.args = args, !.terms = terms])
    <3>1. CASE BindValue \/ BindPattern
      BY <1>1, <3>1 DEF BindValue, BindPattern, Bound
    <3>2. CASE TestNull
      <4>1. Become([call EXCEPT !.taken = @ + 1, !.args = call.args,
                     !.terms = Append(@, [column |-> Filter.column,
                                          operator |-> Filter.operator, place |-> 0])])
        BY <1>1, <3>2 DEF TestNull, CallType
      <4> QED BY <4>1
    <3> QED BY <1>2, <3>1, <3>2
  <2>2. call.pc = "filters"
    BY <1>2 DEF BindValue, BindPattern, TestNull, AtFilter, At
  <2>3. /\ call'.pc = call.pc /\ call'.request = call.request /\ call'.first = call.first
        /\ call'.answer = call.answer /\ walk' = walk /\ table' = table
    BY <1>1, <2>1 DEF Become, CallType
  <2> QED BY <2>2, <2>3, SameWalks
<1>3. CASE RejectFilter \/ Fail
  <2>1. PICK answer \in {"validation", "failed"} : Answer(answer)
    BY <1>3 DEF RejectFilter, Fail
  <2>2. call.pc # "idle"
    BY <1>3 DEF RejectFilter, AtFilter, Fail, At
  <2>3. /\ call'.pc = "done" /\ call'.answer = answer /\ walk' = walk /\ table' = table
    BY <1>1, <2>1 DEF Answer, Become, CallType
  <2> QED BY <2>1, <2>2, <2>3, BrowseAssumption DEF WalkInv, WalkOk, Progress
<1>4. CASE Send
  <2>1. /\ call.pc = "filters" /\ call'.pc = "wait" /\ call'.request = call.request
        /\ call'.first = call.first /\ call'.answer = call.answer
        /\ walk' = walk /\ table' = table
    BY <1>1, <1>4 DEF Send, At, Become, CallType
  <2>2. call.pc # "idle" /\ call'.pc # "idle" /\ call'.pc \notin {"rows", "done"}
    BY <2>1
  <2>3. call'.pc \in {"rows", "done"} /\ call'.answer \in {None, "ok"} =>
           call'.seen = table \/ (call.pc \in {"rows", "done"} /\ call'.seen = call.seen)
    BY <2>1
  <2> QED BY <2>1, <2>2, <2>3, SameWalks
<1>5. CASE Query
  <2>1. /\ call.pc = "wait" /\ call'.pc = "rows" /\ call'.request = call.request
        /\ call'.first = call.first /\ call'.answer = call.answer
        /\ walk' = walk /\ table' = table /\ call'.seen = table
    BY <1>1, <1>5 DEF Query, At, Become, CallType
  <2>2. call.pc # "idle" /\ call'.pc # "idle"
    BY <2>1
  <2>3. call'.pc \in {"rows", "done"} /\ call'.answer \in {None, "ok"} =>
           call'.seen = table \/ (call.pc \in {"rows", "done"} /\ call'.seen = call.seen)
    BY <2>1
  <2> QED BY <2>1, <2>2, <2>3, SameWalks
<1>6. CASE CollectRow
  <2>1. /\ call.pc = "rows" /\ call'.pc = "rows" /\ call'.request = call.request
        /\ call'.first = call.first /\ call'.answer = call.answer
        /\ walk' = walk /\ table' = table /\ call'.seen = call.seen
    BY <1>1, <1>6 DEF CollectRow, At, Become, CallType
  <2>2. call.pc # "idle" /\ call'.pc # "idle" /\ call.pc \in {"rows", "done"}
    BY <2>1
  <2>3. call'.pc \in {"rows", "done"} /\ call'.answer \in {None, "ok"} =>
           call'.seen = table \/ (call.pc \in {"rows", "done"} /\ call'.seen = call.seen)
    BY <2>1
  <2> QED BY <2>1, <2>2, <2>3, SameWalks
<1>7. CASE Write
  <2>1. call' = call /\ walk' = [walk EXCEPT !.still = (call.pc = "idle")]
    BY <1>7 DEF Write, At
  <2>2. walk \in [got : Seq(Row), still : BOOLEAN]
    BY DEF WalkInv, WalkOk
  <2>3. /\ walk' \in [got : Seq(Row), still : BOOLEAN] /\ walk'.got = walk.got
        /\ walk'.still <=> call.pc = "idle"
    BY <2>1, <2>2
  <2> QED BY <2>1, <2>3 DEF WalkInv, WalkOk
<1>8. CASE UNCHANGED vars
  <2>1. call' = call /\ walk' = walk /\ table' = table
    BY <1>8 DEF vars
  <2> QED BY <2>1 DEF WalkInv
<1> QED BY <1>2, <1>3, <1>4, <1>5, <1>6, <1>7, <1>8, AskWalks, TurnWalks, FinishWalks DEF Next

\* A walk that has come to its end has got all there is.
LEMMA WalkEnds == BrowseInv /\ MeaningInv /\ WalkInv => WalkIsComplete
<1> SUFFICES ASSUME BrowseInv, MeaningInv, WalkInv, Answered, ~ call.hasMore, walk.still,
                    call.request.limit < MaxRows,
                    NEW order, OrdersFor(call.request, table) = {order}
             PROVE  walk.got = SubSeq(order, call.first + 1, Len(order))
  BY KeepsMeans DEF WalkIsComplete, OrdersFor
<1> DEFINE r == call.request
<1>1. /\ call.pc = "done" /\ call.answer = "ok" /\ RangeOk(r) /\ table \in Tables
      /\ r \in Request
  BY DEF Answered, At, MeaningInv, Ends, BrowseInv, TypeOK, Knows
<1>2. call.seen = table /\ Progress(call, walk.got, order)
  BY <1>1 DEF WalkInv, WalkOk
<1>3. call.ordered = order /\ Len(order) \in Nat
  <2>1. call.ordered \in Sorted(Meant(r, call.seen), OrdersOf(r))
    BY <1>1, KeepsMeans DEF MeaningInv, Keeps
  <2> QED BY <1>1, <1>2, <2>1, OrderType, LenProperties DEF OrdersFor
<1>4. ~ (Len(order) > r.offset + r.limit)
  BY <1>3 DEF BrowseInv, MoreIsTold
<1>5. PICK before \in Nat :
         /\ call.first \in Nat /\ r.offset = call.first + before
         /\ walk.got = Slice(order, call.first, before + r.limit)
  BY <1>1, <1>2 DEF Progress
<1>6. r.limit \in Nat
  BY <1>1 DEF RangeOk, Request
<1> DEFINE first == call.first
           count == before + r.limit
<1>7. first \in Nat /\ count \in Nat /\ Len(order) <= first + count
  BY <1>3, <1>4, <1>5, <1>6
<1> HIDE DEF first, count
<1>8. Slice(order, first, count) = SubSeq(order, first + 1, Len(order))
  <2>1. first + count <= Len(order) => first + count = Len(order)
    BY <1>3, <1>7
  <2> QED BY <2>1 DEF Slice
<1> QED BY <1>5, <1>8 DEF first, count

\* Turning pages of a table at rest finds every row once and in order (BrowseTable's
\* LIMIT, OFFSET and HasMore), when its order is the only one.
THEOREM WalksComplete == Spec => []WalkIsComplete
<1>1. Init => MeaningInv /\ WalkInv
  <2> SUFFICES ASSUME Init PROVE MeaningInv /\ WalkInv
    OBVIOUS
  <2>1. call.pc = "idle" /\ call.answer = None /\ ~ call.hasMore
        /\ walk = [got |-> <<>>, still |-> TRUE]
    BY DEF Init, Idle
  <2>2. MeaningInv
    BY <2>1, BrowseAssumption DEF MeaningInv, Understood, Ends, FiltersKeepTheirMeaning
  <2>3. WalkInv
    BY <2>1, EmptySeq DEF WalkInv, WalkOk
  <2> QED BY <2>2, <2>3
<1>2. BrowseInv /\ BrowseInv' /\ (MeaningInv /\ WalkInv) /\ [Next]_vars => (MeaningInv /\ WalkInv)'
  BY MeaningNext, WalkNext
<1> QED BY <1>1, <1>2, WalkEnds, Invariance, PTL DEF Spec
=============================================================================
