-------------------------- MODULE RowWrite_proofs --------------------------
(***************************************************************************)
(* Proofs about RowWrite, for every table, every request and any number of *)
(* calls.                                                                  *)
(***************************************************************************)
EXTENDS RowWrite, TLAPS

\* What the actions make of a call's record is such a record.
LEMMA CallStateType ==
    ASSUME NEW k \in CallState
    PROVE  /\ \A n \in Nat : [k EXCEPT !.taken = n] \in CallState
           /\ \A n \in Nat, columns \in Seq(Columns), args \in Seq(Arg) :
                [k EXCEPT !.taken = n, !.columns = columns, !.args = args] \in CallState
           /\ \A n \in Nat, sets \in Seq(Term), args \in Seq(Arg) :
                [k EXCEPT !.taken = n, !.sets = sets, !.args = args] \in CallState
           /\ \A n \in Nat, where \in Seq(Term) :
                [k EXCEPT !.taken = n, !.where = where] \in CallState
           /\ \A n, o \in Nat, where \in Seq(Term), args \in Seq(Arg) :
                [k EXCEPT !.taken = n, !.offset = o, !.where = where,
                          !.whereArgs = args] \in CallState
           /\ \A pc \in {"send", "wait"} : [k EXCEPT !.pc = pc] \in CallState
           /\ \A a \in {"ok", "validation", "failed", "lost"} :
                [k EXCEPT !.pc = "done", !.answer = a] \in CallState
           /\ \A o \in Nat : [k EXCEPT !.pc = "key", !.taken = 0, !.offset = o] \in CallState
           /\ \A r \in Request, pc \in {"values", "key"} :
                [k EXCEPT !.request = r, !.pc = pc] \in CallState
           /\ \A r \in Request :
                [k EXCEPT !.request = r, !.pc = "done", !.answer = "validation"] \in CallState
BY DEF CallState

\* A call that is not made yet.
LEMMA IdleType == Idle \in CallState
<1>1. <<>> \in Seq(Columns) /\ <<>> \in Seq(Term) /\ <<>> \in Seq(Arg) /\ 0 \in Nat
  OBVIOUS
<1> QED
  BY <1>1 DEF Idle, CallState

\* The fields of a call's record.
LEMMA FieldTypes ==
    ASSUME NEW k \in CallState
    PROVE  /\ k.taken \in Nat /\ k.offset \in Nat
           /\ k.columns \in Seq(Columns) /\ k.sets \in Seq(Term) /\ k.where \in Seq(Term)
           /\ k.args \in Seq(Arg) /\ k.whereArgs \in Seq(Arg)
           /\ Len(k.args) \in Nat /\ Len(k.whereArgs) \in Nat
BY DEF CallState

\* The positions up to the next one.
LEMMA NextPlace ==
    ASSUME NEW n \in Nat
    PROVE  /\ \A k \in 1..(n + 1) : k = n + 1 \/ k \in 1..n
           /\ \A k \in 1..n : k \in 1..(n + 1)
           /\ n + 1 \in 1..(n + 1)
OBVIOUS

\* Where a place lies among a statement's placeholders: set of them come
\* before the key's, which are bound so far.
LEMMA KeyPlaces ==
    ASSUME NEW set \in Nat, NEW bound \in Nat, NEW last \in Nat, last = set + bound
    PROVE  /\ last + 1 = set + (bound + 1)
           /\ (last + 1) - set = bound + 1
           /\ last + 1 \in (set + 1)..(last + 1)
           /\ \A p \in (set + 1)..last : p \in (set + 1)..(last + 1) /\ p - set \in 1..bound
           /\ \A p \in (set + 1)..(last + 1) : p = last + 1 \/ p \in (set + 1)..last
OBVIOUS

LEMMA AllPlaces ==
    ASSUME NEW set \in Nat, NEW bound \in Nat
    PROVE  /\ \A p \in (set + 1)..bound : p # 0
           /\ \A p \in (set + 1)..(set + bound) : p # 0
           /\ 1..(set + bound) = (1..set) \cup ((set + 1)..(set + bound))
<1>1. \A p \in Nat : p \in 1..(set + bound) <=> p \in 1..set \/ p \in (set + 1)..(set + bound)
  OBVIOUS
<1>2. \A p \in (1..set) \cup ((set + 1)..(set + bound)) \cup 1..(set + bound) : p \in Nat
  OBVIOUS
<1>3. \A p \in (set + 1)..bound : p # 0
  OBVIOUS
<1>4. \A p \in (set + 1)..(set + bound) : p # 0
  OBVIOUS
<1> QED
  BY <1>1, <1>2, <1>3, <1>4, Zenon

\* The lists of a request, and what is in them.
LEMMA ListTypes ==
    ASSUME NEW r \in Request
    PROVE  /\ r.values \in Seq(RowValue) /\ r.key \in Seq(RowValue)
           /\ Len(r.values) \in Nat /\ Len(r.key) \in Nat
           /\ \A k \in 1..Len(r.values) :
                /\ r.values[k].name \in Columns
                /\ r.values[k] = [name |-> r.values[k].name, value |-> r.values[k].value]
           /\ \A k \in 1..Len(r.key) : r.key[k].name \in Columns
<1>1. r.values \in Seq(RowValue) /\ r.key \in Seq(RowValue)
  BY DEF Request
<1>2. \A v \in RowValue : v.name \in Columns /\ v = [name |-> v.name, value |-> v.value]
  BY DEF RowValue
<1> QED
  BY <1>1, <1>2

(***************************************************************************)
(* Going through a list, one row at a time.  In each lemma new is the      *)
(* call's record after the step and cl before it.                          *)
(***************************************************************************)
\* SkipDefault keeps what InsertScanned says of the list so far.
LEMMA SkipScanned ==
    ASSUME NEW cl \in CallState, NEW new \in CallState, cl.request \in Request,
           cl.taken < Len(cl.request.values),
           cl.request.values[cl.taken + 1].value = DEFAULT,
           cl.pc = "values", new.pc = "values", new.request = cl.request,
           new.taken = cl.taken + 1, new.columns = cl.columns, new.args = cl.args,
           new.where = cl.where, new.whereArgs = cl.whereArgs,
           InsertScanned(cl)
    PROVE  InsertScanned(new)
<1>1. cl.taken \in Nat /\ Len(cl.request.values) \in Nat
  BY ListTypes DEF CallState
<1>2. \A k \in 1..(cl.taken + 1) : k \in 1..cl.taken \/ k = cl.taken + 1
  BY <1>1
<1>3. \A k \in 1..cl.taken : k \in 1..(cl.taken + 1)
  BY <1>1
<1> QED
  BY <1>1, <1>2, <1>3 DEF InsertScanned

\* BindColumn, too: the new row has a column and an argument of its own.
LEMMA BindScanned ==
    ASSUME NEW cl \in CallState, NEW new \in CallState, cl.request \in Request,
           cl.taken < Len(cl.request.values),
           NEW row, row = cl.request.values[cl.taken + 1],
           cl.pc = "values", new.pc = "values", new.request = cl.request,
           new.taken = cl.taken + 1, new.columns = Append(cl.columns, row.name),
           new.args = Append(cl.args, row.value),
           new.where = cl.where, new.whereArgs = cl.whereArgs,
           InsertScanned(cl)
    PROVE  InsertScanned(new)
<1> DEFINE values == cl.request.values
           n == Len(cl.args)
           m == cl.taken
           RowOf(c, j) == [name |-> c.columns[j], value |-> c.args[j]]
<1>1. m \in Nat /\ Len(values) \in Nat /\ n \in Nat /\ m + 1 \in 1..Len(values)
  BY ListTypes, FieldTypes
<1>2. row = [name |-> row.name, value |-> row.value]
  BY ListTypes, <1>1
<1>3. cl.columns \in Seq(Columns) /\ cl.args \in Seq(Arg) /\ Len(cl.columns) = n
  BY FieldTypes DEF InsertScanned
<1>4. /\ Len(new.columns) = n + 1 /\ Len(new.args) = n + 1
      /\ new.columns[n + 1] = row.name /\ new.args[n + 1] = row.value
      /\ \A j \in 1..n : new.columns[j] = cl.columns[j] /\ new.args[j] = cl.args[j]
  BY <1>3, <1>1
<1>5. RowOf(new, n + 1) = values[m + 1] /\ \A j \in 1..n : RowOf(new, j) = RowOf(cl, j)
  BY <1>2, <1>4
<1>6. /\ \A j \in 1..n : \E k \in 1..m : values[k] = RowOf(cl, j)
      /\ \A k \in 1..m : values[k].value = DEFAULT \/ \E j \in 1..n : values[k] = RowOf(cl, j)
  BY DEF InsertScanned
<1>7. /\ new.taken = m + 1 /\ m + 1 <= Len(values) /\ Len(new.columns) = Len(new.args)
      /\ new.where = <<>> /\ new.whereArgs = <<>> /\ Len(new.args) = n + 1
  BY <1>1, <1>4 DEF InsertScanned
<1> HIDE DEF values, n, m, RowOf
<1>8. ASSUME NEW j \in 1..(n + 1)
      PROVE  \E k \in 1..(m + 1) : values[k] = RowOf(new, j)
  <2>1. CASE j = n + 1
    BY <2>1, <1>5, <1>1, NextPlace
  <2>2. CASE j \in 1..n
    <3>1. PICK k \in 1..m : values[k] = RowOf(cl, j)
      BY <2>2, <1>6
    <3>2. k \in 1..(m + 1)
      BY <1>1, NextPlace
    <3> QED
      BY <3>1, <3>2, <2>2, <1>5
  <2> QED
    BY <2>1, <2>2, <1>1, NextPlace
<1>9. ASSUME NEW k \in 1..(m + 1), values[k].value # DEFAULT
      PROVE  \E j \in 1..(n + 1) : values[k] = RowOf(new, j)
  <2>1. CASE k = m + 1
    BY <2>1, <1>5, <1>1, NextPlace
  <2>2. CASE k \in 1..m
    <3>1. PICK j \in 1..n : values[k] = RowOf(cl, j)
      BY <2>2, <1>6, <1>9
    <3>2. j \in 1..(n + 1)
      BY <1>1, NextPlace
    <3> QED
      BY <3>1, <3>2, <1>5
  <2> QED
    BY <2>1, <2>2, <1>1, NextPlace
<1>10. \A j \in 1..Len(new.args) : \E k \in 1..new.taken : values[k] = RowOf(new, j)
  BY <1>7, <1>8
<1>11. \A k \in 1..new.taken :
          values[k].value = DEFAULT \/ \E j \in 1..Len(new.args) : values[k] = RowOf(new, j)
  BY <1>7, <1>9
<1>12. new.taken <= Len(values)
  BY <1>7
<1>13. new.request.values = values
  BY DEF values
<1> QED
  BY <1>7, <1>10, <1>11, <1>12, <1>13 DEF InsertScanned, RowOf

\* SetColumn numbers its term with the place its argument gets.
LEMMA SetScanned ==
    ASSUME NEW cl \in CallState, NEW new \in CallState, cl.request \in Request,
           cl.taken < Len(cl.request.values),
           NEW row, row = cl.request.values[cl.taken + 1],
           new.request = cl.request, new.taken = cl.taken + 1,
           new.sets = Append(cl.sets, [column |-> row.name, place |-> Len(cl.args) + 1]),
           new.args = Append(cl.args, row.value),
           SetsScanned(cl, cl.taken)
    PROVE  SetsScanned(new, new.taken)
<1> DEFINE values == cl.request.values
           n == cl.taken
           term == [column |-> row.name, place |-> n + 1]
<1>1. /\ n \in Nat /\ Len(values) \in Nat /\ n + 1 \in 1..Len(values)
      /\ cl.sets \in Seq(Term) /\ cl.args \in Seq(Arg)
  BY ListTypes, FieldTypes
<1>2. Len(cl.sets) = n /\ Len(cl.args) = n
  BY DEF SetsScanned
<1>3. new.sets = Append(cl.sets, term)
  BY <1>2
<1>4. \A k \in 1..n : /\ cl.sets[k] = [column |-> values[k].name, place |-> k]
                      /\ cl.args[k] = values[k].value
  BY DEF SetsScanned
<1>5. term = [column |-> values[n + 1].name, place |-> n + 1]
  OBVIOUS
<1> HIDE DEF term
<1>6. /\ Len(new.sets) = n + 1 /\ Len(new.args) = n + 1
      /\ new.sets[n + 1] = term /\ new.args[n + 1] = row.value
      /\ \A j \in 1..n : new.sets[j] = cl.sets[j] /\ new.args[j] = cl.args[j]
  BY <1>1, <1>2, <1>3
<1>7. ASSUME NEW k \in 1..(n + 1)
      PROVE  /\ new.sets[k] = [column |-> values[k].name, place |-> k]
             /\ new.args[k] = values[k].value
  <2>1. CASE k = n + 1
    BY <2>1, <1>5, <1>6
  <2>2. CASE k \in 1..n
    BY <2>2, <1>4, <1>6
  <2> QED
    BY <2>1, <2>2, <1>1, NextPlace
<1>8. n + 1 <= Len(values)
  BY <1>1
<1> QED
  BY <1>6, <1>7, <1>8 DEF SetsScanned

\* BindKey on a NULL adds a term without a placeholder.
LEMMA NullKeyScanned ==
    ASSUME NEW cl \in CallState, NEW new \in CallState, cl.request \in Request,
           cl.taken < Len(cl.request.key),
           NEW row, row = cl.request.key[cl.taken + 1], row.value = NULL,
           new.pc = "key", new.request = cl.request, new.args = cl.args,
           new.taken = cl.taken + 1, new.offset = cl.offset, new.whereArgs = cl.whereArgs,
           new.where = Append(cl.where, [column |-> row.name, place |-> 0]),
           KeyScanned(cl)
    PROVE  KeyScanned(new)
<1> DEFINE key == cl.request.key
           sets == Len(cl.args)
           n == cl.taken
           term == [column |-> row.name, place |-> 0]
<1>1. /\ n \in Nat /\ Len(key) \in Nat /\ n + 1 \in 1..Len(key)
      /\ cl.where \in Seq(Term) /\ Len(cl.where) = n
  BY ListTypes, FieldTypes DEF KeyScanned
<1>2. term.column = key[n + 1].name /\ term.place = 0 /\ key[n + 1].value = NULL
  OBVIOUS
<1>3. cl.offset = sets + Len(cl.whereArgs)
  BY DEF KeyScanned
<1>4. \A k \in 1..n :
        /\ cl.where[k].column = key[k].name
        /\ key[k].value = NULL => cl.where[k].place = 0
        /\ key[k].value # NULL =>
              /\ cl.where[k].place \in (sets + 1)..cl.offset
              /\ cl.whereArgs[cl.where[k].place - sets] = key[k].value
  BY DEF KeyScanned
<1>5. \A p \in (sets + 1)..cl.offset : \E k \in 1..n : cl.where[k].place = p
  BY DEF KeyScanned
<1> HIDE DEF term
<1>6. /\ Len(new.where) = n + 1 /\ new.where[n + 1] = term
      /\ \A k \in 1..n : new.where[k] = cl.where[k]
  BY <1>1 DEF term
<1> HIDE DEF sets, n
<1>7. ASSUME NEW k \in 1..(n + 1)
      PROVE  /\ new.where[k].column = key[k].name
             /\ key[k].value = NULL => new.where[k].place = 0
             /\ key[k].value # NULL =>
                   /\ new.where[k].place \in (sets + 1)..cl.offset
                   /\ cl.whereArgs[new.where[k].place - sets] = key[k].value
  <2>1. CASE k = n + 1
    BY <2>1, <1>2, <1>6
  <2>2. CASE k \in 1..n
    BY <2>2, <1>4, <1>6
  <2> QED
    BY <2>1, <2>2, <1>1, NextPlace
<1>8. ASSUME NEW p \in (sets + 1)..cl.offset
      PROVE  \E k \in 1..(n + 1) : new.where[k].place = p
  BY <1>1, <1>5, <1>6, NextPlace
<1>9. new.taken = n + 1 /\ n + 1 <= Len(key)
  BY <1>1 DEF n
<1>10. sets = Len(new.args)
  BY DEF sets
<1>11. \A k \in 1..new.taken :
          /\ new.where[k].column = new.request.key[k].name
          /\ new.request.key[k].value = NULL => new.where[k].place = 0
          /\ new.request.key[k].value # NULL =>
                /\ new.where[k].place \in (Len(new.args) + 1)..new.offset
                /\ new.whereArgs[new.where[k].place - Len(new.args)] = new.request.key[k].value
  BY <1>7, <1>9, <1>10
<1>12. \A p \in (Len(new.args) + 1)..new.offset : \E k \in 1..new.taken : new.where[k].place = p
  BY <1>8, <1>9, <1>10
<1>13. /\ new.offset = Len(new.args) + Len(new.whereArgs)
       /\ new.taken <= Len(new.request.key) /\ Len(new.where) = new.taken
  BY <1>3, <1>6, <1>9, <1>10
<1> QED
  BY <1>11, <1>12, <1>13 DEF KeyScanned

\* BindKey on any other value numbers its term after all the others.
LEMMA BoundKeyScanned ==
    ASSUME NEW cl \in CallState, NEW new \in CallState, cl.request \in Request,
           cl.taken < Len(cl.request.key),
           NEW row, row = cl.request.key[cl.taken + 1], row.value # NULL,
           new.pc = "key", new.request = cl.request, new.args = cl.args,
           new.taken = cl.taken + 1, new.offset = cl.offset + 1,
           new.whereArgs = Append(cl.whereArgs, row.value),
           new.where = Append(cl.where, [column |-> row.name, place |-> cl.offset + 1]),
           KeyScanned(cl)
    PROVE  KeyScanned(new)
<1> DEFINE key == cl.request.key
           sets == Len(cl.args)
           bindings == Len(cl.whereArgs)
           n == cl.taken
           off == cl.offset
           term == [column |-> row.name, place |-> off + 1]
<1>1. /\ n \in Nat /\ Len(key) \in Nat /\ n + 1 \in 1..Len(key)
      /\ sets \in Nat /\ bindings \in Nat /\ off \in Nat
      /\ cl.where \in Seq(Term) /\ cl.whereArgs \in Seq(Arg)
  BY ListTypes, FieldTypes
<1>2. /\ term.column = key[n + 1].name /\ term.place = off + 1
      /\ key[n + 1].value = row.value
  OBVIOUS
<1>3. off = sets + bindings /\ Len(cl.where) = n
  BY DEF KeyScanned
<1>4. \A k \in 1..n :
        /\ cl.where[k].column = key[k].name
        /\ key[k].value = NULL => cl.where[k].place = 0
        /\ key[k].value # NULL =>
              /\ cl.where[k].place \in (sets + 1)..off
              /\ cl.whereArgs[cl.where[k].place - sets] = key[k].value
  BY DEF KeyScanned
<1>5. \A p \in (sets + 1)..off : \E k \in 1..n : cl.where[k].place = p
  BY DEF KeyScanned
<1> HIDE DEF term
<1>6. /\ Len(new.where) = n + 1 /\ new.where[n + 1] = term
      /\ \A k \in 1..n : new.where[k] = cl.where[k]
  BY <1>1, <1>3 DEF term
<1>7. Len(new.whereArgs) = bindings + 1
  BY <1>1
<1>8. /\ new.whereArgs[bindings + 1] = row.value
      /\ \A k \in 1..bindings : new.whereArgs[k] = cl.whereArgs[k]
  BY <1>1
<1>9. new.taken = n + 1 /\ n + 1 <= Len(key) /\ new.offset = off + 1 /\ sets = Len(new.args)
  BY <1>1
<1>10. n \in Nat /\ sets \in Nat /\ bindings \in Nat /\ off \in Nat /\ off = sets + bindings
  BY <1>1, <1>3
<1> HIDE DEF sets, n, bindings, off
<1>11. new.offset = sets + Len(new.whereArgs)
  <2>1. off + 1 = sets + (bindings + 1)
    BY <1>10, KeyPlaces
  <2> QED
    BY <2>1, <1>7, <1>9, Zenon
<1>12. ASSUME NEW k \in 1..(n + 1)
      PROVE  /\ new.where[k].column = key[k].name
             /\ key[k].value = NULL => new.where[k].place = 0
             /\ key[k].value # NULL =>
                   /\ new.where[k].place \in (sets + 1)..(off + 1)
                   /\ new.whereArgs[new.where[k].place - sets] = key[k].value
  <2>1. CASE k = n + 1
    <3>1. (off + 1) - sets = bindings + 1 /\ off + 1 \in (sets + 1)..(off + 1)
      BY <1>10, KeyPlaces
    <3> QED
      BY <3>1, <2>1, <1>2, <1>6, <1>8
  <2>2. CASE k \in 1..n
    <3>1. \A p \in (sets + 1)..off : p \in (sets + 1)..(off + 1) /\ p - sets \in 1..bindings
      BY <1>10, KeyPlaces
    <3> QED
      BY <3>1, <2>2, <1>4, <1>6, <1>8
  <2> QED
    BY <2>1, <2>2, <1>10, NextPlace
<1>13. ASSUME NEW p \in (sets + 1)..(off + 1)
       PROVE  \E k \in 1..(n + 1) : new.where[k].place = p
  <2>1. p = off + 1 \/ p \in (sets + 1)..off
    BY <1>10, KeyPlaces
  <2> QED
    BY <2>1, <1>10, <1>2, <1>5, <1>6, NextPlace
<1>14. \A k \in 1..new.taken :
          /\ new.where[k].column = new.request.key[k].name
          /\ new.request.key[k].value = NULL => new.where[k].place = 0
          /\ new.request.key[k].value # NULL =>
                /\ new.where[k].place \in (Len(new.args) + 1)..new.offset
                /\ new.whereArgs[new.where[k].place - Len(new.args)] = new.request.key[k].value
  BY <1>9, <1>12
<1>15. \A p \in (Len(new.args) + 1)..new.offset : \E k \in 1..new.taken : new.where[k].place = p
  BY <1>9, <1>13
<1>16. /\ new.offset = Len(new.args) + Len(new.whereArgs)
       /\ new.taken <= Len(new.request.key) /\ Len(new.where) = new.taken
  BY <1>6, <1>9, <1>11
<1> QED
  BY <1>14, <1>15, <1>16 DEF KeyScanned

(***************************************************************************)
(* The inductive invariant, action by action.                              *)
(***************************************************************************)
\* What Become does to the calls.
LEMMA BecomeFrame ==
    ASSUME TypeOK, NEW c \in Calls, NEW new \in CallState, Become(c, new)
    PROVE  /\ call' \in [Calls -> CallState] /\ call'[c] = new
           /\ \A d \in Calls : d # c => call'[d] = call[d]
BY DEF TypeOK, Become

\* A step of one call, or of its connection, leaves the others as they are.
LEMMA OthersKeep ==
    ASSUME IInv, NEW c \in Calls, TypeOK',
           \A d \in Calls : d # c => /\ call'[d] = call[d] /\ wire'[d] = wire[d]
                                    /\ applied'[d] = applied[d],
           HistoryFits(c)', Active(c)' => Scanned(call'[c])
    PROVE  IInv'
<1>1. ASSUME NEW d \in Calls
      PROVE  HistoryFits(d)' /\ (Active(d)' => Scanned(call'[d]))
  <2>1. CASE d = c
    BY <2>1
  <2>2. CASE d # c
    <3>1. call'[d] = call[d] /\ wire'[d] = wire[d] /\ applied'[d] = applied[d]
      BY <2>2
    <3>2. HistoryFits(d) /\ (Active(d) => Scanned(call[d]))
      BY DEF IInv
    <3>3. HistoryFits(d)'
      BY <3>1, <3>2 DEF HistoryFits, At, Op
    <3>4. Active(d)' => Active(d)
      BY <3>1 DEF Active
    <3>5. Scanned(call'[d]) = Scanned(call[d])
      BY <3>1
    <3> QED
      BY <3>2, <3>3, <3>4, <3>5
  <2> QED
    BY <2>1, <2>2
<1> QED
  BY <1>1 DEF IInv

\* A step that goes on with a list, or with the next one.
LEMMA ListStep ==
    ASSUME IInv, NEW c \in Calls, call[c].pc \notin {"wait", "done"},
           NEW new \in CallState, Become(c, new), UNCHANGED <<table, wire, applied>>,
           new.request \in Request, new.answer = None,
           new.pc \in {"values", "key", "send"}, Scanned(new)
    PROVE  IInv'
<1>1. TypeOK /\ wire[c] = "idle" /\ applied[c] = 0
  BY DEF IInv, HistoryFits
<1>2. /\ call' \in [Calls -> CallState] /\ call'[c] = new
      /\ \A d \in Calls : d # c => call'[d] = call[d]
  BY <1>1, BecomeFrame
<1>3. TypeOK'
  BY <1>1, <1>2 DEF TypeOK
<1>4. None \notin {"ok", "validation", "failed", "lost"}
  BY RowWriteAssumption
<1>5. HistoryFits(c)'
  BY <1>1, <1>2, <1>4 DEF HistoryFits, At
<1>6. Scanned(call'[c])
  BY <1>2
<1> QED
  BY <1>2, <1>3, <1>5, <1>6, OthersKeep

\* A call that is over before anything is sent: rejected, or an UPDATE of
\* nothing.
LEMMA EarlyAnswer ==
    ASSUME IInv, NEW c \in Calls, call[c].pc \notin {"wait", "done"},
           NEW new \in CallState, Become(c, new), UNCHANGED <<table, wire, applied>>,
           new.request \in Request, new.pc = "done",
           \/ new.answer = "validation"
           \/ new.answer = "ok" /\ new.request.op = "update" /\ new.request.values = <<>>
    PROVE  IInv'
<1>1. TypeOK /\ wire[c] = "idle" /\ applied[c] = 0
  BY DEF IInv, HistoryFits
<1>2. /\ call' \in [Calls -> CallState] /\ call'[c] = new
      /\ \A d \in Calls : d # c => call'[d] = call[d]
  BY <1>1, BecomeFrame
<1>3. TypeOK'
  BY <1>1, <1>2 DEF TypeOK
<1>4. HistoryFits(c)'
  <2>1. wire'[c] = "idle" /\ applied'[c] = 0
    BY <1>1
  <2>2. CASE new.answer = "validation"
    BY <1>2, <2>1, <2>2 DEF HistoryFits, At, Op
  <2>3. CASE new.answer = "ok" /\ new.request.op = "update" /\ new.request.values = <<>>
    BY <1>2, <2>1, <2>3 DEF HistoryFits, At, Op
  <2> QED
    BY <2>2, <2>3
<1>5. ~ Active(c)'
  BY <1>1, <1>2 DEF Active
<1> QED
  BY <1>2, <1>3, <1>4, <1>5, OthersKeep

\* What the invariant says of a call that goes through a list.
LEMMA InList ==
    ASSUME IInv, NEW c \in Calls, call[c].pc \in {"values", "key", "send", "wait"}
    PROVE  /\ call[c] \in CallState /\ call[c].request \in Request
           /\ call[c].answer = None /\ Scanned(call[c])
<1>1. HistoryFits(c) /\ (Active(c) => Scanned(call[c]))
  BY DEF IInv
<1> QED
  BY <1>1 DEF IInv, TypeOK, HistoryFits, Active

\* Nothing of a call has been gone through before it begins.
LEMMA StartScanned ==
    ASSUME NEW new \in CallState, new.request \in Request,
           new.taken = 0, new.columns = <<>>, new.sets = <<>>, new.args = <<>>,
           new.where = <<>>, new.whereArgs = <<>>, new.offset = 0,
           \/ new.request.op \in {"insert", "update"} /\ new.pc = "values"
           \/ new.request.op = "delete" /\ new.pc = "key"
    PROVE  Scanned(new)
<1>1. /\ Len(new.request.values) \in Nat /\ Len(new.request.key) \in Nat
      /\ Len(new.args) = 0 /\ Len(new.columns) = 0 /\ Len(new.sets) = 0
      /\ Len(new.where) = 0 /\ Len(new.whereArgs) = 0
  BY ListTypes
<1>2. CASE new.request.op = "insert" /\ new.pc = "values"
  BY <1>1, <1>2 DEF Scanned, InsertScanned
<1>3. CASE new.request.op = "update" /\ new.pc = "values"
  BY <1>1, <1>3 DEF Scanned, SetsScanned
<1>4. CASE new.request.op = "delete" /\ new.pc = "key"
  <2>1. KeyScanned(new)
    BY <1>1, <1>4 DEF KeyScanned
  <2> QED
    BY <2>1, <1>4 DEF Scanned
<1> QED
  BY <1>2, <1>3, <1>4

LEMMA ReceiveKeeps ==
    ASSUME IInv, NEW c \in Calls, NEW r \in Requests, Receive(c, r)
    PROVE  IInv'
<1>1. r \in Request /\ call[c].pc = "idle" /\ UNCHANGED <<table, wire, applied>>
  BY RowWriteAssumption DEF Receive, At
<1>2. CASE r.op \in {"insert", "update"}
  <2> DEFINE new == [Idle EXCEPT !.request = r, !.pc = "values"]
  <2>1. new \in CallState
    BY <1>1, IdleType, CallStateType
  <2>2. Become(c, new)
    BY <1>2 DEF Receive
  <2>3. /\ new.request = r /\ new.pc = "values" /\ new.answer = None /\ new.taken = 0
        /\ new.columns = <<>> /\ new.sets = <<>> /\ new.args = <<>>
        /\ new.where = <<>> /\ new.whereArgs = <<>> /\ new.offset = 0
    BY DEF Idle
  <2> HIDE DEF new
  <2>4. Scanned(new)
    BY <1>1, <1>2, <2>1, <2>3, StartScanned
  <2> QED
    BY <1>1, <2>1, <2>2, <2>3, <2>4, ListStep
<1>3. CASE r.op = "delete"
  <2> DEFINE new == [Idle EXCEPT !.request = r, !.pc = "key"]
  <2>1. new \in CallState
    BY <1>1, IdleType, CallStateType
  <2>2. Become(c, new)
    BY <1>3 DEF Receive
  <2>3. /\ new.request = r /\ new.pc = "key" /\ new.answer = None /\ new.taken = 0
        /\ new.columns = <<>> /\ new.sets = <<>> /\ new.args = <<>>
        /\ new.where = <<>> /\ new.whereArgs = <<>> /\ new.offset = 0
    BY DEF Idle
  <2> HIDE DEF new
  <2>4. Scanned(new)
    BY <1>1, <1>3, <2>1, <2>3, StartScanned
  <2> QED
    BY <1>1, <2>1, <2>2, <2>3, <2>4, ListStep
<1>4. CASE r.op \notin {"insert", "update", "delete"}
  <2> DEFINE new == [Idle EXCEPT !.request = r, !.pc = "done", !.answer = "validation"]
  <2>1. new \in CallState
    BY <1>1, IdleType, CallStateType
  <2>2. Become(c, new)
    BY <1>4 DEF Receive
  <2>3. new.request = r /\ new.pc = "done" /\ new.answer = "validation"
    BY DEF Idle
  <2> HIDE DEF new
  <2> QED
    BY <1>1, <2>1, <2>2, <2>3, EarlyAnswer
<1> QED
  BY <1>2, <1>3, <1>4

LEMMA SkipDefaultKeeps ==
    ASSUME IInv, NEW c \in Calls, SkipDefault(c)
    PROVE  IInv'
<1> DEFINE cl == call[c]
           new == [cl EXCEPT !.taken = @ + 1]
<1>1. /\ cl.pc = "values" /\ cl.request.op = "insert" /\ cl.taken < Len(cl.request.values)
      /\ cl.request.values[cl.taken + 1].value = DEFAULT
      /\ Become(c, new) /\ UNCHANGED <<table, wire, applied>>
  BY DEF SkipDefault, AtValue, At, Op, More, NextValue, NextOf
<1>2. cl \in CallState /\ cl.request \in Request /\ cl.answer = None /\ Scanned(cl)
  BY <1>1, InList
<1>3. InsertScanned(cl)
  BY <1>1, <1>2 DEF Scanned
<1>4. cl.taken + 1 \in Nat
  BY <1>2, FieldTypes
<1>5. new \in CallState
  BY <1>2, <1>4, CallStateType
<1>6. /\ new.pc = cl.pc /\ new.request = cl.request /\ new.taken = cl.taken + 1
      /\ new.columns = cl.columns /\ new.args = cl.args /\ new.where = cl.where
      /\ new.whereArgs = cl.whereArgs /\ new.answer = cl.answer
  BY <1>2 DEF CallState
<1> HIDE DEF new, cl
<1>7. InsertScanned(new)
  BY <1>1, <1>2, <1>3, <1>5, <1>6, SkipScanned
<1>8. Scanned(new)
  BY <1>1, <1>6, <1>7 DEF Scanned
<1> QED
  BY <1>1, <1>2, <1>5, <1>6, <1>8, ListStep DEF cl

LEMMA BindColumnKeeps ==
    ASSUME IInv, NEW c \in Calls, BindColumn(c)
    PROVE  IInv'
<1> DEFINE cl == call[c]
           row == cl.request.values[cl.taken + 1]
           new == [cl EXCEPT !.taken = @ + 1, !.columns = Append(@, row.name),
                             !.args = Append(@, row.value)]
<1>1. /\ cl.pc = "values" /\ cl.request.op = "insert" /\ cl.taken < Len(cl.request.values)
      /\ row.value \in Arg
      /\ Become(c, new) /\ UNCHANGED <<table, wire, applied>>
  BY DEF BindColumn, AtValue, At, Op, More, NextValue, NextOf, Bindable
<1>2. cl \in CallState /\ cl.request \in Request /\ cl.answer = None /\ Scanned(cl)
  BY <1>1, InList
<1>3. InsertScanned(cl)
  BY <1>1, <1>2 DEF Scanned
<1>4. cl.taken + 1 \in Nat /\ cl.taken + 1 \in 1..Len(cl.request.values)
  BY <1>1, <1>2, FieldTypes, ListTypes
<1>5. row.name \in Columns
  BY <1>2, <1>4, ListTypes
<1>6. Append(cl.columns, row.name) \in Seq(Columns) /\ Append(cl.args, row.value) \in Seq(Arg)
  BY <1>1, <1>2, <1>5, FieldTypes
<1>7. new \in CallState
  BY <1>2, <1>4, <1>6, CallStateType
<1>8. /\ new.pc = cl.pc /\ new.request = cl.request /\ new.taken = cl.taken + 1
      /\ new.columns = Append(cl.columns, row.name) /\ new.args = Append(cl.args, row.value)
      /\ new.where = cl.where /\ new.whereArgs = cl.whereArgs /\ new.answer = cl.answer
  BY <1>2 DEF CallState
<1>9. row = cl.request.values[cl.taken + 1]
  OBVIOUS
<1> HIDE DEF new, row, cl
<1>10. InsertScanned(new)
  BY <1>1, <1>2, <1>3, <1>7, <1>8, <1>9, BindScanned
<1>11. Scanned(new)
  BY <1>1, <1>8, <1>10 DEF Scanned
<1> QED
  BY <1>1, <1>2, <1>7, <1>8, <1>11, ListStep DEF cl

LEMMA SetColumnKeeps ==
    ASSUME IInv, NEW c \in Calls, SetColumn(c)
    PROVE  IInv'
<1> DEFINE cl == call[c]
           row == cl.request.values[cl.taken + 1]
           term == [column |-> row.name, place |-> Len(cl.args) + 1]
           new == [cl EXCEPT !.taken = @ + 1, !.sets = Append(@, term),
                             !.args = Append(@, row.value)]
<1>1. /\ cl.pc = "values" /\ cl.request.op = "update" /\ cl.taken < Len(cl.request.values)
      /\ row.value \in Arg
      /\ Become(c, new) /\ UNCHANGED <<table, wire, applied>>
  BY DEF SetColumn, AtValue, At, Op, More, NextValue, NextOf, Bindable
<1>2. cl \in CallState /\ cl.request \in Request /\ cl.answer = None /\ Scanned(cl)
  BY <1>1, InList
<1>3. SetsScanned(cl, cl.taken) /\ cl.where = <<>> /\ cl.whereArgs = <<>>
  BY <1>1, <1>2 DEF Scanned
<1>4. cl.taken + 1 \in Nat /\ cl.taken + 1 \in 1..Len(cl.request.values)
  BY <1>1, <1>2, FieldTypes, ListTypes
<1>5. row.name \in Columns
  BY <1>2, <1>4, ListTypes
<1>6. term \in Term
  BY <1>2, <1>5, FieldTypes DEF Term
<1>7. Append(cl.sets, term) \in Seq(Term) /\ Append(cl.args, row.value) \in Seq(Arg)
  BY <1>1, <1>2, <1>6, FieldTypes
<1>8. new \in CallState
  BY <1>2, <1>4, <1>7, CallStateType
<1>9. /\ new.pc = cl.pc /\ new.request = cl.request /\ new.taken = cl.taken + 1
      /\ new.sets = Append(cl.sets, term) /\ new.args = Append(cl.args, row.value)
      /\ new.where = cl.where /\ new.whereArgs = cl.whereArgs /\ new.answer = cl.answer
  BY <1>2 DEF CallState
<1>10. /\ row = cl.request.values[cl.taken + 1]
       /\ term = [column |-> row.name, place |-> Len(cl.args) + 1]
  OBVIOUS
<1> HIDE DEF new, term, row, cl
<1>11. SetsScanned(new, new.taken)
  BY <1>1, <1>2, <1>3, <1>8, <1>9, <1>10, SetScanned
<1>12. Scanned(new)
  BY <1>1, <1>3, <1>9, <1>11 DEF Scanned
<1> QED
  BY <1>1, <1>2, <1>8, <1>9, <1>12, ListStep DEF cl

\* RejectValue and RejectKey.
LEMMA RejectKeeps ==
    ASSUME IInv, NEW c \in Calls, call[c].pc \in {"values", "key"}, Answer(c, "validation"),
           UNCHANGED <<table, wire, applied>>
    PROVE  IInv'
<1> DEFINE new == [call[c] EXCEPT !.pc = "done", !.answer = "validation"]
<1>1. call[c] \in CallState /\ call[c].request \in Request
  BY InList
<1>2. new \in CallState
  BY <1>1, CallStateType
<1>3. new.pc = "done" /\ new.request = call[c].request /\ new.answer = "validation"
  BY <1>1 DEF CallState
<1>4. Become(c, new)
  BY DEF Answer
<1> HIDE DEF new
<1> QED
  BY <1>1, <1>2, <1>3, <1>4, EarlyAnswer

\* What the two invariants say of a list does not depend on what the call
\* does next, once it has been gone through.
LEMMA SameInsertScanned ==
    ASSUME NEW cl, NEW new, InsertScanned(cl), cl.taken = Len(cl.request.values),
           new.request = cl.request, new.taken = cl.taken, new.columns = cl.columns,
           new.args = cl.args, new.where = cl.where, new.whereArgs = cl.whereArgs
    PROVE  InsertScanned(new)
<1> DEFINE RowOf(c, j) == [name |-> c.columns[j], value |-> c.args[j]]
<1>1. \A j : RowOf(new, j) = RowOf(cl, j)
  OBVIOUS
<1>2. /\ \A j \in 1..Len(cl.args) : \E k \in 1..cl.taken : cl.request.values[k] = RowOf(cl, j)
      /\ \A k \in 1..cl.taken :
            \/ cl.request.values[k].value = DEFAULT
            \/ \E j \in 1..Len(cl.args) : cl.request.values[k] = RowOf(cl, j)
  BY DEF InsertScanned
<1> HIDE DEF RowOf
<1>3. \A j \in 1..Len(new.args) : \E k \in 1..new.taken : new.request.values[k] = RowOf(new, j)
  BY <1>1, <1>2
<1>4. \A k \in 1..new.taken :
         \/ new.request.values[k].value = DEFAULT
         \/ \E j \in 1..Len(new.args) : new.request.values[k] = RowOf(new, j)
  BY <1>1, <1>2
<1>5. /\ new.where = <<>> /\ new.whereArgs = <<>> /\ new.taken <= Len(new.request.values)
      /\ new.taken = Len(new.request.values) /\ Len(new.columns) = Len(new.args)
  BY DEF InsertScanned
<1> QED
  BY <1>3, <1>4, <1>5 DEF InsertScanned, RowOf

LEMMA SameKeyScanned ==
    ASSUME NEW cl \in CallState, NEW new \in CallState, KeyScanned(cl), cl.taken = Len(cl.request.key),
           cl.request.key # <<>>,
           new.request = cl.request, new.taken = cl.taken, new.offset = cl.offset,
           new.args = cl.args, new.where = cl.where, new.whereArgs = cl.whereArgs
    PROVE  KeyScanned(new)
<1>1. /\ new.offset = Len(new.args) + Len(new.whereArgs)
      /\ new.taken <= Len(new.request.key) /\ Len(new.where) = new.taken
      /\ new.taken = Len(new.request.key) /\ new.request.key # <<>>
  BY DEF KeyScanned
<1>2. \A k \in 1..cl.taken :
        /\ cl.where[k].column = cl.request.key[k].name
        /\ cl.request.key[k].value = NULL => cl.where[k].place = 0
        /\ cl.request.key[k].value # NULL =>
              /\ cl.where[k].place \in (Len(cl.args) + 1)..cl.offset
              /\ cl.whereArgs[cl.where[k].place - Len(cl.args)] = cl.request.key[k].value
  BY DEF KeyScanned
<1>3. \A p \in (Len(cl.args) + 1)..cl.offset : \E k \in 1..cl.taken : cl.where[k].place = p
  BY DEF KeyScanned
<1>4. \A k \in 1..new.taken :
        /\ new.where[k].column = new.request.key[k].name
        /\ new.request.key[k].value = NULL => new.where[k].place = 0
        /\ new.request.key[k].value # NULL =>
              /\ new.where[k].place \in (Len(new.args) + 1)..new.offset
              /\ new.whereArgs[new.where[k].place - Len(new.args)] = new.request.key[k].value
  BY <1>2
<1>5. \A p \in (Len(new.args) + 1)..new.offset : \E k \in 1..new.taken : new.where[k].place = p
  BY <1>3
<1> QED
  BY <1>1, <1>4, <1>5 DEF KeyScanned

\* The key's list begins where the values' ended.
LEMMA KeyBegins ==
    ASSUME NEW new \in CallState, new.request \in Request, new.pc = "key", new.taken = 0,
           new.where = <<>>, new.whereArgs = <<>>, new.offset = Len(new.args)
    PROVE  KeyScanned(new)
<1>1. /\ Len(new.request.key) \in Nat /\ Len(new.args) \in Nat
      /\ Len(new.where) = 0 /\ Len(new.whereArgs) = 0
  BY ListTypes, FieldTypes
<1> QED
  BY <1>1 DEF KeyScanned

LEMMA EndOfValuesKeeps ==
    ASSUME IInv, NEW c \in Calls, EndOfValues(c)
    PROVE  IInv'
<1> DEFINE cl == call[c]
<1>1. /\ cl.pc = "values" /\ ~ (cl.taken < Len(cl.request.values))
      /\ UNCHANGED <<table, wire, applied>>
  BY DEF EndOfValues, At, More
<1>2. cl \in CallState /\ cl.request \in Request /\ cl.answer = None /\ Scanned(cl)
  BY <1>1, InList
<1>3. cl.taken \in Nat /\ Len(cl.request.values) \in Nat
  BY <1>2, FieldTypes, ListTypes
<1>4. CASE cl.request.op = "insert" /\ Become(c, [cl EXCEPT !.pc = "send"])
  <2> DEFINE new == [cl EXCEPT !.pc = "send"]
  <2>1. new \in CallState
    BY <1>2, CallStateType
  <2>2. /\ new.pc = "send" /\ new.request = cl.request /\ new.taken = cl.taken
        /\ new.columns = cl.columns /\ new.args = cl.args /\ new.where = cl.where
        /\ new.whereArgs = cl.whereArgs /\ new.answer = cl.answer
    BY <1>2 DEF CallState
  <2> HIDE DEF new
  <2>3. InsertScanned(cl)
    BY <1>1, <1>2, <1>4 DEF Scanned
  <2>4. cl.taken = Len(cl.request.values)
    BY <1>1, <1>3, <2>3 DEF InsertScanned
  <2>5. InsertScanned(new)
    BY <2>2, <2>3, <2>4, SameInsertScanned
  <2>6. Scanned(new)
    BY <1>4, <2>2, <2>5 DEF Scanned
  <2> QED
    BY <1>1, <1>2, <1>4, <2>1, <2>2, <2>6, ListStep DEF new
<1>5. CASE cl.request.op = "update" /\ cl.sets = <<>> /\ Answer(c, "ok")
  <2> DEFINE new == [cl EXCEPT !.pc = "done", !.answer = "ok"]
  <2>1. new \in CallState
    BY <1>2, CallStateType
  <2>2. new.pc = "done" /\ new.request = cl.request /\ new.answer = "ok"
    BY <1>2 DEF CallState
  <2>3. Become(c, new)
    BY <1>5 DEF Answer
  <2>4. cl.request.values = <<>>
    <3>1. SetsScanned(cl, cl.taken)
      BY <1>1, <1>2, <1>5 DEF Scanned
    <3>2. cl.taken <= Len(cl.request.values) /\ cl.taken = 0
      BY <3>1, <1>5 DEF SetsScanned
    <3>3. Len(cl.request.values) = 0
      BY <3>2, <1>1, <1>3
    <3>4. cl.request.values \in Seq(RowValue)
      BY <1>2, ListTypes
    <3> QED
      BY <3>3, <3>4
  <2> HIDE DEF new
  <2> QED
    BY <1>1, <1>2, <1>5, <2>1, <2>2, <2>3, <2>4, EarlyAnswer
<1>6. CASE /\ cl.request.op = "update" /\ cl.sets # <<>>
           /\ Become(c, [cl EXCEPT !.pc = "key", !.taken = 0, !.offset = Len(cl.args)])
  <2> DEFINE new == [cl EXCEPT !.pc = "key", !.taken = 0, !.offset = Len(cl.args)]
  <2>1. new \in CallState
    BY <1>2, CallStateType, FieldTypes
  <2>2. /\ new.pc = "key" /\ new.request = cl.request /\ new.taken = 0
        /\ new.sets = cl.sets /\ new.args = cl.args /\ new.where = cl.where
        /\ new.whereArgs = cl.whereArgs /\ new.offset = Len(cl.args)
        /\ new.answer = cl.answer
    BY <1>2 DEF CallState
  <2> HIDE DEF new
  <2>3. SetsScanned(cl, cl.taken) /\ cl.where = <<>> /\ cl.whereArgs = <<>>
    BY <1>1, <1>2, <1>6 DEF Scanned
  <2>4. cl.taken = Len(cl.request.values)
    BY <1>1, <1>3, <2>3 DEF SetsScanned
  <2>5. SetsScanned(new, Len(new.request.values))
    BY <2>2, <2>3, <2>4 DEF SetsScanned
  <2>6. KeyScanned(new)
    BY <1>2, <2>1, <2>2, <2>3, KeyBegins
  <2>7. Scanned(new)
    BY <1>6, <2>2, <2>5, <2>6 DEF Scanned
  <2> QED
    BY <1>1, <1>2, <1>6, <2>1, <2>2, <2>7, ListStep DEF new
<1> QED
  BY <1>4, <1>5, <1>6 DEF EndOfValues, Op, Offset

\* What the key's list adds is all that changes of what Scanned says.
LEMMA KeyStepScanned ==
    ASSUME NEW cl, NEW new, cl.pc = "key", new.pc \in {"key", "send"}, Scanned(cl),
           new.request = cl.request, new.args = cl.args, new.sets = cl.sets,
           KeyScanned(new)
    PROVE  Scanned(new)
<1>1. CASE cl.request.op = "update"
  <2>1. SetsScanned(cl, Len(cl.request.values))
    BY <1>1 DEF Scanned
  <2>2. SetsScanned(new, Len(new.request.values))
    BY <2>1 DEF SetsScanned
  <2> QED
    BY <1>1, <2>2 DEF Scanned
<1>2. CASE cl.request.op = "delete"
  BY <1>2 DEF Scanned
<1> QED
  BY <1>1, <1>2 DEF Scanned

LEMMA BindKeyKeeps ==
    ASSUME IInv, NEW c \in Calls, BindKey(c)
    PROVE  IInv'
<1> DEFINE cl == call[c]
           row == cl.request.key[cl.taken + 1]
<1>1. /\ cl.pc = "key" /\ cl.taken < Len(cl.request.key) /\ row.value \in Arg
      /\ Become(c, WithKey(cl, row)) /\ UNCHANGED <<table, wire, applied>>
  BY DEF BindKey, AtKey, At, More, NextKey, NextOf, Bindable
<1>2. cl \in CallState /\ cl.request \in Request /\ cl.answer = None /\ Scanned(cl)
  BY <1>1, InList
<1>3. KeyScanned(cl)
  BY <1>1, <1>2 DEF Scanned
<1>4. cl.taken + 1 \in Nat /\ cl.taken + 1 \in 1..Len(cl.request.key) /\ cl.offset + 1 \in Nat
  BY <1>1, <1>2, FieldTypes, ListTypes
<1>5. row.name \in Columns
  BY <1>2, <1>4, ListTypes
<1>6. CASE row.value = NULL
  <2> DEFINE term == [column |-> row.name, place |-> 0]
             new == [cl EXCEPT !.taken = @ + 1, !.where = Append(@, term)]
  <2>1. Become(c, new)
    BY <1>1, <1>6 DEF WithKey
  <2>2. term \in Term
    BY <1>5 DEF Term
  <2>3. Append(cl.where, term) \in Seq(Term)
    BY <1>2, <2>2, FieldTypes
  <2>4. new \in CallState
    BY <1>2, <1>4, <2>3, CallStateType
  <2>5. /\ new.pc = cl.pc /\ new.request = cl.request /\ new.taken = cl.taken + 1
        /\ new.sets = cl.sets /\ new.args = cl.args /\ new.offset = cl.offset
        /\ new.where = Append(cl.where, term) /\ new.whereArgs = cl.whereArgs
        /\ new.answer = cl.answer
    BY <1>2 DEF CallState
  <2>6. row = cl.request.key[cl.taken + 1] /\ term = [column |-> row.name, place |-> 0]
    OBVIOUS
  <2> HIDE DEF new, term, row, cl
  <2>7. KeyScanned(new)
    BY <1>1, <1>2, <1>3, <1>6, <2>4, <2>5, <2>6, NullKeyScanned
  <2>8. Scanned(new)
    BY <1>1, <1>2, <2>5, <2>7, KeyStepScanned
  <2> QED
    BY <1>1, <1>2, <2>1, <2>4, <2>5, <2>8, ListStep DEF cl
<1>7. CASE row.value # NULL
  <2> DEFINE term == [column |-> row.name, place |-> cl.offset + 1]
             new == [cl EXCEPT !.taken = @ + 1, !.offset = @ + 1, !.where = Append(@, term),
                               !.whereArgs = Append(@, row.value)]
  <2>1. Become(c, new)
    BY <1>1, <1>7 DEF WithKey
  <2>2. term \in Term
    BY <1>4, <1>5 DEF Term
  <2>3. Append(cl.where, term) \in Seq(Term) /\ Append(cl.whereArgs, row.value) \in Seq(Arg)
    BY <1>1, <1>2, <2>2, FieldTypes
  <2>4. new \in CallState
    BY <1>2, <1>4, <2>3, CallStateType
  <2>5. /\ new.pc = cl.pc /\ new.request = cl.request /\ new.taken = cl.taken + 1
        /\ new.sets = cl.sets /\ new.args = cl.args /\ new.offset = cl.offset + 1
        /\ new.where = Append(cl.where, term)
        /\ new.whereArgs = Append(cl.whereArgs, row.value) /\ new.answer = cl.answer
    BY <1>2 DEF CallState
  <2>6. row = cl.request.key[cl.taken + 1] /\ term = [column |-> row.name, place |-> cl.offset + 1]
    OBVIOUS
  <2> HIDE DEF new, term, row, cl
  <2>7. KeyScanned(new)
    BY <1>1, <1>2, <1>3, <1>7, <2>4, <2>5, <2>6, BoundKeyScanned
  <2>8. Scanned(new)
    BY <1>1, <1>2, <2>5, <2>7, KeyStepScanned
  <2> QED
    BY <1>1, <1>2, <2>1, <2>4, <2>5, <2>8, ListStep DEF cl
<1> QED
  BY <1>6, <1>7

LEMMA EndOfKeyKeeps ==
    ASSUME IInv, NEW c \in Calls, EndOfKey(c)
    PROVE  IInv'
<1> DEFINE cl == call[c]
           new == [cl EXCEPT !.pc = "send"]
<1>1. /\ cl.pc = "key" /\ ~ (cl.taken < Len(cl.request.key)) /\ cl.request.key # <<>>
      /\ Become(c, new) /\ UNCHANGED <<table, wire, applied>>
  BY DEF EndOfKey, At, More
<1>2. cl \in CallState /\ cl.request \in Request /\ cl.answer = None /\ Scanned(cl)
  BY <1>1, InList
<1>3. KeyScanned(cl)
  BY <1>1, <1>2 DEF Scanned
<1>4. cl.taken = Len(cl.request.key)
  <2>1. cl.taken \in Nat /\ Len(cl.request.key) \in Nat
    BY <1>2, FieldTypes, ListTypes
  <2> QED
    BY <2>1, <1>1, <1>3 DEF KeyScanned
<1>5. new \in CallState
  BY <1>2, CallStateType
<1>6. /\ new.pc = "send" /\ new.request = cl.request /\ new.taken = cl.taken
      /\ new.sets = cl.sets /\ new.args = cl.args /\ new.offset = cl.offset
      /\ new.where = cl.where /\ new.whereArgs = cl.whereArgs /\ new.answer = cl.answer
  BY <1>2 DEF CallState
<1> HIDE DEF new, cl
<1>7. KeyScanned(new)
  BY <1>1, <1>2, <1>3, <1>4, <1>5, <1>6, SameKeyScanned
<1>8. Scanned(new)
  BY <1>1, <1>2, <1>6, <1>7, KeyStepScanned
<1> QED
  BY <1>1, <1>2, <1>5, <1>6, <1>8, ListStep DEF cl

(***************************************************************************)
(* The statement is complete and on its way.                               *)
(***************************************************************************)
\* Where a complete statement's call stands does not matter to its lists.
LEMMA SentScanned ==
    ASSUME NEW cl \in CallState, NEW new \in CallState, Scanned(cl),
           cl.pc \in {"send", "wait"}, new.pc \in {"wait", "done"},
           new.request = cl.request, new.taken = cl.taken, new.columns = cl.columns,
           new.sets = cl.sets, new.args = cl.args, new.where = cl.where,
           new.whereArgs = cl.whereArgs, new.offset = cl.offset
    PROVE  Scanned(new)
<1>1. CASE cl.request.op = "insert"
  <2>1. InsertScanned(cl)
    BY <1>1 DEF Scanned
  <2>2. cl.taken = Len(cl.request.values)
    BY <2>1 DEF InsertScanned
  <2>3. InsertScanned(new)
    BY <2>1, <2>2, SameInsertScanned
  <2> QED
    BY <1>1, <2>3 DEF Scanned
<1>2. CASE cl.request.op \in {"update", "delete"}
  <2>1. KeyScanned(cl)
    BY <1>2 DEF Scanned
  <2>2. cl.taken = Len(cl.request.key) /\ cl.request.key # <<>>
    BY <2>1 DEF KeyScanned
  <2>3. KeyScanned(new)
    BY <2>1, <2>2, SameKeyScanned
  <2>4. CASE cl.request.op = "update"
    <3>1. SetsScanned(cl, Len(cl.request.values))
      BY <2>4 DEF Scanned
    <3>2. SetsScanned(new, Len(new.request.values))
      BY <3>1 DEF SetsScanned
    <3> QED
      BY <2>3, <2>4, <3>2 DEF Scanned
  <2>5. CASE cl.request.op = "delete"
    BY <2>3, <2>5 DEF Scanned
  <2> QED
    BY <1>2, <2>4, <2>5
<1> QED
  BY <1>1, <1>2 DEF Scanned

LEMMA SendKeeps ==
    ASSUME IInv, NEW c \in Calls, Send(c)
    PROVE  IInv'
<1> DEFINE cl == call[c]
           new == [cl EXCEPT !.pc = "wait"]
<1>1. /\ cl.pc = "send" /\ Become(c, new) /\ wire' = [wire EXCEPT ![c] = "running"]
      /\ table' = table /\ applied' = applied
  BY DEF Send, At
<1>2. cl \in CallState /\ cl.request \in Request /\ cl.answer = None /\ Scanned(cl)
  BY <1>1, InList
<1>3. TypeOK /\ applied[c] = 0
  BY <1>1 DEF IInv, HistoryFits
<1>4. new \in CallState
  BY <1>2, CallStateType
<1>5. /\ new.pc = "wait" /\ new.request = cl.request /\ new.taken = cl.taken
      /\ new.columns = cl.columns /\ new.sets = cl.sets /\ new.args = cl.args
      /\ new.where = cl.where /\ new.whereArgs = cl.whereArgs /\ new.offset = cl.offset
      /\ new.answer = cl.answer
  BY <1>2 DEF CallState
<1> HIDE DEF new, cl
<1>6. /\ call' \in [Calls -> CallState] /\ call'[c] = new
      /\ \A d \in Calls : d # c => call'[d] = call[d]
  BY <1>1, <1>3, <1>4, BecomeFrame
<1>7. Scanned(new)
  BY <1>1, <1>2, <1>4, <1>5, SentScanned
<1>8. /\ wire' \in [Calls -> {"idle", "running", "ran", "refused"}] /\ wire'[c] = "running"
      /\ \A d \in Calls : d # c => wire'[d] = wire[d]
  BY <1>1, <1>3 DEF TypeOK
<1>9. TypeOK'
  BY <1>1, <1>3, <1>6, <1>8 DEF TypeOK
<1>10. None \notin {"ok", "validation", "failed", "lost"}
  BY RowWriteAssumption
<1>11. applied'[c] = 0 /\ call'[c].pc = "wait" /\ call'[c].answer = None
       /\ call'[c].request \in Request
  BY <1>1, <1>2, <1>3, <1>5, <1>6
<1>12. HistoryFits(c)'
  BY <1>8, <1>10, <1>11 DEF HistoryFits, At
<1> QED
  BY <1>1, <1>6, <1>7, <1>8, <1>9, <1>12, OthersKeep

LEMMA ReceiveAnswerKeeps ==
    ASSUME IInv, NEW c \in Calls, ReceiveAnswer(c)
    PROVE  IInv'
<1> DEFINE cl == call[c]
           answer == IF wire[c] = "ran" THEN "ok" ELSE "failed"
           new == [cl EXCEPT !.pc = "done", !.answer = answer]
<1>1. /\ cl.pc = "wait" /\ wire[c] \in {"ran", "refused"} /\ Become(c, new)
      /\ wire' = [wire EXCEPT ![c] = "idle"] /\ table' = table /\ applied' = applied
  BY DEF ReceiveAnswer, At, Answer
<1>2. cl \in CallState /\ cl.request \in Request
  BY <1>1, InList
<1>3. TypeOK /\ applied[c] = IF wire[c] = "ran" THEN 1 ELSE 0
  BY <1>1 DEF IInv, HistoryFits
<1>4. answer \in {"ok", "failed"} /\ (answer = "ok" => wire[c] = "ran")
      /\ (answer = "failed" => wire[c] # "ran")
  OBVIOUS
<1> HIDE DEF answer
<1>5. new \in CallState
  BY <1>2, <1>4, CallStateType
<1>6. new.pc = "done" /\ new.request = cl.request /\ new.answer = answer
  BY <1>2 DEF CallState
<1> HIDE DEF new, cl
<1>7. /\ call' \in [Calls -> CallState] /\ call'[c] = new
      /\ \A d \in Calls : d # c => call'[d] = call[d]
  BY <1>1, <1>3, <1>5, BecomeFrame
<1>8. /\ wire' \in [Calls -> {"idle", "running", "ran", "refused"}] /\ wire'[c] = "idle"
      /\ \A d \in Calls : d # c => wire'[d] = wire[d]
  BY <1>1, <1>3 DEF TypeOK
<1>9. TypeOK'
  BY <1>1, <1>3, <1>7, <1>8 DEF TypeOK
<1>10. /\ applied'[c] = IF wire[c] = "ran" THEN 1 ELSE 0
       /\ call'[c].pc = "done" /\ call'[c].answer = answer /\ call'[c].request \in Request
  BY <1>1, <1>2, <1>3, <1>6, <1>7
<1>11. HistoryFits(c)'
  <2>1. CASE wire[c] = "ran"
    BY <2>1, <1>4, <1>8, <1>10 DEF HistoryFits, At
  <2>2. CASE wire[c] # "ran"
    BY <2>2, <1>4, <1>8, <1>10 DEF HistoryFits, At
  <2> QED
    BY <2>1, <2>2
<1>12. ~ Active(c)'
  BY <1>8, <1>10 DEF Active
<1> QED
  BY <1>1, <1>7, <1>8, <1>9, <1>11, <1>12, OthersKeep

LEMMA GiveUpKeeps ==
    ASSUME IInv, NEW c \in Calls, GiveUp(c)
    PROVE  IInv'
<1> DEFINE cl == call[c]
           new == [cl EXCEPT !.pc = "done", !.answer = "lost"]
<1>1. /\ cl.pc \in {"send", "wait"} /\ Become(c, new)
      /\ wire' = wire /\ table' = table /\ applied' = applied
  BY DEF GiveUp, At, Answer
<1>2. cl \in CallState /\ cl.request \in Request /\ Scanned(cl)
  BY <1>1, InList
<1>3. TypeOK /\ HistoryFits(c)
  BY DEF IInv
<1>4. new \in CallState
  BY <1>2, CallStateType
<1>5. /\ new.pc = "done" /\ new.request = cl.request /\ new.taken = cl.taken
      /\ new.columns = cl.columns /\ new.sets = cl.sets /\ new.args = cl.args
      /\ new.where = cl.where /\ new.whereArgs = cl.whereArgs /\ new.offset = cl.offset
      /\ new.answer = "lost"
  BY <1>2 DEF CallState
<1> HIDE DEF new, cl
<1>6. /\ call' \in [Calls -> CallState] /\ call'[c] = new
      /\ \A d \in Calls : d # c => call'[d] = call[d]
  BY <1>1, <1>3, <1>4, BecomeFrame
<1>7. Scanned(new)
  BY <1>1, <1>2, <1>4, <1>5, SentScanned
<1>8. TypeOK'
  BY <1>1, <1>3, <1>6 DEF TypeOK
<1>9. call'[c].pc = "done" /\ call'[c].answer = "lost" /\ call'[c].request \in Request
  BY <1>2, <1>5, <1>6
<1>10. applied[c] <= 1 /\ (wire[c] # "idle" => applied[c] = IF wire[c] = "ran" THEN 1 ELSE 0)
  BY <1>3 DEF HistoryFits
<1>11. HistoryFits(c)'
  BY <1>1, <1>9, <1>10 DEF HistoryFits, At
<1> QED
  BY <1>1, <1>6, <1>7, <1>8, <1>11, OthersKeep

LEMMA RefuseKeeps ==
    ASSUME IInv, NEW c \in Calls, Refuse(c)
    PROVE  IInv'
<1>1. /\ wire[c] = "running" /\ wire' = [wire EXCEPT ![c] = "refused"]
      /\ table' = table /\ call' = call /\ applied' = applied
  BY DEF Refuse
<1>2. TypeOK /\ HistoryFits(c) /\ Scanned(call[c])
  BY <1>1 DEF IInv, Active
<1>3. /\ wire' \in [Calls -> {"idle", "running", "ran", "refused"}] /\ wire'[c] = "refused"
      /\ \A d \in Calls : d # c => wire'[d] = wire[d]
  BY <1>1, <1>2 DEF TypeOK
<1>4. TypeOK'
  BY <1>1, <1>2, <1>3 DEF TypeOK
<1>5. HistoryFits(c)'
  BY <1>1, <1>2, <1>3 DEF HistoryFits, At, Op
<1> QED
  BY <1>1, <1>2, <1>3, <1>4, <1>5, OthersKeep

(***************************************************************************)
(* What the statement says, once its lists have been gone through.         *)
(***************************************************************************)
Statement(c) ==
    /\ call[c] \in CallState /\ call[c].request \in Request /\ Scanned(call[c])
    /\ call[c].pc \in {"send", "wait", "done"}

\* A statement that is to be sent, or is on its way, is complete.
LEMMA CompleteStatement ==
    ASSUME IInv, NEW c \in Calls, call[c].pc \in {"send", "wait"} \/ wire[c] = "running"
    PROVE  Statement(c)
<1>1. HistoryFits(c) /\ Scanned(call[c]) /\ call[c] \in CallState
  BY DEF IInv, TypeOK, Active
<1>2. call[c].pc \in {"send", "wait", "done"}
  BY <1>1 DEF HistoryFits, CallState
<1> QED
  BY <1>1, <1>2 DEF Statement, HistoryFits

\* The arguments of the values come first, the key's after them.
LEMMA ArgumentPlaces ==
    ASSUME NEW c \in Calls, call[c] \in CallState
    PROVE  /\ DOMAIN Arguments(c) = 1..(Len(call[c].args) + Len(call[c].whereArgs))
           /\ \A k \in 1..Len(call[c].args) : Arguments(c)[k] = call[c].args[k]
           /\ \A k \in 1..Len(call[c].whereArgs) :
                 Arguments(c)[Len(call[c].args) + k] = call[c].whereArgs[k]
           /\ \A k \in 1..Len(call[c].args) : call[c].args[k] \in Arg
<1> DEFINE a == call[c].args
           b == call[c].whereArgs
<1>1. a \in Seq(Arg) /\ b \in Seq(Arg)
  BY FieldTypes
<1>2. Arguments(c) = a \o b
  BY DEF Arguments
<1> HIDE DEF a, b
<1>3. /\ DOMAIN (a \o b) = 1..(Len(a) + Len(b))
      /\ \A k \in 1..Len(a) : (a \o b)[k] = a[k]
      /\ \A k \in 1..Len(b) : (a \o b)[Len(a) + k] = b[k]
      /\ \A k \in 1..Len(a) : a[k] \in Arg
  BY <1>1
<1> QED
  BY <1>2, <1>3 DEF a, b

\* Each of the columns written has the argument of its value, and each value
\* that is not DEFAULT is one of them.
LEMMA AssignedValues ==
    ASSUME NEW c \in Calls, Statement(c), Op(c) \in {"insert", "update"}
    PROVE  LET n == Len(call[c].args)
               values == call[c].request.values
               Row(k) == [name |-> Assigned(c)[k].column, value |-> call[c].args[k]]
           IN  /\ DOMAIN Assigned(c) = 1..n
               /\ \A k \in 1..n : Assigned(c)[k].place = k
               /\ \A k \in 1..n : \E m \in 1..Len(values) : values[m] = Row(k)
               /\ \A m \in 1..Len(values) :
                     values[m].value = DEFAULT \/ \E k \in 1..n : values[m] = Row(k)
<1> DEFINE cl == call[c]
           n == Len(cl.args)
           values == cl.request.values
           RowOf(k) == [name |-> Assigned(c)[k].column, value |-> cl.args[k]]
<1>1. /\ cl \in CallState /\ cl.request \in Request /\ Scanned(cl)
      /\ cl.pc \in {"send", "wait", "done"}
  BY DEF Statement
<1>2. CASE cl.request.op = "insert"
  <2>1. InsertScanned(cl)
    BY <1>1, <1>2 DEF Scanned
  <2>2. Assigned(c) = [k \in DOMAIN cl.columns |-> [column |-> cl.columns[k], place |-> k]]
    BY <1>2 DEF Assigned, Placed, Op
  <2>3. DOMAIN cl.columns = 1..Len(cl.columns) /\ Len(cl.columns) = n
    BY <1>1, <2>1, FieldTypes DEF InsertScanned
  <2>4. \A k \in 1..n : Assigned(c)[k] = [column |-> cl.columns[k], place |-> k]
    BY <2>2, <2>3
  <2>5. \A k \in 1..n : Assigned(c)[k].column = cl.columns[k] /\ Assigned(c)[k].place = k
    <3>1. ASSUME NEW k \in 1..n
          PROVE  Assigned(c)[k].column = cl.columns[k] /\ Assigned(c)[k].place = k
      <4>1. Assigned(c)[k] = [column |-> cl.columns[k], place |-> k]
        BY <2>4
      <4> HIDE DEF n, cl
      <4> QED
        BY <4>1
    <3> QED
      BY <3>1
  <2>6. cl.taken = Len(values)
    BY <1>1, <2>1 DEF InsertScanned
  <2>7. /\ \A k \in 1..n : \E m \in 1..cl.taken :
               values[m] = [name |-> cl.columns[k], value |-> cl.args[k]]
        /\ \A m \in 1..cl.taken :
               \/ values[m].value = DEFAULT
               \/ \E k \in 1..n : values[m] = [name |-> cl.columns[k], value |-> cl.args[k]]
    BY <2>1 DEF InsertScanned
  <2>8. DOMAIN Assigned(c) = 1..n /\ \A k \in 1..n : Assigned(c)[k].place = k
    BY <2>2, <2>3, <2>5
  <2> HIDE DEF values, n, cl
  <2>9. /\ \A k \in 1..n : \E m \in 1..Len(values) : values[m] = RowOf(k)
        /\ \A m \in 1..Len(values) :
               values[m].value = DEFAULT \/ \E k \in 1..n : values[m] = RowOf(k)
    <3>1. \A k \in 1..n : RowOf(k) = [name |-> cl.columns[k], value |-> cl.args[k]]
      BY <2>5
    <3> HIDE DEF RowOf
    <3>2. \A k \in 1..n : \E m \in 1..Len(values) : values[m] = RowOf(k)
      BY <3>1, <2>6, <2>7
    <3>3. \A m \in 1..Len(values) :
             values[m].value = DEFAULT \/ \E k \in 1..n : values[m] = RowOf(k)
      <4>1. ASSUME NEW m \in 1..Len(values), values[m].value # DEFAULT
            PROVE  \E k \in 1..n : values[m] = RowOf(k)
        <5>1. PICK k \in 1..n : values[m] = [name |-> cl.columns[k], value |-> cl.args[k]]
          BY <4>1, <2>6, <2>7
        <5> QED
          BY <5>1, <3>1
      <4> QED
        BY <4>1
    <3> QED
      BY <3>2, <3>3
  <2> QED
    BY <2>8, <2>9 DEF RowOf, values, n, cl
<1>3. CASE cl.request.op = "update"
  <2>1. SetsScanned(cl, Len(values))
    BY <1>1, <1>3 DEF Scanned
  <2>2. Assigned(c) = cl.sets
    BY <1>3 DEF Assigned, Op
  <2>3. Len(cl.sets) = n /\ n = Len(values)
    BY <2>1 DEF SetsScanned
  <2>4. \A k \in 1..n : /\ cl.sets[k] = [column |-> values[k].name, place |-> k]
                        /\ cl.args[k] = values[k].value
    BY <2>1, <2>3 DEF SetsScanned
  <2>5. \A k \in 1..n : values[k] = [name |-> values[k].name, value |-> values[k].value]
    BY <1>1, <2>3, ListTypes
  <2>6. \A k \in 1..n : /\ Assigned(c)[k].column = values[k].name /\ Assigned(c)[k].place = k
                        /\ cl.args[k] = values[k].value
    <3>1. ASSUME NEW k \in 1..n
          PROVE  /\ Assigned(c)[k].column = values[k].name /\ Assigned(c)[k].place = k
                 /\ cl.args[k] = values[k].value
      <4>1. /\ Assigned(c)[k] = [column |-> values[k].name, place |-> k]
            /\ cl.args[k] = values[k].value
        BY <2>2, <2>4
      <4> HIDE DEF n, cl, values
      <4> QED
        BY <4>1
    <3> QED
      BY <3>1
  <2>7. DOMAIN cl.sets = 1..Len(cl.sets)
    BY <1>1, FieldTypes
  <2>8. DOMAIN Assigned(c) = 1..n /\ \A k \in 1..n : Assigned(c)[k].place = k
    BY <2>2, <2>3, <2>6, <2>7
  <2> HIDE DEF values, n, cl
  <2>9. /\ \A k \in 1..n : \E m \in 1..Len(values) : values[m] = RowOf(k)
        /\ \A m \in 1..Len(values) :
               values[m].value = DEFAULT \/ \E k \in 1..n : values[m] = RowOf(k)
    <3>1. \A k \in 1..n : values[k] = RowOf(k)
      BY <2>5, <2>6
    <3> HIDE DEF RowOf
    <3> QED
      BY <3>1, <2>3
  <2> QED
    BY <2>8, <2>9 DEF RowOf, values, n, cl
<1> QED
  BY <1>2, <1>3 DEF Op

\* Where the key's terms find their arguments.
LEMMA KeyTerms ==
    ASSUME NEW c \in Calls, Statement(c), Op(c) \in {"update", "delete"}
    PROVE  LET cl == call[c]
               key == cl.request.key
               set == Len(cl.args)
           IN  /\ key # <<>> /\ key \in Seq(RowValue) /\ DOMAIN cl.where = 1..Len(key)
               /\ cl.offset = set + Len(cl.whereArgs)
               /\ \A k \in 1..Len(key) :
                     /\ cl.where[k].column = key[k].name
                     /\ key[k].value = NULL => cl.where[k].place = 0
                     /\ key[k].value # NULL =>
                           /\ cl.where[k].place \in (set + 1)..cl.offset
                           /\ Arguments(c)[cl.where[k].place] = key[k].value
               /\ \A p \in (set + 1)..cl.offset : \E k \in 1..Len(key) : cl.where[k].place = p
<1> DEFINE cl == call[c]
           key == cl.request.key
           set == Len(cl.args)
           bound == Len(cl.whereArgs)
           last == cl.offset
<1>1. /\ cl \in CallState /\ cl.request \in Request /\ Scanned(cl)
      /\ cl.pc \in {"send", "wait", "done"} /\ cl.request.op \in {"update", "delete"}
  BY DEF Statement, Op
<1>2. KeyScanned(cl)
  BY <1>1 DEF Scanned
<1>3. key # <<>> /\ cl.taken = Len(key) /\ Len(cl.where) = Len(key) /\ last = set + bound
  BY <1>1, <1>2 DEF KeyScanned
<1>4. \A k \in 1..cl.taken :
        /\ cl.where[k].column = key[k].name
        /\ key[k].value = NULL => cl.where[k].place = 0
        /\ key[k].value # NULL =>
              /\ cl.where[k].place \in (set + 1)..last
              /\ cl.whereArgs[cl.where[k].place - set] = key[k].value
  BY <1>2 DEF KeyScanned
<1>5. \A p \in (set + 1)..last : \E k \in 1..cl.taken : cl.where[k].place = p
  BY <1>2 DEF KeyScanned
<1>6. set \in Nat /\ bound \in Nat /\ last \in Nat /\ key \in Seq(RowValue)
  BY <1>1, FieldTypes, ListTypes
<1>7. DOMAIN cl.where = 1..Len(cl.where)
  BY <1>1, FieldTypes
<1>8. \A k \in 1..bound : Arguments(c)[set + k] = cl.whereArgs[k]
  BY <1>1, ArgumentPlaces
<1> HIDE DEF key, set, bound, last
<1>9. \A p \in (set + 1)..last : Arguments(c)[p] = cl.whereArgs[p - set]
  <2>1. ASSUME NEW p \in (set + 1)..last
        PROVE  Arguments(c)[p] = cl.whereArgs[p - set]
    <3>1. p - set \in 1..bound /\ set + (p - set) = p
      BY <1>3, <1>6
    <3> QED
      BY <3>1, <1>8
  <2> QED
    BY <2>1
<1>10. \A k \in 1..Len(key) :
         /\ cl.where[k].column = key[k].name
         /\ key[k].value = NULL => cl.where[k].place = 0
         /\ key[k].value # NULL =>
               /\ cl.where[k].place \in (set + 1)..last
               /\ Arguments(c)[cl.where[k].place] = key[k].value
  BY <1>3, <1>4, <1>9
<1>11. \A p \in (set + 1)..last : \E k \in 1..Len(key) : cl.where[k].place = p
  BY <1>3, <1>5
<1>12. DOMAIN cl.where = 1..Len(key)
  BY <1>3, <1>7
<1> QED
  BY <1>3, <1>6, <1>10, <1>11, <1>12 DEF key, set, bound, last

\* A row as the request asks for it is what the statement makes of it.
LEMMA WrittenIsOnTop ==
    ASSUME NEW c \in Calls, Statement(c), Op(c) \in {"insert", "update"}, AssignedOnce(c),
           NEW row \in Content
    PROVE  Written(c, row) = OnTop(call[c].request, row) /\ Written(c, row) \in Content
<1> DEFINE cl == call[c]
           r == cl.request
           n == Len(cl.args)
           values == r.values
           RowOf(k) == [name |-> Assigned(c)[k].column, value |-> cl.args[k]]
           Sets(k, column) == Assigned(c)[k].column = column
           Chosen(column) == CHOOSE k \in DOMAIN Assigned(c) : Sets(k, column)
           Left(column) == Arguments(c)[Assigned(c)[Chosen(column)].place]
           Right(column) == CHOOSE v \in Asked(r, column) : v # DEFAULT
<1>1. /\ cl \in CallState /\ r \in Request
      /\ DOMAIN Assigned(c) = 1..n
      /\ \A k \in 1..n : Assigned(c)[k].place = k
      /\ \A k \in 1..n : \E m \in 1..Len(values) : values[m] = RowOf(k)
      /\ \A m \in 1..Len(values) :
            values[m].value = DEFAULT \/ \E k \in 1..n : values[m] = RowOf(k)
  BY AssignedValues DEF Statement
<1>2. \A k \in 1..n : Arguments(c)[k] = cl.args[k] /\ cl.args[k] \in Arg
  BY <1>1, ArgumentPlaces
<1>3. DEFAULT \notin Arg
  BY RowWriteAssumption DEF Arg
<1>4. DOMAIN values = 1..Len(values)
  BY <1>1, ListTypes
<1>5. \A j, k \in 1..n : Assigned(c)[j].column = Assigned(c)[k].column => j = k
  BY <1>1 DEF AssignedOnce
<1>6. \A k : RowOf(k).name = Assigned(c)[k].column /\ RowOf(k).value = cl.args[k]
  OBVIOUS
<1>7. Written(c, row) = [column \in Columns |->
                            IF \E k \in DOMAIN Assigned(c) : Sets(k, column)
                            THEN Left(column) ELSE row[column]]
  BY DEF Written
<1>8. OnTop(r, row) = [column \in Columns |->
                          IF \E v \in Asked(r, column) : v # DEFAULT
                          THEN Right(column) ELSE row[column]]
  BY DEF OnTop
<1>9. \A v, column : v \in Asked(r, column) <=>
         \E m \in 1..Len(values) : values[m].name = column /\ values[m].value = v
  BY <1>4 DEF Asked
<1> HIDE DEF RowOf, values, n, cl, r
<1>10. ASSUME NEW column \in Columns, NEW k \in 1..n, Assigned(c)[k].column = column
       PROVE  /\ Left(column) = cl.args[k] /\ Left(column) \in Arg
              /\ cl.args[k] \in Asked(r, column) /\ cl.args[k] # DEFAULT
              /\ \A v \in Asked(r, column) : v # DEFAULT => v = cl.args[k]
  <2>1. Chosen(column) \in 1..n /\ Sets(Chosen(column), column)
    BY <1>1, <1>10
  <2>2. Chosen(column) = k
    BY <2>1, <1>5, <1>10
  <2> HIDE DEF Chosen
  <2>3. Left(column) = cl.args[k] /\ cl.args[k] \in Arg /\ cl.args[k] # DEFAULT
    BY <2>2, <1>1, <1>2, <1>3
  <2>4. cl.args[k] \in Asked(r, column)
    <3>1. PICK m \in 1..Len(values) : values[m] = RowOf(k)
      BY <1>1
    <3>2. values[m].name = column /\ values[m].value = cl.args[k]
      BY <3>1, <1>6, <1>10
    <3> QED
      BY <3>2, <1>9
  <2>5. ASSUME NEW v \in Asked(r, column), v # DEFAULT
        PROVE  v = cl.args[k]
    <3>1. PICK m \in 1..Len(values) : values[m].name = column /\ values[m].value = v
      BY <1>9
    <3>2. PICK j \in 1..n : values[m] = RowOf(j)
      BY <3>1, <2>5, <1>1
    <3>3. Assigned(c)[j].column = column /\ v = cl.args[j]
      BY <3>1, <3>2, <1>6
    <3> QED
      BY <3>3, <1>5, <1>10
  <2> QED
    BY <2>3, <2>4, <2>5
<1>11. ASSUME NEW column \in Columns, NEW v \in Asked(r, column), v # DEFAULT
       PROVE  \E k \in 1..n : Assigned(c)[k].column = column
  <2>1. PICK m \in 1..Len(values) : values[m].name = column /\ values[m].value = v
    BY <1>9
  <2>2. PICK j \in 1..n : values[m] = RowOf(j)
    BY <2>1, <1>11, <1>1
  <2> QED
    BY <2>1, <2>2, <1>6
<1>12. ASSUME NEW column \in Columns
       PROVE  /\ Written(c, row)[column] = OnTop(r, row)[column]
              /\ Written(c, row)[column] \in Arg
  <2>1. CASE \E k \in 1..n : Assigned(c)[k].column = column
    <3>1. PICK k \in 1..n : Assigned(c)[k].column = column
      BY <2>1
    <3>2. /\ Left(column) = cl.args[k] /\ Left(column) \in Arg
          /\ cl.args[k] \in Asked(r, column) /\ cl.args[k] # DEFAULT
          /\ \A v \in Asked(r, column) : v # DEFAULT => v = cl.args[k]
      BY <3>1, <1>10
    <3> HIDE DEF Left
    <3>3. Right(column) = cl.args[k]
      BY <3>2
    <3> HIDE DEF Right
    <3>4. Written(c, row)[column] = Left(column)
      BY <2>1, <1>1, <1>7
    <3>5. OnTop(r, row)[column] = Right(column)
      BY <3>2, <1>8
    <3> QED
      BY <3>2, <3>3, <3>4, <3>5
  <2>2. CASE ~ \E k \in 1..n : Assigned(c)[k].column = column
    <3>1. Written(c, row)[column] = row[column]
      BY <2>2, <1>1, <1>7
    <3>2. OnTop(r, row)[column] = row[column]
      BY <2>2, <1>8, <1>11
    <3>3. row[column] \in Arg
      BY DEF Content, Arg
    <3> QED
      BY <3>1, <3>2, <3>3
  <2> QED
    BY <2>1, <2>2
<1> HIDE DEF Left, Right, Sets
<1>13. Written(c, row) = OnTop(r, row)
  BY <1>7, <1>8, <1>12
<1>14. Written(c, row) \in Content
  BY <1>7, <1>12 DEF Content, Arg
<1> QED
  BY <1>13, <1>14 DEF cl, r

\* The rows the key condition holds for are those the key means.
LEMMA HitIsMeant ==
    ASSUME TypeOK, NEW c \in Calls, Statement(c), Op(c) \in {"update", "delete"}
    PROVE  Hit(c) = Meant(call[c].request, table)
<1> DEFINE cl == call[c]
           key == cl.request.key
<1>1. /\ key \in Seq(RowValue) /\ DOMAIN cl.where = 1..Len(key)
      /\ cl.offset = Len(cl.args) + Len(cl.whereArgs)
      /\ \A k \in 1..Len(key) :
            /\ cl.where[k].column = key[k].name
            /\ key[k].value = NULL => cl.where[k].place = 0
            /\ key[k].value # NULL =>
                  /\ cl.where[k].place \in (Len(cl.args) + 1)..cl.offset
                  /\ Arguments(c)[cl.where[k].place] = key[k].value
  BY KeyTerms
<1>2. cl \in CallState
  BY DEF Statement
<1>3. Len(cl.args) \in Nat /\ cl.offset \in Nat
  BY <1>2, FieldTypes
<1>4. DOMAIN key = 1..Len(key)
  BY <1>1
<1> HIDE DEF key, cl
<1>5. \A p \in (Len(cl.args) + 1)..cl.offset : p # 0
  BY <1>3, AllPlaces
<1>6. ASSUME NEW row, NEW k \in 1..Len(key)
      PROVE  Holds(c, cl.where[k], row) <=> row[key[k].name] = key[k].value
  <2>1. CASE key[k].value = NULL
    BY <2>1, <1>1 DEF Holds
  <2>2. CASE key[k].value # NULL
    <3>1. cl.where[k].place # 0
      BY <2>2, <1>1, <1>5
    <3> QED
      BY <3>1, <2>2, <1>1 DEF Holds
  <2> QED
    BY <2>1, <2>2
<1>7. \A id \in DOMAIN table :
         (\A k \in DOMAIN cl.where : Holds(c, cl.where[k], table[id]))
         <=> (\A k \in DOMAIN key : table[id][key[k].name] = key[k].value)
  BY <1>1, <1>4, <1>6
<1> QED
  BY <1>7 DEF Hit, Meant, cl, key

\* A complete statement's placeholders are its arguments' numbers.
LEMMA StatementFits ==
    ASSUME NEW c \in Calls, Statement(c), call[c].pc \in {"send", "wait"}
    PROVE  PlacesFit(c)
<1> DEFINE cl == call[c]
           set == Len(cl.args)
           bound == Len(cl.whereArgs)
<1>1. /\ cl \in CallState /\ cl.request \in Request /\ Scanned(cl)
      /\ cl.pc \in {"send", "wait"}
  BY DEF Statement
<1>2. set \in Nat /\ bound \in Nat /\ DOMAIN Arguments(c) = 1..(set + bound)
  BY <1>1, FieldTypes, ArgumentPlaces
<1>3. cl.request.op \in {"insert", "update"} => Places(Assigned(c)) = 1..set
  <2>1. ASSUME cl.request.op \in {"insert", "update"}
        PROVE  Places(Assigned(c)) = 1..set
    <3>1. /\ DOMAIN Assigned(c) = 1..set
          /\ \A k \in 1..set : Assigned(c)[k].place = k
      BY <2>1, AssignedValues DEF Op
    <3>2. \A k \in 1..set : k # 0
      BY <1>2
    <3> QED
      BY <3>1, <3>2 DEF Places
  <2> QED
    BY <2>1
<1>4. cl.request.op \in {"update", "delete"} => Places(cl.where) = (set + 1)..(set + bound)
  <2>1. ASSUME cl.request.op \in {"update", "delete"}
        PROVE  Places(cl.where) = (set + 1)..(set + bound)
    <3> DEFINE key == cl.request.key
    <3>1. /\ DOMAIN cl.where = 1..Len(key)
          /\ cl.offset = set + bound /\ key \in Seq(RowValue)
          /\ \A k \in 1..Len(key) :
                /\ key[k].value = NULL => cl.where[k].place = 0
                /\ key[k].value # NULL => cl.where[k].place \in (set + 1)..cl.offset
          /\ \A p \in (set + 1)..cl.offset : \E k \in 1..Len(key) : cl.where[k].place = p
      BY <2>1, KeyTerms DEF Op
    <3>2. \A p \in (set + 1)..(set + bound) : p # 0
      BY <1>2, AllPlaces
    <3> HIDE DEF key, set, bound
    <3>3. \A k \in DOMAIN cl.where :
             cl.where[k].place = 0 \/ cl.where[k].place \in (set + 1)..(set + bound)
      BY <3>1
    <3>4. \A p \in (set + 1)..(set + bound) : \E k \in DOMAIN cl.where : cl.where[k].place = p
      BY <3>1
    <3> HIDE DEF cl
    <3> QED
      BY <3>2, <3>3, <3>4 DEF Places, cl
  <2> QED
    BY <2>1
<1>5. CASE cl.request.op = "insert"
  <2>1. cl.where = <<>> /\ cl.whereArgs = <<>>
    BY <1>1, <1>5 DEF Scanned, InsertScanned
  <2>2. Places(cl.where) = {} /\ bound = 0
    BY <2>1 DEF Places
  <2> QED
    BY <1>2, <1>3, <1>5, <2>2 DEF PlacesFit
<1>6. CASE cl.request.op = "update"
  <2>1. 1..(set + bound) = (1..set) \cup ((set + 1)..(set + bound))
    BY <1>2, AllPlaces
  <2> QED
    BY <2>1, <1>2, <1>3, <1>4, <1>6 DEF PlacesFit
<1>7. CASE cl.request.op = "delete"
  <2>1. cl.args = <<>> /\ cl.sets = <<>>
    BY <1>1, <1>7 DEF Scanned
  <2>2. Assigned(c) = <<>> /\ set = 0
    BY <2>1, <1>7 DEF Assigned, Op
  <2>3. Places(Assigned(c)) = {}
    BY <2>2 DEF Places
  <2> QED
    BY <1>2, <1>4, <1>7, <2>2, <2>3 DEF PlacesFit
<1> QED
  BY <1>1, <1>5, <1>6, <1>7 DEF Scanned

\* What Run does to the table, said of the request alone.
RunIsExact(c) ==
    /\ Op(c) = "insert" =>
         \E id \in RowIds \ DOMAIN table :
            table' = [i \in DOMAIN table \cup {id} |->
                        IF i = id THEN OnTop(call[c].request, Defaults) ELSE table[i]]
    /\ Op(c) = "update" =>
         table' = [i \in DOMAIN table |->
                     IF i \in Meant(call[c].request, table)
                     THEN OnTop(call[c].request, table[i]) ELSE table[i]]
    /\ Op(c) = "delete" =>
         table' = [i \in DOMAIN table \ Meant(call[c].request, table) |-> table[i]]

LEMMA RunExact ==
    ASSUME IInv, NEW c \in Calls, Run(c)
    PROVE  RunIsExact(c) /\ table' \in Table
<1>1. /\ wire[c] = "running" /\ AssignedOnce(c) /\ call[c].request.op # "replace"
  <2>1. wire[c] = "running" /\ AssignedOnce(c)
    BY DEF Run
  <2>2. Scanned(call[c])
    BY <2>1 DEF IInv, Active
  <2> QED
    BY <2>1, <2>2 DEF Scanned
<1>2. Statement(c) /\ TypeOK
  BY <1>1, CompleteStatement DEF IInv
<1>3. DOMAIN table \in SUBSET RowIds /\ \A i \in DOMAIN table : table[i] \in Content
  <2>1. PICK ids \in SUBSET RowIds : table \in [ids -> Content]
    BY <1>2 DEF TypeOK, Table
  <2> QED
    BY <2>1
<1>4. ASSUME NEW ids \in SUBSET RowIds, table' \in [ids -> Content]
      PROVE  table' \in Table
  BY <1>4 DEF Table
<1>5. CASE Op(c) = "insert"
  <2>1. RunInsert(c)
    BY <1>5 DEF Run
  <2>2. PICK id \in RowIds \ DOMAIN table :
           table' = [i \in DOMAIN table \cup {id} |->
                       IF i = id THEN Written(c, Defaults) ELSE table[i]]
    BY <2>1 DEF RunInsert
  <2>3. /\ Written(c, Defaults) = OnTop(call[c].request, Defaults)
        /\ Written(c, Defaults) \in Content
    BY <1>1, <1>2, <1>5, RowWriteAssumption, WrittenIsOnTop
  <2>4. RunIsExact(c)
    BY <1>5, <2>2, <2>3 DEF RunIsExact
  <2>5. table' \in [DOMAIN table \cup {id} -> Content]
    BY <1>3, <2>2, <2>3
  <2> QED
    BY <1>3, <1>4, <2>4, <2>5
<1>6. CASE Op(c) = "update"
  <2>1. table' = [i \in DOMAIN table |->
                    IF i \in Hit(c) THEN Written(c, table[i]) ELSE table[i]]
    BY <1>6 DEF Run, RunUpdate
  <2>2. Hit(c) = Meant(call[c].request, table)
    BY <1>2, <1>6, HitIsMeant
  <2>3. \A i \in DOMAIN table : /\ Written(c, table[i]) = OnTop(call[c].request, table[i])
                               /\ Written(c, table[i]) \in Content
    BY <1>1, <1>2, <1>3, <1>6, WrittenIsOnTop
  <2>4. RunIsExact(c)
    BY <1>6, <2>1, <2>2, <2>3 DEF RunIsExact
  <2>5. table' \in [DOMAIN table -> Content]
    BY <1>3, <2>1, <2>3
  <2> QED
    BY <1>3, <1>4, <2>4, <2>5
<1>7. CASE Op(c) = "delete"
  <2>1. table' = [i \in DOMAIN table \ Hit(c) |-> table[i]]
    BY <1>7 DEF Run, RunDelete
  <2>2. Hit(c) = Meant(call[c].request, table)
    BY <1>2, <1>7, HitIsMeant
  <2>3. RunIsExact(c)
    BY <1>7, <2>1, <2>2 DEF RunIsExact
  <2>4. table' \in [DOMAIN table \ Hit(c) -> Content]
    BY <1>3, <2>1
  <2> QED
    BY <1>3, <1>4, <2>3, <2>4
<1> QED
  BY <1>1, <1>2, <1>5, <1>6, <1>7 DEF Statement, Request, Op

LEMMA RunKeeps ==
    ASSUME IInv, NEW c \in Calls, Run(c)
    PROVE  IInv'
<1>1. /\ wire[c] = "running" /\ wire' = [wire EXCEPT ![c] = "ran"]
      /\ applied' = [applied EXCEPT ![c] = @ + 1] /\ call' = call
  BY DEF Run
<1>2. TypeOK /\ HistoryFits(c) /\ Scanned(call[c])
  BY <1>1 DEF IInv, Active
<1>3. applied[c] = 0
  BY <1>1, <1>2 DEF HistoryFits
<1>4. /\ wire' \in [Calls -> {"idle", "running", "ran", "refused"}] /\ wire'[c] = "ran"
      /\ \A d \in Calls : d # c => wire'[d] = wire[d]
  BY <1>1, <1>2 DEF TypeOK
<1>5. /\ applied' \in [Calls -> Nat] /\ applied'[c] = 1
      /\ \A d \in Calls : d # c => applied'[d] = applied[d]
  BY <1>1, <1>2, <1>3 DEF TypeOK
<1>6. TypeOK'
  BY <1>1, <1>2, <1>4, <1>5, RunExact DEF TypeOK
<1>7. /\ call'[c] = call[c] /\ call[c].answer \notin {"validation", "failed", "ok"}
      /\ call[c].pc \in {"wait", "done"}
  <2>1. call[c].pc \in {"wait", "done"}
    BY <1>1, <1>2 DEF HistoryFits
  <2>2. call[c].answer \in {None, "lost"}
    BY <1>1, <1>2, <2>1 DEF HistoryFits, At
  <2> QED
    BY <1>1, <2>1, <2>2, RowWriteAssumption
<1>8. HistoryFits(c)'
  BY <1>1, <1>2, <1>4, <1>5, <1>7 DEF HistoryFits, At
<1> QED
  BY <1>1, <1>2, <1>4, <1>5, <1>6, <1>8, OthersKeep

(***************************************************************************)
(* Theorems                                                                *)
(***************************************************************************)
LEMMA InitHolds == Init => IInv
<1> SUFFICES ASSUME Init PROVE IInv
  OBVIOUS
<1>1. TypeOK
  BY RowWriteAssumption, IdleType DEF Init, TypeOK
<1>2. None \notin {"ok", "validation", "failed", "lost"}
  BY RowWriteAssumption
<1>3. ASSUME NEW c \in Calls
      PROVE  HistoryFits(c) /\ ~ Active(c)
  <2>1. /\ call[c].pc = "idle" /\ call[c].answer = None /\ wire[c] = "idle" /\ applied[c] = 0
    BY DEF Init, Idle
  <2> QED
    BY <1>2, <2>1 DEF HistoryFits, Active, At
<1> QED
  BY <1>1, <1>3 DEF IInv

LEMMA NextKeeps == IInv /\ [Next]_vars => IInv'
<1> SUFFICES ASSUME IInv, [Next]_vars PROVE IInv'
  OBVIOUS
<1>1. CASE UNCHANGED vars
  BY <1>1 DEF vars, IInv, TypeOK, HistoryFits, Active, At, Op
<1>2. ASSUME NEW c \in Calls, NEW r \in Requests, Receive(c, r) PROVE IInv'
  BY <1>2, ReceiveKeeps
<1>3. ASSUME NEW c \in Calls, SkipDefault(c) PROVE IInv'
  BY <1>3, SkipDefaultKeeps
<1>4. ASSUME NEW c \in Calls, BindColumn(c) PROVE IInv'
  BY <1>4, BindColumnKeeps
<1>5. ASSUME NEW c \in Calls, SetColumn(c) PROVE IInv'
  BY <1>5, SetColumnKeeps
<1>6. ASSUME NEW c \in Calls, RejectValue(c) PROVE IInv'
  BY <1>6, RejectKeeps DEF RejectValue, AtValue, At
<1>7. ASSUME NEW c \in Calls, EndOfValues(c) PROVE IInv'
  BY <1>7, EndOfValuesKeeps
<1>8. ASSUME NEW c \in Calls, BindKey(c) PROVE IInv'
  BY <1>8, BindKeyKeeps
<1>9. ASSUME NEW c \in Calls, RejectKey(c) PROVE IInv'
  BY <1>9, RejectKeeps DEF RejectKey, AtKey, At
<1>10. ASSUME NEW c \in Calls, EndOfKey(c) PROVE IInv'
  BY <1>10, EndOfKeyKeeps
<1>11. ASSUME NEW c \in Calls, Send(c) PROVE IInv'
  BY <1>11, SendKeeps
<1>12. ASSUME NEW c \in Calls, ReceiveAnswer(c) PROVE IInv'
  BY <1>12, ReceiveAnswerKeeps
<1>13. ASSUME NEW c \in Calls, GiveUp(c) PROVE IInv'
  BY <1>13, GiveUpKeeps
<1>14. ASSUME NEW c \in Calls, Run(c) PROVE IInv'
  BY <1>14, RunKeeps
<1>15. ASSUME NEW c \in Calls, Refuse(c) PROVE IInv'
  BY <1>15, RefuseKeeps
<1> QED
  BY <1>1, <1>2, <1>3, <1>4, <1>5, <1>6, <1>7, <1>8, <1>9, <1>10, <1>11, <1>12, <1>13,
     <1>14, <1>15 DEF Next

\* What has been gone through of a write's lists is always in its terms and
\* arguments, and the history fits the answers.
THEOREM Invariance == Spec => []IInv
BY InitHolds, NextKeeps, PTL DEF Spec

\* The state of the calls, their connections and the table stays well typed:
\* in particular neither DEFAULT nor an unsupported value is ever bound.
THEOREM TypeCorrectness == Spec => []TypeOK
<1>1. IInv => TypeOK
  BY DEF IInv
<1> QED
  BY <1>1, Invariance, PTL

\* The placeholders of every statement sent are exactly its arguments'
\* numbers, whatever the lists of the request.
THEOREM PlaceholdersFit == Spec => []StatementsFit
<1>1. IInv => StatementsFit
  BY CompleteStatement, StatementFits DEF StatementsFit
<1> QED
  BY <1>1, Invariance, PTL

\* No write is done twice, none is done by a call that was rejected or
\* refused, and "ok" means that it was done.
THEOREM HonestAnswers == Spec => []WriteAnswersAreHonest
<1>1. IInv => WriteAnswersAreHonest
  BY DEF IInv, HistoryFits, WriteAnswersAreHonest
<1> QED
  BY <1>1, Invariance, PTL

\* Only Run carries a statement out.
LEMMA OnlyRunCarriesOut ==
    ASSUME IInv, [Next]_vars, NEW c \in Calls, applied'[c] # applied[c]
    PROVE  Run(c)
<1>1. PICK d \in Calls : Run(d)
  BY DEF Next, vars, Receive, SkipDefault, BindColumn, SetColumn, RejectValue, EndOfValues,
     BindKey, RejectKey, EndOfKey, Send, ReceiveAnswer, GiveUp, Refuse
<1>2. applied' = [applied EXCEPT ![d] = @ + 1] /\ applied \in [Calls -> Nat]
  BY <1>1 DEF Run, IInv, TypeOK
<1>3. c = d
  BY <1>2
<1> QED
  BY <1>1, <1>3

LEMMA RunCarriesOutExactly ==
    ASSUME IInv, [Next]_vars, NEW c \in Calls, applied'[c] # applied[c]
    PROVE  RunIsExact(c) /\ Statement(c)
<1>1. Run(c)
  BY OnlyRunCarriesOut
<1>2. wire[c] = "running"
  BY <1>1 DEF Run
<1> QED
  BY <1>1, <1>2, RunExact, CompleteStatement

\* Every INSERT carried out adds the one row its request describes.
THEOREM InsertsAreExact == Spec => InsertIsExact
<1> DEFINE Exact == \A c \in Calls : Ran(c, "insert") =>
              \E id \in DOMAIN table' \ DOMAIN table :
                 table' = [i \in DOMAIN table \cup {id} |->
                    IF i = id THEN OnTop(call[c].request, Defaults) ELSE table[i]]
<1>1. ASSUME IInv, [Next]_vars
      PROVE  Exact
  <2>1. ASSUME NEW c \in Calls, Ran(c, "insert")
        PROVE  \E id \in DOMAIN table' \ DOMAIN table :
                 table' = [i \in DOMAIN table \cup {id} |->
                    IF i = id THEN OnTop(call[c].request, Defaults) ELSE table[i]]
    <3>1. RunIsExact(c) /\ Op(c) = "insert"
      BY <1>1, <2>1, RunCarriesOutExactly DEF Ran
    <3>2. PICK id \in RowIds \ DOMAIN table :
             table' = [i \in DOMAIN table \cup {id} |->
                         IF i = id THEN OnTop(call[c].request, Defaults) ELSE table[i]]
      BY <3>1 DEF RunIsExact
    <3>3. id \in DOMAIN table' \ DOMAIN table
      BY <3>2
    <3> QED
      BY <3>2, <3>3
  <2> QED
    BY <2>1
<1>2. IInv /\ [Next]_vars => [Exact]_vars
  BY <1>1
<1> QED
  BY <1>2, Invariance, PTL DEF Spec, InsertIsExact

\* Every UPDATE carried out changes the rows its key means, and only those, as
\* its values say.
THEOREM UpdatesAreExact == Spec => UpdateIsExact
<1> DEFINE Exact == \A c \in Calls : Ran(c, "update") =>
              table' = [i \in DOMAIN table |->
                 IF i \in Meant(call[c].request, table)
                 THEN OnTop(call[c].request, table[i]) ELSE table[i]]
<1>1. IInv /\ [Next]_vars => [Exact]_vars
  BY RunCarriesOutExactly DEF Ran, RunIsExact
<1> QED
  BY <1>1, Invariance, PTL DEF Spec, UpdateIsExact

\* Every DELETE carried out removes the rows its key means, and only those,
\* and there is no DELETE without a key.
THEOREM DeletesAreExact == Spec => DeleteIsExact
<1> DEFINE Exact == \A c \in Calls : Ran(c, "delete") =>
              /\ call[c].request.key # <<>>
              /\ table' = [i \in DOMAIN table \ Meant(call[c].request, table) |-> table[i]]
<1>1. IInv /\ [Next]_vars => [Exact]_vars
  BY RunCarriesOutExactly, KeyTerms DEF Ran, RunIsExact
<1> QED
  BY <1>1, Invariance, PTL DEF Spec, DeleteIsExact
=============================================================================
