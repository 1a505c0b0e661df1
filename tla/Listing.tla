------------------------------ MODULE Listing ------------------------------
(***************************************************************************)
(* The driver's listings of indexes and foreign keys: ListIndexes,         *)
(* ListIndexesAll, ListForeignKeys, ListReferencingForeignKeys and         *)
(* ListForeignKeysAll.  Each sends one query, whose answer has a row per   *)
(* column of each index or key, and scans the rows in the query's order to *)
(* put the columns of one index or key together again.                     *)
(*                                                                         *)
(* The queries are SQL; what they select, join and sort by is written here *)
(* as sets of rows and an order of scanning.  Rows that the ORDER BY does  *)
(* not tell apart may come in any order.                                   *)
(***************************************************************************)
EXTENDS Texts

CONSTANTS
    Catalogs,       \* the databases to list
    Lists,          \* the listings asked for: [op, table]
    Qualified,      \* schema and name of a table, joined with a dot
    Rank            \* the collation: ORDER BY on a name sorts by this

ASSUME OrderAssumption ==
    /\ Rank \in [Texts -> Nat]
    /\ \A s, t \in Texts : Rank[s] = Rank[t] => s = t

ASSUME ListsAssumption ==
    /\ Nil \notin Lists /\ Nil \notin {"ok", "failed"}
    /\ \A l \in Lists :
          \/ l.op \in {"ListIndexesAll", "ListForeignKeysAll"}
          \/ /\ l.op \in {"ListIndexes", "ListForeignKeys", "ListReferencingForeignKeys"}
             /\ l.table \in TableText

SystemSchemas == {"pg_catalog", "pg_toast"}

Named(thing) == <<thing.table[1], thing.name>>

\* A table's indexes have names of their own.  A foreign key's columns reference
\* as many columns of another table; when it rests on a unique constraint,
\* positions finds them among its columns.
ASSUME CatalogsAssumption ==
    \A c \in Catalogs :
        /\ IsFiniteSet(c.indexes) /\ IsFiniteSet(c.fks) /\ c.keys \cap c.fks = {}
        /\ \A x \in c.indexes \cup c.keys \cup c.fks :
              x.table \in Texts \X Texts /\ x.name \in Texts
        /\ \A i \in c.indexes : i.columns \in Seq(Texts \cup {Nil})
        /\ \A i, j \in c.indexes : i.table = j.table /\ i.name = j.name => i = j
        /\ \A k \in c.fks :
              /\ k.columns \in Seq(Texts) \ {<<>>} /\ DOMAIN k.refColumns = DOMAIN k.columns
              /\ k.rests # Nil =>
                    \E key \in c.keys :
                        /\ key.table = k.ref /\ Named(key) = k.rests
                        /\ \A n \in DOMAIN k.columns :
                              /\ k.positions[n] \in DOMAIN key.columns
                              /\ key.columns[k.positions[n]] = k.refColumns[n]

VARIABLES
    catalog,    \* [indexes, keys (unique and primary constraints), fks]
    list,       \* the listing asked for, Nil before that
    rows,       \* the rows still to scan
    result,     \* what has been put together: a sequence, or one per table
    last,       \* ListIndexesAll, ListForeignKeysAll: the table and name under way
    info,       \* and what has been put together of it, or <<>>
    answer      \* "ok" or "failed" once the listing is over

vars == <<catalog, list, rows, result, last, info, answer>>

(***************************************************************************)
(* The queries.  An index's key that is an expression has no attribute:    *)
(* its column is Nil.                                                      *)
(***************************************************************************)
IndexRows ==
    UNION {{[table |-> i.table, name |-> i.name, ordinal |-> k, column |-> i.columns[k],
             unique |-> i.unique, primary |-> i.primary] :
                k \in {k \in DOMAIN i.columns : i.columns[k] # Nil}} : i \in catalog.indexes}

\* information_schema.key_column_usage: the columns of primary, unique and
\* foreign keys; a foreign key's position is that of the referenced column in
\* the unique constraint or index it rests on.
UsageOf(key, positions) ==
    {[table |-> key.table, name |-> key.name, ordinal |-> k, column |-> key.columns[k],
      position |-> positions[k]] : k \in DOMAIN key.columns}

KeyColumnUsage ==
         (UNION {UsageOf(key, [k \in DOMAIN key.columns |-> Nil]) : key \in catalog.keys})
    \cup (UNION {UsageOf(key, key.positions) : key \in catalog.fks})

\* Mutant: columns paired by their place in the two keys.
JoinedByOrdinal(column, key, referenced) ==
    key.rests # Nil /\ Named(referenced) = key.rests /\ referenced.ordinal = column.ordinal

\* The queries join on schema and name alone; rests is the schema and name of
\* the unique constraint, Nil when the key rests on a mere unique index.
JoinedColumns(column, key, referenced) ==
    key.rests # Nil /\ Named(referenced) = key.rests /\ referenced.ordinal = column.position

ForeignKeyRows ==
    {[table |-> q[1].table, name |-> q[1].name, ordinal |-> q[2].ordinal, column |-> q[2].column,
      ref |-> q[4].table, refColumn |-> q[4].column, rules |-> q[3].rules, source |-> q] :
        q \in {q \in catalog.fks \X KeyColumnUsage \X catalog.fks \X KeyColumnUsage :
            /\ Named(q[2]) = Named(q[1]) /\ Named(q[3]) = Named(q[1])
            /\ JoinedColumns(q[2], q[3], q[4])}}

Query(l) ==
    CASE l.op = "ListIndexes" -> {r \in IndexRows : r.table = TableParts(l.table)}
      [] l.op = "ListIndexesAll" -> {r \in IndexRows : r.table[1] \notin SystemSchemas}
      [] l.op = "ListForeignKeys" -> {r \in ForeignKeyRows : r.table = TableParts(l.table)}
      [] l.op = "ListReferencingForeignKeys" ->
            {r \in ForeignKeyRows : r.ref = TableParts(l.table)}
      [] l.op = "ListForeignKeysAll" -> ForeignKeyRows

\* ORDER BY schema, table, name, ordinal; in a single table's listing the
\* first two are the same in every row.
Key(x) == <<Rank[x.table[1]], Rank[x.table[2]], Rank[x.name]>>
Less(a, b) == \E k \in DOMAIN a : a[k] < b[k] /\ \A j \in 1..(k - 1) : a[j] = b[j]
Before(r, s) == Less(Append(Key(r), r.ordinal), Append(Key(s), s.ordinal))
First(some) == {r \in some : \A s \in some : ~ Before(s, r)}

(***************************************************************************)
(* Putting rows together                                                   *)
(***************************************************************************)
IndexInfo(r) ==
    [name |-> Displayed[r.name], unique |-> r.unique, primary |-> r.primary, columns |-> <<>>]
WithIndexColumn(i, r) == [i EXCEPT !.columns = Append(@, Displayed[r.column])]

ForeignKeyInfo(r) ==
    [id |-> Displayed[r.name], ref |-> Displayed[Qualified[r.ref]], rules |-> r.rules,
     columns |-> <<>>, refColumns |-> <<>>]
ReferencingInfo(r) ==
    [table |-> Displayed[Qualified[r.table]], id |-> Displayed[r.name],
     ref |-> Qualified[TableParts(list.table)], rules |-> r.rules,
     columns |-> <<>>, refColumns |-> <<>>]
WithKeyColumns(k, r) ==
    [k EXCEPT !.columns = Append(@, Displayed[r.column]),
              !.refColumns = Append(@, Displayed[r.refColumn])]

Latest == result[Len(result)]

\* The row opens a new entry, or goes with the last one.
Extended(r, belongs, new, With(_, _)) ==
    IF result # <<>> /\ belongs
    THEN [result EXCEPT ![Len(result)] = With(@, r)]
    ELSE Append(result, With(new, r))

Recorded ==
    IF info = <<>> THEN result
    ELSE [t \in DOMAIN result \cup {last.table} |->
            IF t \notin DOMAIN result THEN info
            ELSE IF t = last.table THEN result[t] \o info ELSE result[t]]

Place(r) == [table |-> Qualified[r.table], name |-> r.name]

\* Mutant: the same name under another table continues the last entry.
ContinuesByName(r) == info # <<>> /\ r.name = last.name

Continues(r) == info # <<>> /\ Place(r) = last

Grouped(r, new, With(_, _)) ==
    IF Continues(r) THEN info' = <<With(info[1], r)>> /\ UNCHANGED <<result, last>>
                    ELSE result' = Recorded /\ last' = Place(r) /\ info' = <<With(new, r)>>

(***************************************************************************)
(* The listings, row by row                                                *)
(***************************************************************************)
ForAll(l) == l.op \in {"ListIndexesAll", "ListForeignKeysAll"}

Init ==
    /\ catalog \in Catalogs
    /\ list = Nil /\ rows = {} /\ result = <<>> /\ last = Nil /\ info = <<>> /\ answer = Nil

Start(l) ==
    /\ list = Nil
    /\ list' = l /\ rows' = Query(l)
    /\ UNCHANGED <<catalog, result, last, info, answer>>

Scan(op, r) ==
    /\ list # Nil /\ list.op = op /\ answer = Nil
    /\ r \in First(rows)
    /\ rows' = rows \ {r}
    /\ UNCHANGED <<catalog, list, answer>>

\* The name compared is the displayed one on the left, the real one on the right.
ScanIndex(r) ==
    /\ Scan("ListIndexes", r)
    /\ result' = Extended(r, Latest.name = r.name, IndexInfo(r), WithIndexColumn)
    /\ UNCHANGED <<last, info>>

ScanForeignKey(r) ==
    /\ Scan("ListForeignKeys", r)
    /\ result' = Extended(r, Latest.id = r.name, ForeignKeyInfo(r), WithKeyColumns)
    /\ UNCHANGED <<last, info>>

ScanReferencing(r) ==
    /\ Scan("ListReferencingForeignKeys", r)
    /\ result' = Extended(r,
            Latest.table = Displayed[Qualified[r.table]] /\ Latest.id = r.name,
            ReferencingInfo(r), WithKeyColumns)
    /\ UNCHANGED <<last, info>>

ScanIndexAll(r) == Scan("ListIndexesAll", r) /\ Grouped(r, IndexInfo(r), WithIndexColumn)

ScanForeignKeyAll(r) ==
    Scan("ListForeignKeysAll", r) /\ Grouped(r, ForeignKeyInfo(r), WithKeyColumns)

Finish ==
    /\ list # Nil /\ answer = Nil /\ rows = {}
    /\ result' = IF ForAll(list) THEN Recorded ELSE result
    /\ answer' = "ok"
    /\ UNCHANGED <<catalog, list, rows, last, info>>

\* The query, a Scan, the iteration or Close fails: no listing is returned.
Fail ==
    /\ list # Nil /\ answer = Nil
    /\ result' = <<>> /\ answer' = "failed"
    /\ UNCHANGED <<catalog, list, rows, last, info>>

Next ==
    \/ \E l \in Lists : Start(l)
    \/ \E r \in rows : ScanIndex(r) \/ ScanForeignKey(r) \/ ScanReferencing(r)
                         \/ ScanIndexAll(r) \/ ScanForeignKeyAll(r)
    \/ Finish \/ Fail

Spec == Init /\ [][Next]_vars

(***************************************************************************)
(* What a listing should say, straight from the catalog                    *)
(***************************************************************************)
AllDisplayed(names) == [k \in DOMAIN names |-> Displayed[names[k]]]

\* What n others come before; there is one of them for each number up to n.
Earlier(x, y) == Less(Key(x), Key(y))
Behind(things, n) == {x \in things : Cardinality({y \in things : Earlier(y, x)}) = n}
InOrder(things) ==
    [k \in 1..Cardinality(things) |-> CHOOSE x \in Behind(things, k - 1) : TRUE]

Described(things, Describe(_)) ==
    LET seq == InOrder(things) IN [k \in DOMAIN seq |-> Describe(seq[k])]

\* The columns among the first k parts of an index's key; the others are expressions.
ShownUpTo(columns) ==
    LET shown[k \in 0..Len(columns)] ==
            IF k = 0 THEN <<>>
            ELSE IF columns[k] = Nil THEN shown[k - 1]
            ELSE Append(shown[k - 1], Displayed[columns[k]])
    IN  shown

IndexEntry(i) ==
    [name |-> Displayed[i.name], unique |-> i.unique, primary |-> i.primary,
     columns |-> ShownUpTo(i.columns)[Len(i.columns)]]

ForeignKeyEntry(k) ==
    [id |-> Displayed[k.name], ref |-> Displayed[Qualified[k.ref]], rules |-> k.rules,
     columns |-> AllDisplayed(k.columns), refColumns |-> AllDisplayed(k.refColumns)]

ReferencingEntry(k) ==
    [table |-> Displayed[Qualified[k.table]], id |-> Displayed[k.name],
     ref |-> Qualified[k.ref], rules |-> k.rules,
     columns |-> AllDisplayed(k.columns), refColumns |-> AllDisplayed(k.refColumns)]

\* The indexes with a column to show, and the foreign keys on a constraint.
Showable == {i \in catalog.indexes : \E k \in DOMAIN i.columns : i.columns[k] # Nil}
Resting == {k \in catalog.fks : k.rests # Nil}

ByTable(things, Describe(_)) ==
    [q \in {Qualified[x.table] : x \in things} |->
        Described({x \in things : Qualified[x.table] = q}, Describe)]

\* Every name in the listing is displayed as it is.
PlainNames(things) == \A x \in things : Displayed[x.name] = x.name

\* Of two tables whose schemas and names join to one text, as a."b.c" and "a.b".c
\* do, not both have an index or key of the same name; nor of two whose joined
\* names are displayed alike.
ApartWhenJoined(things) ==
    \A x, y \in things : Place(x) = Place(y) => x.table = y.table
ApartWhenDisplayed(things) ==
    \A x, y \in things :
        Displayed[Qualified[x.table]] = Displayed[Qualified[y.table]] /\ x.name = y.name =>
            x.table = y.table

\* A constraint's schema and name identify it, which PostgreSQL does not demand:
\* it keeps constraint names apart within a table only.
NamesIdentify ==
    \A k, m \in catalog.keys \cup catalog.fks : Named(k) = Named(m) => k = m

(***************************************************************************)
(* Properties                                                              *)
(***************************************************************************)

\* Scanning row by row, with one row of memory, loses, splits and merges no
\* index: the answer has each index of the table (of every user table, in
\* ListIndexesAll) that has a column to show, in order of name, each with its
\* columns in the order of its key.  ListIndexes promises it for names without
\* control characters: index.go:33 compares a displayed name with a raw one;
\* ListIndexesAll where the joined schema and table tell the rows' tables apart.
IndexListingIsExact ==
    answer = "ok" =>
        /\ list.op = "ListIndexes" =>
            LET own == {i \in Showable : i.table = TableParts(list.table)}
            IN  PlainNames(own) => result = Described(own, IndexEntry)
        /\ list.op = "ListIndexesAll" =>
            LET own == {i \in Showable : i.table[1] \notin SystemSchemas}
            IN  ApartWhenJoined(own) => result = ByTable(own, IndexEntry)

\* The same of foreign keys on a unique constraint; in particular each column
\* stands opposite the column it references, in whatever order the referenced
\* constraint has them.
ForeignKeyListingIsExact ==
    answer = "ok" /\ NamesIdentify =>
        /\ list.op = "ListForeignKeys" =>
            LET own == {k \in Resting : k.table = TableParts(list.table)}
            IN  PlainNames(own) => result = Described(own, ForeignKeyEntry)
        /\ list.op = "ListReferencingForeignKeys" =>
            LET own == {k \in Resting : k.ref = TableParts(list.table)}
            IN  PlainNames(own) /\ ApartWhenDisplayed(own) =>
                    result = Described(own, ReferencingEntry)
        /\ list.op = "ListForeignKeysAll" =>
            (ApartWhenJoined(Resting) => result = ByTable(Resting, ForeignKeyEntry))

\* index.go:47: "ListIndexesAll returns every index in the connected database".
EveryIndexListed ==
    answer = "ok" /\ list.op = "ListIndexesAll" =>
        \A i \in catalog.indexes :
            i.table[1] \notin SystemSchemas =>
                /\ Qualified[i.table] \in DOMAIN result
                /\ \E k \in DOMAIN result[Qualified[i.table]] :
                        result[Qualified[i.table]][k].name = Displayed[i.name]

\* foreign_key.go:102: "ListForeignKeysAll returns every foreign key in the
\* connected database".
EveryForeignKeyListed ==
    answer = "ok" /\ list.op = "ListForeignKeysAll" =>
        \A f \in catalog.fks :
            /\ Qualified[f.table] \in DOMAIN result
            /\ \E k \in DOMAIN result[Qualified[f.table]] :
                    result[Qualified[f.table]][k].id = Displayed[f.name]
=============================================================================
