----------------------------- MODULE SchemaTree -----------------------------
(***************************************************************************)
(* ListSchema: three queries, each of a moment of its own, while others    *)
(* create and drop databases, schemas and tables.  The rows of the second  *)
(* become the connected database's schemas and tables (listCurrentDatabase)*)
(* and those of the third the databases, one of which they follow.         *)
(***************************************************************************)
EXTENDS Naturals, Sequences, FiniteSets

CONSTANTS
    Names,      \* of databases, schemas and tables
    Rank,       \* the order PostgreSQL sorts names in
    Displayed,  \* sanitizeDisplay
    Hidden,     \* schemas of the system, pg_temp% and pg_toast% among them
    Connected,  \* current_database()
    Catalogs,   \* bound: what the server may hold from time to time
    None

Blank == ""
Kinds == {"BASE TABLE", "VIEW", "FOREIGN"}
Table == [schema : Names, kind : Kinds, name : Names, estimate : Nat \cup {None}]

\* The databases are those that allow connections; a table's estimate is None
\* where pg_class has a negative one.
Catalog == [databases : SUBSET Names, schemas : SUBSET Names, tables : SUBSET Table]

ASSUME SchemaTreeAssumption ==
    /\ Rank \in [Names -> Nat] /\ \A m, n \in Names : Rank[m] = Rank[n] => m = n
    /\ Displayed \in [Names -> Names \cup {Blank}]
    /\ Hidden \subseteq Names /\ Connected \in Names
    /\ None \notin Names \cup Kinds
    /\ Catalogs \subseteq Catalog
    /\ \A db \in Catalogs :
          /\ IsFiniteSet(db.databases) /\ IsFiniteSet(db.schemas) /\ IsFiniteSet(db.tables)
          /\ \A t \in db.tables : t.schema \in db.schemas
          /\ \A t, u \in db.tables : t.schema = u.schema /\ t.name = u.name => t = u

VARIABLES
    catalog,  \* of the server
    tree,     \* the call, and the objects it has listed
    times     \* history: the catalogs of the time since the call began

vars == <<catalog, tree, times>>

\* tree.rows are the rows of the query under way, and tree.children the objects
\* of the connected database once they are listed.
Init ==
    /\ catalog \in Catalogs
    /\ tree = [pc |-> "idle", current |-> None, rows |-> <<>>, next |-> 1, lastSchema |-> Blank,
               children |-> <<>>, objects |-> <<>>, answer |-> None]
    /\ times = {}

At(pc) == tree.pc = pc
Become(new) == tree' = new /\ UNCHANGED <<catalog, times>>
HasRow == tree.next <= Len(tree.rows)
Row == tree.rows[tree.next]

(***************************************************************************)
(* PostgreSQL: the queries                                                 *)
(***************************************************************************)
\* The rows in the order of ORDER BY, none equal to another in it.
Ordered(rows, Less(_, _)) ==
    CHOOSE seq \in [1..Cardinality(rows) -> rows] :
        \A j, k \in DOMAIN seq : j < k => seq[j] # seq[k] /\ Less(seq[j], seq[k])

RankOfKind(kind) == IF kind = "BASE TABLE" THEN 1 ELSE 2

RowBefore(r, s) ==
    \/ Rank[r.schema] < Rank[s.schema]
    \/ r.schema = s.schema /\ RankOfKind(r.kind) < RankOfKind(s.kind)
    \/ r.schema = s.schema /\ r.kind = s.kind /\ Rank[r.name] < Rank[s.name]

Listed == {t \in catalog.tables : t.kind \in {"BASE TABLE", "VIEW"}}
Seen == catalog.schemas \ Hidden

\* Mutant: the schemas are joined with their tables, not left joined.
ChildRowsJoined == Ordered({t \in Listed : t.schema \in Seen}, RowBefore)

\* A schema without tables has a row of its own.
ChildRows ==
    Ordered({t \in Listed : t.schema \in Seen}
            \cup {[schema |-> s, kind |-> None, name |-> None, estimate |-> None] :
                     s \in {s \in Seen : \A t \in Listed : t.schema # s}},
            RowBefore)

NameBefore(m, n) == Rank[m] < Rank[n]

DatabaseRows == Ordered(catalog.databases, NameBefore)

(***************************************************************************)
(* ListSchema                                                              *)
(***************************************************************************)
Object(database, type, name, count) ==
    [database |-> database, type |-> type, name |-> name, rowCount |-> count]

AskCurrent ==
    /\ At("idle")
    /\ tree' = [tree EXCEPT !.pc = "current", !.current = Connected]
    /\ times' = {catalog} /\ UNCHANGED catalog

AskChildren ==
    /\ At("current")
    /\ Become([tree EXCEPT !.pc = "children", !.rows = ChildRows, !.next = 1])

\* Mutant: the schema under way is not remembered.
Remembered(schema) == tree.lastSchema

LastSchema(schema) == schema

SchemaObject(schema) ==
    IF schema = tree.lastSchema THEN <<>>
    ELSE <<Object(tree.current, "schema", <<schema>>, None)>>

Type(row) == IF row.kind = "BASE TABLE" THEN "table" ELSE "view"

\* The planner's estimate, of tables only and when there is one.
RowCount(row) == IF row.kind = "BASE TABLE" /\ row.estimate # 0 THEN row.estimate ELSE None

TableObject(schema, row) ==
    IF row.name = None THEN <<>>
    ELSE <<Object(tree.current, Type(row), <<schema, Displayed[row.name]>>, RowCount(row))>>

ScanChild ==
    /\ At("children") /\ HasRow
    /\ LET schema == Displayed[Row.schema] IN
       Become([tree EXCEPT !.next = @ + 1, !.lastSchema = LastSchema(schema),
                           !.children = @ \o SchemaObject(schema) \o TableObject(schema, Row)])

AskDatabases ==
    /\ At("children") /\ ~ HasRow
    /\ Become([tree EXCEPT !.pc = "databases", !.rows = DatabaseRows, !.next = 1])

ScanDatabase ==
    /\ At("databases") /\ HasRow
    /\ Become([tree EXCEPT !.next = @ + 1,
         !.objects = @ \o <<Object(Displayed[Row], "database", <<Displayed[Row]>>, None)>>
                       \o (IF Row = tree.current THEN tree.children ELSE <<>>)])

Answer ==
    /\ At("databases") /\ ~ HasRow
    /\ Become([tree EXCEPT !.pc = "done", !.answer = "ok"])

\* A query is refused or interrupted, or its rows cannot be read.
Fail ==
    /\ tree.pc \in {"current", "children", "databases"}
    /\ Become([tree EXCEPT !.pc = "done", !.answer = "failed", !.objects = <<>>])

\* Others create, drop and analyze.
Change ==
    /\ tree.pc # "done"
    /\ catalog' \in Catalogs \ {catalog}
    /\ times' = IF At("idle") THEN {} ELSE times \cup {catalog'}
    /\ UNCHANGED tree

Next ==
    \/ AskCurrent \/ AskChildren \/ ScanChild \/ AskDatabases \/ ScanDatabase \/ Answer \/ Fail
    \/ Change

Spec == Init /\ [][Next]_vars

(***************************************************************************)
(* Properties                                                              *)
(***************************************************************************)
Answered == At("done") /\ tree.answer = "ok"
Objects == {tree.objects[k] : k \in DOMAIN tree.objects}
OfType(types) == {k \in DOMAIN tree.objects : tree.objects[k].type \in types}

\* What a catalog has to show, of databases and of the connected one's own.
Roots(db) == {Object(Displayed[d], "database", <<Displayed[d]>>, None) : d \in db.databases}
Own(db) ==
    {Object(Connected, "schema", <<Displayed[s]>>, None) : s \in db.schemas \ Hidden}
    \cup {Object(Connected, Type(t), <<Displayed[t.schema], Displayed[t.name]>>, RowCount(t)) :
             t \in {t \in db.tables : t.kind # "FOREIGN" /\ t.schema \notin Hidden}}

Every(Shows(_)) == {x \in UNION {Shows(db) : db \in times} : \A db \in times : x \in Shows(db)}

\* The three queries see different moments, but all is of the time of the call:
\* what was there all the time is listed, and what is listed was there at some
\* time.  Schemas and tables go with the root of the connected database.
TreeIsOfItsTime ==
    Answered =>
        /\ Objects \subseteq UNION {Roots(db) \cup Own(db) : db \in times}
        /\ Every(Roots) \subseteq Objects
        /\ (\A db \in times : Connected \in db.databases) /\ Displayed[Connected] # Blank
              => {x \in Every(Own) : x.name # <<Blank>>} \subseteq Objects

\* The last object before the k-th that is of a type.
Nearest(k, type) ==
    LET before == {j \in OfType({type}) : j < k}
    IN  IF before = {} THEN None
        ELSE tree.objects[CHOOSE j \in before : \A i \in before : i <= j]

\* Every table stands under its schema, every schema under the connected
\* database, and none twice, if no two of them are displayed alike.
TreeIsInOrder ==
    LET schemas == UNION {db.schemas : db \in times}
        told == /\ \A s \in schemas : Displayed[s] # Blank
                /\ \A s, t \in schemas : Displayed[s] = Displayed[t] => s = t
    IN  Answered =>
        /\ \A k \in OfType({"schema", "table", "view"}) :
              Nearest(k, "database").name = <<Displayed[Connected]>>
        /\ \A k \in OfType({"table", "view"}) :
              told => Nearest(k, "schema").name = <<tree.objects[k].name[1]>>
        /\ told => \A j, k \in OfType({"schema"}) :
              tree.objects[j].name = tree.objects[k].name => j = k
=============================================================================
