------------------------------ MODULE PgCatalog ------------------------------
(***************************************************************************)
(* PostgreSQL's side: the part of a database's catalog that the driver     *)
(* reads and changes, and what the DDL statements the driver sends do to   *)
(* it.  None of this is the driver's code: it is modelled from the         *)
(* statements and queries the driver uses.                                 *)
(*                                                                         *)
(* A catalog is a record of relations, as in pg_catalog:                   *)
(*   columns  pg_attribute: a column of a table, `num' its attnum          *)
(*   serial   the next attnum: one counter for all tables, for only the    *)
(*            order of a table's columns matters                           *)
(*   indexes  pg_index, with the constraint behind a primary key           *)
(*   fks      pg_constraint's foreign keys; `index' is the unique index    *)
(*            on the referenced table that the key depends on              *)
(* Relations are named <<schema, name>>.  What a statement may do besides, *)
(* to rows, views, privileges or sequences, is left out: a statement that  *)
(* trips over such a thing is a refused statement, and any may be refused. *)
(***************************************************************************)
EXTENDS Texts

CONSTANTS
    Tables,          \* the tables: none is created or dropped here
    FormatType,      \* a type's text, as format_type writes that type
    DefaultText,     \* a stored default, as pg_get_expr writes it
    IdentityOf,      \* the identity an ADD COLUMN suffix declares
    PrimaryKeyNames(_), \* the names PostgreSQL gives a table's primary key
    ForeignKeyNames  \* the names PostgreSQL gives foreign keys

Relation == Texts \X Texts

(***************************************************************************)
(* A default is stored as the expression it was set to: a quoted literal,  *)
(* or a text the driver sends as it is.                                    *)
(***************************************************************************)
Expression == [quoted : BOOLEAN, text : Texts]

ASSUME CatalogAssumption ==
    /\ Tables \subseteq Relation
    /\ FormatType \in [Texts -> Texts]
    /\ DefaultText \in [Expression -> Texts]
    /\ IdentityOf \in [Texts -> Texts] /\ IdentityOf[Blank] = Blank
    /\ \A t \in Relation : PrimaryKeyNames(t) \in Seq(Texts)
    /\ ForeignKeyNames \in Seq(Texts)

\* Type names are read without regard to case: a type text that the driver lets
\* through, and that reads like a column's type but for case and outer spaces,
\* names that type.  (It has no quotes, so neither has what it reads like.)
ASSUME TypesAssumption ==
    \A asked \in TypeTexts, t \in Texts :
        EqualFold(Trimmed[asked], Trimmed[Displayed[FormatType[t]]])
            => FormatType[Trimmed[asked]] = FormatType[t]

Column ==
    [table : Relation, num : Nat, name : Texts, type : Texts,
     nullable : BOOLEAN, default : Expression \cup {Nil}, identity : Texts]

Index ==
    [table : Relation, name : Texts, columns : Seq(Texts),
     unique : BOOLEAN, primary : BOOLEAN]

ForeignKey ==
    [table : Relation, name : Texts, columns : Seq(Texts), ref : Relation,
     refColumns : Seq(Texts), index : Texts]

Catalog ==
    [columns : SUBSET Column, serial : Nat,
     indexes : SUBSET Index, fks : SUBSET ForeignKey]

Schema(rel) == rel[1]

\* The unique indexes of pg_class and pg_constraint; and every column has a type.
WellNamed(cat) ==
    /\ \A i, j \in cat.indexes :
          Schema(i.table) = Schema(j.table) /\ i.name = j.name => i = j
    /\ \A k, l \in cat.fks : k.table = l.table /\ k.name = l.name => k = l
WellTyped(cat) == \A c \in cat.columns : \E t \in Texts : c.type = FormatType[t]

IndexesOf(cat, t) == {i \in cat.indexes : i.table = t}
Uses(keyed, name) == \E k \in DOMAIN keyed.columns : keyed.columns[k] = name

(***************************************************************************)
(* Statements.  The driver names no key it adds: the `name' of such a      *)
(* statement is Nil until PostgreSQL runs it and picks one.                *)
(***************************************************************************)
Statement ==
         [kind : {"RENAME COLUMN"}, table : Relation, name : Texts, to : Texts]
    \cup [kind : {"TYPE"}, table : Relation, name : Texts, type : Texts]
    \cup [kind : {"NULLABILITY"}, table : Relation, name : Texts, nullable : BOOLEAN]
    \cup [kind : {"DEFAULT"}, table : Relation, name : Texts, default : Expression \cup {Nil}]
    \cup [kind : {"ADD COLUMN"}, table : Relation, name : Texts, type : Texts,
          nullable : BOOLEAN, default : Expression \cup {Nil}, suffix : Texts]
    \cup [kind : {"DROP COLUMN"}, table : Relation, name : Texts]
    \cup [kind : {"CREATE INDEX"}, table : Relation, name : Texts,
          columns : Seq(Texts), unique : BOOLEAN]
    \cup [kind : {"ADD PRIMARY KEY"}, table : Relation, name : Texts \cup {Nil},
          columns : Seq(Texts)]
    \cup [kind : {"DROP INDEX"}, index : Relation]
    \cup [kind : {"DROP CONSTRAINT"}, table : Relation, name : Texts]
    \cup [kind : {"ADD FOREIGN KEY"}, table : Relation, name : Texts \cup {Nil},
          columns : Seq(Texts), ref : Relation, refColumns : Seq(Texts)]

\* Statements as the driver sends them, and as they have been run.
AddsKey(s) == s.kind \in {"ADD PRIMARY KEY", "ADD FOREIGN KEY"}
Planned == {s \in Statement : AddsKey(s) => s.name = Nil}
Executed == {s \in Statement : AddsKey(s) => s.name # Nil}

\* Names taken in a schema by relations, and by constraints.
RelationTaken(cat, schema, name) ==
    \/ <<schema, name>> \in Tables
    \/ \E i \in cat.indexes : Schema(i.table) = schema /\ i.name = name

ConstraintTaken(cat, schema, name) ==
    \E k \in cat.fks \cup {i \in cat.indexes : i.primary} :
        Schema(k.table) = schema /\ k.name = name

\* The first of the names that is free; Nil when all of them are taken.
FirstFree(names, Taken(_)) ==
    LET first == {k \in DOMAIN names :
            ~ Taken(names[k]) /\ \A j \in 1..(k - 1) : Taken(names[j])}
    IN  IF first = {} THEN Nil ELSE names[CHOOSE k \in first : TRUE]

NewPrimaryKeyName(cat, t) ==
    LET Taken(n) == RelationTaken(cat, Schema(t), n)
    IN  FirstFree(PrimaryKeyNames(t), Taken)

NewForeignKeyName(cat, t) ==
    LET Taken(n) == ConstraintTaken(cat, Schema(t), n)
    IN  FirstFree(ForeignKeyNames, Taken)

\* The name of the key that a statement adds to a catalog.
KeyName(s, cat) ==
    IF s.name # Nil THEN s.name
    ELSE IF s.kind = "ADD PRIMARY KEY" THEN NewPrimaryKeyName(cat, s.table)
    ELSE NewForeignKeyName(cat, s.table)

\* A statement as PostgreSQL runs it on a catalog.
Named(s, cat) ==
    IF AddsKey(s) THEN [s EXCEPT !.name = KeyName(s, cat)] ELSE s

\* All the ways it may run a statement, whatever the names already taken.
Namings(s) ==
    LET With(names) == {[s EXCEPT !.name = names[k]] : k \in DOMAIN names}
    IN  CASE s.kind = "ADD PRIMARY KEY" -> With(PrimaryKeyNames(s.table))
          [] s.kind = "ADD FOREIGN KEY" -> With(ForeignKeyNames)
          [] OTHER -> {s}

\* The indexes DROP INDEX means, and what DROP CONSTRAINT means.
NamedIndexes(cat, rel) ==
    {i \in cat.indexes : <<Schema(i.table), i.name>> = rel}
NamedPrimary(cat, s) ==
    {i \in cat.indexes : i.primary /\ i.table = s.table /\ i.name = s.name}
NamedForeign(cat, s) ==
    {k \in cat.fks : k.table = s.table /\ k.name = s.name}

\* The unique indexes a foreign key on these columns can rest on.
Supporting(cat, s) ==
    {i \in cat.indexes :
        /\ i.unique /\ i.table = s.ref
        /\ Len(i.columns) = Len(s.refColumns)
        /\ \A n \in Texts : Uses(i, n) <=> \E k \in DOMAIN s.refColumns : s.refColumns[k] = n}

DependedOn(cat, i) ==
    \E k \in cat.fks : k.ref = i.table /\ k.index = i.name

\* The one that PostgreSQL takes: the primary key when it is among them.
Support(cat, s) ==
    LET able == Supporting(cat, s)
    IN  {i \in able : i = CHOOSE j \in able :
            j.primary \/ \A k \in able : ~ k.primary}

(***************************************************************************)
(* When PostgreSQL can carry a statement out.                              *)
(***************************************************************************)
HasColumn(cat, t, name) ==
    \E c \in cat.columns : c.table = t /\ c.name = name

HasColumns(cat, t, names) ==
    t \in Tables /\ \A k \in DOMAIN names : HasColumn(cat, t, names[k])

IsIdentity(cat, t, name) ==
    \E c \in cat.columns : c.table = t /\ c.name = name /\ c.identity # Blank

InPrimaryKey(cat, t, name) ==
    \E i \in IndexesOf(cat, t) : i.primary /\ Uses(i, name)

Legal(s, cat) ==
    CASE s.kind = "RENAME COLUMN" ->
            /\ HasColumn(cat, s.table, s.name)
            /\ ~ HasColumn(cat, s.table, s.to)
      [] s.kind = "TYPE" -> HasColumn(cat, s.table, s.name)
      [] s.kind = "NULLABILITY" ->
            /\ HasColumn(cat, s.table, s.name)
            /\ s.nullable => /\ ~ InPrimaryKey(cat, s.table, s.name)
                             /\ ~ IsIdentity(cat, s.table, s.name)
      [] s.kind = "DEFAULT" ->
            /\ HasColumn(cat, s.table, s.name)
            /\ ~ IsIdentity(cat, s.table, s.name)
      [] s.kind = "ADD COLUMN" ->
            /\ s.table \in Tables
            /\ ~ HasColumn(cat, s.table, s.name)
            /\ IdentityOf[s.suffix] # Blank => s.default = Nil
      [] s.kind = "DROP COLUMN" ->
            /\ HasColumn(cat, s.table, s.name)
            /\ \A i \in IndexesOf(cat, s.table) : Uses(i, s.name) => ~ DependedOn(cat, i)
      [] s.kind = "CREATE INDEX" ->
            /\ HasColumns(cat, s.table, s.columns)
            /\ ~ RelationTaken(cat, Schema(s.table), s.name)
      [] s.kind = "ADD PRIMARY KEY" ->
            /\ HasColumns(cat, s.table, s.columns)
            /\ \A i \in IndexesOf(cat, s.table) : ~ i.primary
            /\ KeyName(s, cat) # Nil /\ ~ RelationTaken(cat, Schema(s.table), s.name)
      [] s.kind = "DROP INDEX" ->
            \E i \in NamedIndexes(cat, s.index) : ~ i.primary /\ ~ DependedOn(cat, i)
      [] s.kind = "DROP CONSTRAINT" ->
            \/ NamedForeign(cat, s) # {}
            \/ \E i \in NamedPrimary(cat, s) : ~ DependedOn(cat, i)
      [] s.kind = "ADD FOREIGN KEY" ->
            /\ HasColumns(cat, s.table, s.columns)
            /\ s.ref \in Tables
            /\ Support(cat, s) # {}
            /\ KeyName(s, cat) # Nil /\ NamedForeign(cat, s) = {} /\ NamedPrimary(cat, s) = {}

(***************************************************************************)
(* What a legal statement does to the catalog.                             *)
(***************************************************************************)
Renamed(names, s) ==
    [k \in DOMAIN names |-> IF names[k] = s.name THEN s.to ELSE names[k]]

RenamedIn(keyed, s) ==
    IF keyed.table = s.table THEN [keyed EXCEPT !.columns = Renamed(@, s)] ELSE keyed

RenamedRef(fk, s) ==
    IF fk.ref = s.table THEN [fk EXCEPT !.refColumns = Renamed(@, s)] ELSE fk

\* SET DEFAULT NULL leaves no default behind.
Stored(default) ==
    IF default # Nil /\ ~ default.quoted /\ EqualFold(default.text, "NULL")
    THEN Nil ELSE default

Altered(column, s) ==
    IF column.table # s.table \/ column.name # s.name THEN column
    ELSE CASE s.kind = "RENAME COLUMN" -> [column EXCEPT !.name = s.to]
           [] s.kind = "TYPE"          -> [column EXCEPT !.type = FormatType[s.type]]
           [] s.kind = "NULLABILITY"   -> [column EXCEPT !.nullable = s.nullable]
           [] s.kind = "DEFAULT"       -> [column EXCEPT !.default = Stored(s.default)]

NewColumn(cat, s) ==
    [table |-> s.table, num |-> cat.serial, name |-> s.name,
     type |-> FormatType[s.type],
     nullable |-> s.nullable /\ IdentityOf[s.suffix] = Blank,
     default |-> Stored(s.default), identity |-> IdentityOf[s.suffix]]

\* The columns of a primary key become NOT NULL.
InKey(column, s) ==
    column.table = s.table /\ \E k \in DOMAIN s.columns : s.columns[k] = column.name
KeyColumn(column, s) ==
    IF InKey(column, s) THEN [column EXCEPT !.nullable = FALSE] ELSE column

RenameColumn(s, cat) ==
    [cat EXCEPT !.columns = {Altered(c, s) : c \in @},
                !.indexes = {RenamedIn(i, s) : i \in @},
                !.fks     = {RenamedRef(RenamedIn(k, s), s) : k \in @}]

ChangeColumn(s, cat) == [cat EXCEPT !.columns = {Altered(c, s) : c \in @}]

AppendColumn(s, cat) ==
    [cat EXCEPT !.columns = @ \cup {NewColumn(cat, s)}, !.serial = @ + 1]

RemoveColumn(s, cat) ==
    [cat EXCEPT !.columns = {c \in @ : c.table # s.table \/ c.name # s.name},
                !.indexes = {i \in @ : i.table # s.table \/ ~ Uses(i, s.name)},
                !.fks     = {k \in @ : k.table # s.table \/ ~ Uses(k, s.name)}]

MakeIndex(s, cat) ==
    [cat EXCEPT !.indexes = @ \cup
        {[table |-> s.table, name |-> s.name, columns |-> s.columns,
          unique |-> s.unique, primary |-> FALSE]}]

MakePrimaryKey(s, cat) ==
    [cat EXCEPT
        !.columns = {KeyColumn(c, s) : c \in @},
        !.indexes = @ \cup
            {[table |-> s.table, name |-> s.name, columns |-> s.columns,
              unique |-> TRUE, primary |-> TRUE]}]

RemoveIndex(s, cat) == [cat EXCEPT !.indexes = @ \ NamedIndexes(cat, s.index)]

RemoveConstraint(s, cat) ==
    [cat EXCEPT !.indexes = @ \ NamedPrimary(cat, s), !.fks = @ \ NamedForeign(cat, s)]

MakeForeignKey(s, cat) ==
    [cat EXCEPT !.fks = @ \cup
        {[table |-> s.table, name |-> s.name, columns |-> s.columns, ref |-> s.ref,
          refColumns |-> s.refColumns, index |-> i.name] : i \in Support(cat, s)}]

Effect(s, cat) ==
    CASE s.kind = "RENAME COLUMN"   -> RenameColumn(s, cat)
      [] s.kind = "TYPE"            -> ChangeColumn(s, cat)
      [] s.kind = "NULLABILITY"     -> ChangeColumn(s, cat)
      [] s.kind = "DEFAULT"         -> ChangeColumn(s, cat)
      [] s.kind = "ADD COLUMN"      -> AppendColumn(s, cat)
      [] s.kind = "DROP COLUMN"     -> RemoveColumn(s, cat)
      [] s.kind = "CREATE INDEX"    -> MakeIndex(s, cat)
      [] s.kind = "ADD PRIMARY KEY" -> MakePrimaryKey(s, cat)
      [] s.kind = "DROP INDEX"      -> RemoveIndex(s, cat)
      [] s.kind = "DROP CONSTRAINT" -> RemoveConstraint(s, cat)
      [] s.kind = "ADD FOREIGN KEY" -> MakeForeignKey(s, cat)

(***************************************************************************)
(* A transaction's log replayed on a catalog: its statements, as they were *)
(* run, in order.  No transaction of the driver has more than MaxLog of    *)
(* them.                                                                   *)
(***************************************************************************)
MaxLog == 4

Replayed(k, log, cat) == IF k <= Len(log) THEN Effect(log[k], cat) ELSE cat

RunAll(log, cat) ==
    Replayed(4, log, Replayed(3, log, Replayed(2, log, Replayed(1, log, cat))))

AllLegal(log, cat) ==
    \A k \in 1..Len(log) : Legal(log[k], RunAll(SubSeq(log, 1, k - 1), cat))

(***************************************************************************)
(* Locks.  A statement locks its table, then whatever else it touches: the *)
(* other end of a foreign key and the names of relations it makes or       *)
(* drops.  CREATE INDEX's SHARE lock admits others of its kind; every      *)
(* other lock taken here conflicts with all of them.                       *)
(***************************************************************************)
Lock == [rel : Relation, shared : BOOLEAN]

Conflict(l, m) == l.rel = m.rel /\ ~ (l.shared /\ m.shared)

Exclusive(rels) == {[rel |-> r, shared |-> FALSE] : r \in rels}
IndexNames(indexes) == {<<Schema(i.table), i.name>> : i \in indexes}

FirstLocks(s, cat) ==
    CASE s.kind = "CREATE INDEX" -> {[rel |-> s.table, shared |-> TRUE]}
      [] s.kind = "DROP INDEX" -> Exclusive({i.table : i \in NamedIndexes(cat, s.index)})
      [] OTHER -> Exclusive({s.table})

OtherLocks(s, cat) ==
    CASE s.kind = "CREATE INDEX" -> Exclusive({<<Schema(s.table), s.name>>})
      [] s.kind = "DROP INDEX" -> Exclusive({s.index})
      [] s.kind = "ADD PRIMARY KEY" ->
            Exclusive({<<Schema(s.table), n>> : n \in {KeyName(s, cat)} \ {Nil}})
      [] s.kind = "DROP CONSTRAINT" ->
            Exclusive({k.ref : k \in NamedForeign(cat, s)}
                        \cup IndexNames(NamedPrimary(cat, s)))
      [] s.kind = "ADD FOREIGN KEY" -> Exclusive({s.ref})
      [] s.kind = "DROP COLUMN" ->
            Exclusive({k.ref : k \in {k \in cat.fks : k.table = s.table /\ Uses(k, s.name)}}
                        \cup IndexNames({i \in IndexesOf(cat, s.table) : Uses(i, s.name)}))
      [] OTHER -> {}
=============================================================================
