--------------------------- MODULE SchemaRequests ---------------------------
(***************************************************************************)
(* What the driver computes about one schema-changing request, without     *)
(* touching the database: the validation that rejects it, the statements   *)
(* it turns into, whether they go in a transaction, and for AlterColumn    *)
(* what TableInfo must have answered first.                                *)
(***************************************************************************)
EXTENDS PgCatalog

(***************************************************************************)
(* Requests, as the plugin protocol delivers them.                         *)
(***************************************************************************)
OptionalText == Texts \cup {Nil}

ColumnChange ==
    [op : {"AlterColumn"}, table : TableText, previous : Texts, name : Texts,
     type : Texts, nullable : BOOLEAN, default : OptionalText, attributes : OptionalText]

ColumnDef ==
    [op : {"AddColumn"}, table : TableText, name : Texts, type : Texts,
     nullable : BOOLEAN, default : OptionalText, attributes : OptionalText]

NamedDrop == [op : {"DropColumn", "DropIndex", "DropForeignKey"}, table : TableText, name : Texts]

IndexChange ==
         [op : {"CreateIndex"}, table : TableText, name : Texts, columns : Seq(Texts),
          unique : BOOLEAN, primaryKey : BOOLEAN]
    \cup [op : {"ReplaceIndex"}, table : TableText, name : Texts, columns : Seq(Texts),
          unique : BOOLEAN, primaryKey : BOOLEAN, previous : Texts]

ForeignKeyChange ==
         [op : {"CreateForeignKey"}, table : TableText, columns : Seq(Texts),
          refTable : TableText, refColumns : Seq(Texts), actions : Texts \X Texts]
    \cup [op : {"ReplaceForeignKey"}, table : TableText, columns : Seq(Texts),
          refTable : TableText, refColumns : Seq(Texts), actions : Texts \X Texts,
          previous : Texts]

Request == ColumnChange \cup ColumnDef \cup NamedDrop \cup IndexChange \cup ForeignKeyChange

(***************************************************************************)
(* Validation                                                              *)
(***************************************************************************)
ValidName(t) == ~ IsBlank(t) /\ t \notin ControlTexts

ValidType(t) == ~ IsBlank(t) /\ t \in TypeTexts

\* Shared by a column's default and its attributes: both are sent unparsed.
ValidClause(t) == t = Nil \/ (t \notin SemicolonTexts /\ t \notin ControlTexts)

validateColumnDef(r) ==
    ValidName(r.name) /\ ValidType(r.type) /\ ValidClause(r.default) /\ ValidClause(r.attributes)

validateColumnChange(r) == ValidName(r.previous) /\ validateColumnDef(r)

TrimmedAll(names) == [k \in DOMAIN names |-> Trimmed[names[k]]]

validateIndexChange(r) ==
    /\ r.primaryKey \/ ~ IsBlank(r.name)
    /\ ~ (r.primaryKey /\ r.unique)
    /\ Len(r.columns) > 0
    /\ \A k \in DOMAIN r.columns : ~ IsBlank(r.columns[k])
    /\ Distinct(TrimmedAll(r.columns))

ReferentialActions == {"NO ACTION", "RESTRICT", "SET NULL", "SET DEFAULT", "CASCADE"}

\* Repeated referenced columns pass: only the declaring side is checked.
validateForeignKeyChange(r) ==
    /\ Len(r.columns) > 0
    /\ ~ (Len(r.refTable) = 1 /\ IsBlank(r.refTable[1]))
    /\ Len(r.columns) = Len(r.refColumns)
    /\ \A k \in DOMAIN r.columns : ~ IsBlank(r.columns[k]) /\ ~ IsBlank(r.refColumns[k])
    /\ Distinct(TrimmedAll(r.columns))
    /\ \A k \in 1..2 : Folded[Trimmed[r.actions[k]]] \in ReferentialActions

\* The checks each method makes before it uses the connection.  DropIndex and
\* DropForeignKey make none.
Valid(r) ==
    CASE r.op = "AlterColumn" -> validateColumnChange(r)
      [] r.op = "AddColumn" -> validateColumnDef(r)
      [] r.op = "DropColumn" -> ~ IsBlank(r.name)
      [] r.op \in {"CreateIndex", "ReplaceIndex"} -> validateIndexChange(r)
      [] r.op \in {"CreateForeignKey", "ReplaceForeignKey"} -> validateForeignKeyChange(r)
      [] OTHER -> TRUE

(***************************************************************************)
(* TableInfo, and the column AlterColumn finds in it: the first one whose  *)
(* displayed name is the previous name.  CurrentInfo is empty when there   *)
(* is none.                                                                *)
(***************************************************************************)
ColumnInfo ==
    [num : Nat, name : Texts, type : Texts, nullable : BOOLEAN,
     default : OptionalText, attributes : Texts]

Info(c) ==
    [num |-> c.num, name |-> Displayed[c.name], type |-> Displayed[c.type],
     nullable |-> c.nullable,
     default |-> IF c.default = Nil THEN Nil ELSE Displayed[DefaultText[c.default]],
     attributes |-> c.identity]

TableInfo(cat, table) == {Info(c) : c \in {c \in cat.columns : c.table = TableParts(table)}}

CurrentInfo(cat, r) ==
    LET named == {i \in TableInfo(cat, r.table) : i.name = r.previous}
    IN  {i \in named : \A j \in named : i.num <= j.num}

(***************************************************************************)
(* AlterColumn: what differs between the request and the column's current  *)
(* information, and the statements that make the difference.               *)
(***************************************************************************)
typeChanged(r, info) == ~ EqualFold(Trimmed[r.type], Trimmed[info.type])

\* Mutant: a default asked to be dropped goes unnoticed.
defaultChangedIfGiven(r, info) == r.default # Nil /\ r.default # info.default

\* postgresDefaultsEqual compares the texts as they are.
defaultChanged(r, info) == r.default # info.default

\* validateColumnAttributeChange
AttributesKept(r, info) == r.attributes \in {Nil, info.attributes}

Unchanged(r, info) ==
    /\ r.name = r.previous
    /\ ~ typeChanged(r, info)
    /\ r.nullable = info.nullable
    /\ ~ defaultChanged(r, info)
    /\ AttributesKept(r, info)

\* postgresDefault: what a default's text becomes in a statement.
postgresDefault(text) ==
    IF IsBlank(text) THEN [quoted |-> TRUE, text |-> Blank]
    ELSE IF Trimmed[text] \in LiteralTexts THEN [quoted |-> FALSE, text |-> Trimmed[text]]
    ELSE [quoted |-> TRUE, text |-> text]

OptionalDefault(text) == IF text = Nil THEN Nil ELSE postgresDefault(text)

When(condition, statement) == IF condition THEN <<statement>> ELSE <<>>

\* Mutant: nullability is sent whether it differs or not.
AlterStatementsEager(r, info) ==
    LET table == TableParts(r.table)
    IN  When(r.name # r.previous,
             [kind |-> "RENAME COLUMN", table |-> table, name |-> r.previous, to |-> r.name])
        \o When(typeChanged(r, info),
             [kind |-> "TYPE", table |-> table, name |-> r.name, type |-> Trimmed[r.type]])
        \o <<[kind |-> "NULLABILITY", table |-> table, name |-> r.name, nullable |-> r.nullable]>>
        \o When(defaultChanged(r, info),
             [kind |-> "DEFAULT", table |-> table, name |-> r.name,
              default |-> OptionalDefault(r.default)])

\* After the rename every statement uses the new name.
AlterStatements(r, info) ==
    LET table == TableParts(r.table)
    IN  When(r.name # r.previous,
             [kind |-> "RENAME COLUMN", table |-> table, name |-> r.previous, to |-> r.name])
        \o When(typeChanged(r, info),
             [kind |-> "TYPE", table |-> table, name |-> r.name, type |-> Trimmed[r.type]])
        \o When(r.nullable # info.nullable,
             [kind |-> "NULLABILITY", table |-> table, name |-> r.name, nullable |-> r.nullable])
        \o When(defaultChanged(r, info),
             [kind |-> "DEFAULT", table |-> table, name |-> r.name,
              default |-> OptionalDefault(r.default)])

(***************************************************************************)
(* The other requests: one statement each, or a drop and a create.         *)
(***************************************************************************)
\* Mutant: absent attributes are used all the same.
AddColumnStatementUnguarded(r) ==
    [kind |-> "ADD COLUMN", table |-> TableParts(r.table), name |-> r.name,
     type |-> Trimmed[r.type], nullable |-> r.nullable,
     default |-> OptionalDefault(r.default), suffix |-> r.attributes]

AddColumnStatement(r) ==
    [kind |-> "ADD COLUMN", table |-> TableParts(r.table), name |-> r.name,
     type |-> Trimmed[r.type], nullable |-> r.nullable,
     default |-> OptionalDefault(r.default),
     suffix |-> IF r.attributes = Nil THEN Blank ELSE r.attributes]

DropColumnStatement(r) ==
    [kind |-> "DROP COLUMN", table |-> TableParts(r.table), name |-> r.name]

CreateIndexStatement(r) ==
    IF r.primaryKey
    THEN [kind |-> "ADD PRIMARY KEY", table |-> TableParts(r.table), name |-> Nil,
          columns |-> TrimmedAll(r.columns)]
    ELSE [kind |-> "CREATE INDEX", table |-> TableParts(r.table), name |-> r.name,
          columns |-> TrimmedAll(r.columns), unique |-> r.unique]

DropConstraintStatement(table, name) ==
    [kind |-> "DROP CONSTRAINT", table |-> TableParts(table), name |-> name]

\* Mutant: the index is looked for in the public schema.
DropIndexStatementInPublic(table, name) ==
    IF name \in PkeyTexts THEN DropConstraintStatement(table, name)
    ELSE [kind |-> "DROP INDEX", index |-> <<Public, name>>]

\* postgresDropIndexStatement: a name ending in _pkey is taken for a primary
\* key's, any other for an index in the schema of the table.
DropIndexStatement(table, name) ==
    IF name \in PkeyTexts THEN DropConstraintStatement(table, name)
    ELSE [kind |-> "DROP INDEX", index |-> <<Schema(TableParts(table)), name>>]

ForeignKeyStatement(r) ==
    [kind |-> "ADD FOREIGN KEY", table |-> TableParts(r.table), name |-> Nil,
     columns |-> TrimmedAll(r.columns), ref |-> TableParts(r.refTable),
     refColumns |-> TrimmedAll(r.refColumns)]

PlanOf(r) ==
    CASE r.op = "AddColumn" -> <<AddColumnStatement(r)>>
      [] r.op = "DropColumn" -> <<DropColumnStatement(r)>>
      [] r.op = "CreateIndex" -> <<CreateIndexStatement(r)>>
      [] r.op = "ReplaceIndex" ->
            <<DropIndexStatement(r.table, r.previous), CreateIndexStatement(r)>>
      [] r.op = "DropIndex" -> <<DropIndexStatement(r.table, r.name)>>
      [] r.op = "CreateForeignKey" -> <<ForeignKeyStatement(r)>>
      [] r.op = "ReplaceForeignKey" ->
            <<DropConstraintStatement(r.table, r.previous), ForeignKeyStatement(r)>>
      [] r.op = "DropForeignKey" -> <<DropConstraintStatement(r.table, r.name)>>

\* Mutant: ReplaceIndex sends its two statements on their own.
UsesTxNotForIndexes(r) == r.op \in {"AlterColumn", "ReplaceForeignKey"}

UsesTx(r) == r.op \in {"AlterColumn", "ReplaceIndex", "ReplaceForeignKey"}

\* How a failure of BeginTx is reported: ReplaceForeignKey alone leaves it
\* unclassified.
BeginError(r) == IF r.op = "ReplaceForeignKey" THEN "failed" ELSE "connection"
=============================================================================
