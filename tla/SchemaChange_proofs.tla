------------------------ MODULE SchemaChange_proofs ------------------------
(***************************************************************************)
(* Proofs about SchemaChange, for any calls, requests, tables and texts.   *)
(*                                                                         *)
(* First, why two-phase locking pays: what a log of statements makes of a  *)
(* catalog and needs of it, and what locks have to do with either.  A lock *)
(* protects a view of the catalog.  A statement that needs no lock in      *)
(* conflict with it leaves that view alone, and on two catalogs that look  *)
(* alike in the views of its own locks a statement is legal on both or on  *)
(* neither, takes the same locks, and leaves them alike again.             *)
(*                                                                         *)
(* Then the inductive invariant, what it implies, and that the methods     *)
(* implement AtomicChange.                                                 *)
(***************************************************************************)
EXTENDS SchemaChange, SequenceTheorems, TLAPS

(***************************************************************************)
(* Types of what the driver sends and of what PostgreSQL makes of it.      *)
(***************************************************************************)

\* Renaming a column within a list of columns leaves a list of names.
LEMMA RenamedType ==
    ASSUME NEW names \in Seq(Texts), NEW s, s.name \in Texts, s.to \in Texts
    PROVE  Renamed(names, s) \in Seq(Texts)
BY DEF Renamed

\* RENAME COLUMN keeps a catalog a catalog: names in columns, indexes and foreign keys stay texts.
LEMMA RenameColumnType ==
    ASSUME NEW s \in Statement, NEW cat \in Catalog, s.kind = "RENAME COLUMN"
    PROVE  RenameColumn(s, cat) \in Catalog
<1>1. s.table \in Relation /\ s.name \in Texts /\ s.to \in Texts
  BY DEF Statement
<1>2. \A c \in Column : Altered(c, s) \in Column
  BY <1>1 DEF Altered, Column
<1>3. \A i \in Index : RenamedIn(i, s) \in Index
  BY <1>1, RenamedType DEF RenamedIn, Index
<1>4. \A k \in ForeignKey : RenamedRef(RenamedIn(k, s), s) \in ForeignKey
  <2>1. \A k \in ForeignKey : RenamedIn(k, s) \in ForeignKey
    BY <1>1, RenamedType DEF RenamedIn, ForeignKey
  <2>2. \A k \in ForeignKey : RenamedRef(k, s) \in ForeignKey
    BY <1>1, RenamedType DEF RenamedRef, ForeignKey
  <2> QED BY <2>1, <2>2
<1> QED BY <1>2, <1>3, <1>4 DEF RenameColumn, Catalog

\* So do ALTER COLUMN TYPE, SET / DROP NOT NULL and SET / DROP DEFAULT.
LEMMA ChangeColumnType ==
    ASSUME NEW s \in Statement, NEW cat \in Catalog,
           s.kind \in {"TYPE", "NULLABILITY", "DEFAULT"}
    PROVE  ChangeColumn(s, cat) \in Catalog
<1>1. \A c \in Column : Altered(c, s) \in Column
  BY CatalogAssumption DEF Altered, Column, Statement, Stored
<1> QED BY <1>1 DEF ChangeColumn, Catalog

\* The next attribute number is a number.
LEMMA NextSerial ==
    ASSUME NEW cat \in Catalog
    PROVE  cat.serial + 1 \in Nat
<1>1. cat.serial \in Nat
  BY DEF Catalog
<1> QED BY <1>1

\* ADD COLUMN keeps a catalog a catalog.
LEMMA AppendColumnType ==
    ASSUME NEW s \in Statement, NEW cat \in Catalog, s.kind = "ADD COLUMN"
    PROVE  AppendColumn(s, cat) \in Catalog
<1>1. NewColumn(cat, s) \in Column
  BY CatalogAssumption DEF NewColumn, Column, Statement, Stored, Catalog
<1>2. cat.serial + 1 \in Nat
  BY NextSerial
<1>3. cat.columns \cup {NewColumn(cat, s)} \in SUBSET Column
  BY <1>1 DEF Catalog
<1> QED BY <1>2, <1>3 DEF AppendColumn, Catalog

\* So do the statements that only take columns, indexes or keys away.
LEMMA RemovalsType ==
    ASSUME NEW s, NEW cat \in Catalog
    PROVE  /\ RemoveColumn(s, cat) \in Catalog
           /\ RemoveIndex(s, cat) \in Catalog
           /\ RemoveConstraint(s, cat) \in Catalog
BY DEF RemoveColumn, RemoveIndex, RemoveConstraint, Catalog

\* CREATE INDEX keeps a catalog a catalog.
LEMMA MakeIndexType ==
    ASSUME NEW s \in Statement, NEW cat \in Catalog, s.kind = "CREATE INDEX"
    PROVE  MakeIndex(s, cat) \in Catalog
<1> DEFINE new == [table |-> s.table, name |-> s.name, columns |-> s.columns,
                   unique |-> s.unique, primary |-> FALSE]
<1>1. new \in Index
  BY DEF Statement, Index
<1>2. cat.indexes \cup {new} \in SUBSET Index
  BY <1>1 DEF Catalog
<1> HIDE DEF new
<1>3. MakeIndex(s, cat) = [cat EXCEPT !.indexes = @ \cup {new}]
  BY DEF MakeIndex, new
<1> QED BY <1>2, <1>3 DEF Catalog

\* The names PostgreSQL picks come from its lists.
LEMMA NewNamesType ==
    ASSUME NEW cat, NEW t
    PROVE  /\ NewPrimaryKeyName(cat, t) \in {PrimaryKeyNames(t)[k] : k \in DOMAIN PrimaryKeyNames(t)} \cup {Nil}
           /\ NewForeignKeyName(cat, t) \in {ForeignKeyNames[k] : k \in DOMAIN ForeignKeyNames} \cup {Nil}
BY Zenon DEF NewPrimaryKeyName, NewForeignKeyName, FirstFree

\* They are texts.
LEMMA NamesAreTexts ==
    /\ \A t \in Relation : \A k \in DOMAIN PrimaryKeyNames(t) : PrimaryKeyNames(t)[k] \in Texts
    /\ \A k \in DOMAIN ForeignKeyNames : ForeignKeyNames[k] \in Texts
BY CatalogAssumption

\* A statement that PostgreSQL can run on a catalog is, with the name it picks,
\* one of the statements that the plan's may be run as.
LEMMA NamedType ==
    ASSUME NEW s \in Planned, NEW cat, AddsKey(s) => KeyName(s, cat) # Nil
    PROVE  Named(s, cat) \in Namings(s) /\ Named(s, cat) \in Executed
<1> s \in Statement
  BY DEF Planned
<1>1. CASE s.kind = "ADD PRIMARY KEY"
  <2>1. PICK k \in DOMAIN PrimaryKeyNames(s.table) : KeyName(s, cat) = PrimaryKeyNames(s.table)[k]
    BY <1>1, NewNamesType DEF KeyName, Planned, AddsKey
  <2>2. Named(s, cat) = [s EXCEPT !.name = PrimaryKeyNames(s.table)[k]]
    BY <1>1, <2>1 DEF Named, AddsKey
  <2>3. s.table \in Relation
    BY <1>1 DEF Statement
  <2>4. PrimaryKeyNames(s.table)[k] \in Texts
    BY <2>3, NamesAreTexts
  <2>5. Named(s, cat) \in Namings(s)
    BY <1>1, <2>2 DEF Namings
  <2>6. Named(s, cat) \in Executed
    BY <1>1, <2>2, <2>4, TextsAssumption DEF Statement, Executed
  <2> QED BY <2>5, <2>6
<1>2. CASE s.kind = "ADD FOREIGN KEY"
  <2>1. PICK k \in DOMAIN ForeignKeyNames : KeyName(s, cat) = ForeignKeyNames[k]
    BY <1>2, NewNamesType DEF KeyName, Planned, AddsKey
  <2>2. Named(s, cat) = [s EXCEPT !.name = ForeignKeyNames[k]]
    BY <1>2, <2>1 DEF Named, AddsKey
  <2>3. ForeignKeyNames[k] \in Texts
    BY NamesAreTexts
  <2>4. Named(s, cat) \in Namings(s)
    BY <1>2, <2>2 DEF Namings
  <2>5. Named(s, cat) \in Executed
    BY <1>2, <2>2, <2>3, TextsAssumption DEF Statement, Executed
  <2> QED BY <2>4, <2>5
<1>3. CASE ~ AddsKey(s)
  BY <1>3 DEF AddsKey, Named, Namings, Executed
<1> QED BY <1>1, <1>2, <1>3 DEF AddsKey

\* ADD PRIMARY KEY keeps a catalog a catalog.
LEMMA MakePrimaryKeyType ==
    ASSUME NEW s \in Executed, NEW cat \in Catalog, s.kind = "ADD PRIMARY KEY"
    PROVE  MakePrimaryKey(s, cat) \in Catalog
<1> DEFINE new == [table |-> s.table, name |-> s.name, columns |-> s.columns,
                   unique |-> TRUE, primary |-> TRUE]
<1>1. s.table \in Relation /\ s.columns \in Seq(Texts) /\ s.name \in Texts
  BY DEF Executed, AddsKey, Statement
<1>2. cat.indexes \cup {new} \in SUBSET Index
  <2>1. new \in Index
    BY <1>1 DEF Index
  <2> HIDE DEF new
  <2> QED BY <2>1 DEF Catalog
<1>3. {KeyColumn(c, s) : c \in cat.columns} \in SUBSET Column
  <2>1. \A c \in Column : KeyColumn(c, s) \in Column
    BY DEF KeyColumn, Column
  <2> QED BY <2>1 DEF Catalog
<1> HIDE DEF new
<1>4. MakePrimaryKey(s, cat) =
        [cat EXCEPT !.columns = {KeyColumn(c, s) : c \in @}, !.indexes = @ \cup {new}]
  BY DEF MakePrimaryKey, new
<1> QED BY <1>2, <1>3, <1>4 DEF Catalog

\* ADD FOREIGN KEY keeps a catalog a catalog.
LEMMA MakeForeignKeyType ==
    ASSUME NEW s \in Executed, NEW cat \in Catalog, s.kind = "ADD FOREIGN KEY"
    PROVE  MakeForeignKey(s, cat) \in Catalog
<1> DEFINE new == {[table |-> s.table, name |-> s.name, columns |-> s.columns, ref |-> s.ref,
                    refColumns |-> s.refColumns, index |-> i.name] : i \in Support(cat, s)}
<1>1. /\ s.table \in Relation /\ s.columns \in Seq(Texts) /\ s.name \in Texts
      /\ s.ref \in Relation /\ s.refColumns \in Seq(Texts)
  BY DEF Executed, AddsKey, Statement
<1>2. \A i \in Support(cat, s) : i.name \in Texts
  BY DEF Support, Supporting, Catalog, Index
<1>3. cat.fks \cup new \in SUBSET ForeignKey
  <2>1. \A i \in Texts :
            [table |-> s.table, name |-> s.name, columns |-> s.columns, ref |-> s.ref,
             refColumns |-> s.refColumns, index |-> i] \in ForeignKey
    BY <1>1 DEF ForeignKey
  <2>2. new \in SUBSET ForeignKey
    BY <1>2, <2>1
  <2> QED BY <2>2 DEF Catalog
<1> HIDE DEF new
<1>4. MakeForeignKey(s, cat) = [cat EXCEPT !.fks = @ \cup new]
  BY DEF MakeForeignKey, new
<1> QED BY <1>3, <1>4 DEF Catalog

\* Every statement that is run turns a catalog into a catalog.
LEMMA EffectType ==
    ASSUME NEW s \in Executed, NEW cat \in Catalog
    PROVE  Effect(s, cat) \in Catalog
<1> s \in Statement
  BY DEF Executed
<1>1. CASE s.kind = "RENAME COLUMN"
  BY <1>1, RenameColumnType DEF Effect
<1>2. CASE s.kind \in {"TYPE", "NULLABILITY", "DEFAULT"}
  BY <1>2, ChangeColumnType DEF Effect
<1>3. CASE s.kind = "ADD COLUMN"
  BY <1>3, AppendColumnType DEF Effect
<1>4. CASE s.kind \in {"DROP COLUMN", "DROP INDEX", "DROP CONSTRAINT"}
  BY <1>4, RemovalsType DEF Effect
<1>5. CASE s.kind = "CREATE INDEX"
  BY <1>5, MakeIndexType DEF Effect
<1>6. CASE s.kind = "ADD PRIMARY KEY"
  BY <1>6, MakePrimaryKeyType DEF Effect
<1>7. CASE s.kind = "ADD FOREIGN KEY"
  BY <1>7, MakeForeignKeyType DEF Effect
<1>8. s.kind \in {"RENAME COLUMN", "TYPE", "NULLABILITY", "DEFAULT", "ADD COLUMN",
                  "DROP COLUMN", "CREATE INDEX", "ADD PRIMARY KEY", "DROP INDEX",
                  "DROP CONSTRAINT", "ADD FOREIGN KEY"}
  BY DEF Statement
<1> QED BY <1>1, <1>2, <1>3, <1>4, <1>5, <1>6, <1>7, <1>8

\* So does any log of them, replayed.
LEMMA RunAllType ==
    ASSUME NEW log \in Seq(Executed), NEW cat \in Catalog
    PROVE  RunAll(log, cat) \in Catalog
<1>1. \A k \in 1..4 : \A from \in Catalog : Replayed(k, log, from) \in Catalog
  BY EffectType DEF Replayed
<1> QED BY <1>1 DEF RunAll

(***************************************************************************)
(* The driver's side: a request of the protocol becomes statements.        *)
(***************************************************************************)
\* postgresTableParts makes a schema and a name of any table text.
LEMMA TablePartsType ==
    ASSUME NEW text \in TableText
    PROVE  TableParts(text) \in Relation
BY TextsAssumption DEF TableText, TableParts, Relation

\* postgresDefault makes an expression of any optional text.
LEMMA DefaultType ==
    ASSUME NEW text \in OptionalText
    PROVE  OptionalDefault(text) \in Expression \cup {Nil}
BY TextsAssumption DEF OptionalText, OptionalDefault, postgresDefault, Expression

\* Trimmed column names are column names, as many as there were.
LEMMA TrimmedAllType ==
    ASSUME NEW names \in Seq(Texts)
    PROVE  TrimmedAll(names) \in Seq(Texts)
BY TextsAssumption DEF TrimmedAll

\* The drop of a constraint or an index is a statement.
LEMMA ConstraintStatementType ==
    ASSUME NEW table \in TableText, NEW name \in Texts
    PROVE  /\ DropConstraintStatement(table, name) \in Planned
           /\ DropIndexStatement(table, name) \in Planned
<1>1. TableParts(table) \in Relation
  BY TablePartsType
<1>2. DropConstraintStatement(table, name) \in Planned
  BY <1>1 DEF DropConstraintStatement, Planned, AddsKey, Statement
<1>3. [kind |-> "DROP INDEX", index |-> <<Schema(TableParts(table)), name>>] \in Planned
  BY <1>1 DEF Planned, AddsKey, Statement, Relation, Schema
<1> QED BY <1>2, <1>3 DEF DropIndexStatement

\* What CreateIndex and ReplaceIndex create with is a statement.
LEMMA CreateIndexStatementType ==
    ASSUME NEW r \in IndexChange
    PROVE  CreateIndexStatement(r) \in Planned
<1>1. TableParts(r.table) \in Relation /\ TrimmedAll(r.columns) \in Seq(Texts)
  BY TablePartsType, TrimmedAllType DEF IndexChange
<1>2. r.name \in Texts /\ r.unique \in BOOLEAN
  BY DEF IndexChange
<1>3. [kind |-> "ADD PRIMARY KEY", table |-> TableParts(r.table), name |-> Nil,
       columns |-> TrimmedAll(r.columns)] \in Planned
  BY <1>1 DEF Planned, AddsKey, Statement
<1>4. [kind |-> "CREATE INDEX", table |-> TableParts(r.table), name |-> r.name,
       columns |-> TrimmedAll(r.columns), unique |-> r.unique] \in Planned
  BY <1>1, <1>2 DEF Planned, AddsKey, Statement
<1> QED BY <1>3, <1>4 DEF CreateIndexStatement

\* What CreateForeignKey and ReplaceForeignKey create with is a statement.
LEMMA ForeignKeyStatementType ==
    ASSUME NEW r \in ForeignKeyChange
    PROVE  ForeignKeyStatement(r) \in Planned
<1>1. /\ TableParts(r.table) \in Relation /\ TableParts(r.refTable) \in Relation
      /\ TrimmedAll(r.columns) \in Seq(Texts) /\ TrimmedAll(r.refColumns) \in Seq(Texts)
  BY TablePartsType, TrimmedAllType DEF ForeignKeyChange
<1> QED BY <1>1 DEF ForeignKeyStatement, Planned, AddsKey, Statement

\* AddColumn and DropColumn send statements.
LEMMA ColumnStatementsType ==
    ASSUME NEW r \in Request
    PROVE  /\ r.op = "AddColumn" => AddColumnStatement(r) \in Planned
           /\ r.op = "DropColumn" => DropColumnStatement(r) \in Planned
<1>1. ASSUME r.op = "AddColumn" PROVE AddColumnStatement(r) \in Planned
  <2>1. r \in ColumnDef
    BY <1>1 DEF Request, ColumnChange, ColumnDef, NamedDrop, IndexChange, ForeignKeyChange
  <2>2. /\ TableParts(r.table) \in Relation /\ Trimmed[r.type] \in Texts
        /\ OptionalDefault(r.default) \in Expression \cup {Nil}
        /\ (IF r.attributes = Nil THEN Blank ELSE r.attributes) \in Texts
    BY <2>1, TablePartsType, DefaultType, TextsAssumption DEF ColumnDef, OptionalText
  <2>3. r.name \in Texts /\ r.nullable \in BOOLEAN
    BY <2>1 DEF ColumnDef
  <2> QED BY <2>2, <2>3 DEF AddColumnStatement, Planned, AddsKey, Statement
<1>2. ASSUME r.op = "DropColumn" PROVE DropColumnStatement(r) \in Planned
  <2>1. r \in NamedDrop
    BY <1>2 DEF Request, ColumnChange, ColumnDef, NamedDrop, IndexChange, ForeignKeyChange
  <2>2. TableParts(r.table) \in Relation /\ r.name \in Texts
    BY <2>1, TablePartsType DEF NamedDrop
  <2> QED BY <2>2 DEF DropColumnStatement, Planned, AddsKey, Statement
<1> QED BY <1>1, <1>2

\* A request other than AlterColumn becomes one statement, or two in a
\* transaction.
LEMMA PlanOfType ==
    ASSUME NEW r \in Request, r.op # "AlterColumn"
    PROVE  /\ PlanOf(r) \in Seq(Planned)
           /\ Len(PlanOf(r)) = IF UsesTx(r) THEN 2 ELSE 1
<1>1. CASE r.op = "AddColumn"
  BY <1>1, ColumnStatementsType DEF PlanOf, UsesTx
<1>2. CASE r.op = "DropColumn"
  BY <1>2, ColumnStatementsType DEF PlanOf, UsesTx
<1>3. CASE r.op \in {"CreateIndex", "ReplaceIndex"}
  <2>1. r \in IndexChange
    BY <1>3 DEF Request, ColumnChange, ColumnDef, NamedDrop, IndexChange, ForeignKeyChange
  <2>2. CreateIndexStatement(r) \in Planned
    BY <2>1, CreateIndexStatementType
  <2>3. r.op = "ReplaceIndex" => DropIndexStatement(r.table, r.previous) \in Planned
    BY <2>1, ConstraintStatementType DEF IndexChange
  <2> QED BY <1>3, <2>2, <2>3 DEF PlanOf, UsesTx
<1>4. CASE r.op \in {"CreateForeignKey", "ReplaceForeignKey"}
  <2>1. r \in ForeignKeyChange
    BY <1>4 DEF Request, ColumnChange, ColumnDef, NamedDrop, IndexChange, ForeignKeyChange
  <2>2. ForeignKeyStatement(r) \in Planned
    BY <2>1, ForeignKeyStatementType
  <2>3. r.op = "ReplaceForeignKey" => DropConstraintStatement(r.table, r.previous) \in Planned
    BY <2>1, ConstraintStatementType DEF ForeignKeyChange
  <2> QED BY <1>4, <2>2, <2>3 DEF PlanOf, UsesTx
<1>5. CASE r.op \in {"DropIndex", "DropForeignKey"}
  <2>1. r.table \in TableText /\ r.name \in Texts
    BY <1>5 DEF Request, ColumnChange, ColumnDef, NamedDrop, IndexChange, ForeignKeyChange
  <2>2. /\ DropIndexStatement(r.table, r.name) \in Planned
        /\ DropConstraintStatement(r.table, r.name) \in Planned
    BY <2>1, ConstraintStatementType
  <2> QED BY <1>5, <2>2 DEF PlanOf, UsesTx
<1>6. r.op \in {"AddColumn", "DropColumn", "CreateIndex", "ReplaceIndex", "CreateForeignKey",
                "ReplaceForeignKey", "DropIndex", "DropForeignKey"}
  BY DEF Request, ColumnChange, ColumnDef, NamedDrop, IndexChange, ForeignKeyChange
<1> QED BY <1>1, <1>2, <1>3, <1>4, <1>5, <1>6

\* AlterColumn sends at most four statements, and at least one when there is
\* a difference it can make.
LEMMA AlterStatementsType ==
    ASSUME NEW r \in Request, r.op = "AlterColumn", NEW info \in ColumnInfo
    PROVE  /\ AlterStatements(r, info) \in Seq(Planned)
           /\ Len(AlterStatements(r, info)) <= MaxLog
           /\ ~ Unchanged(r, info) /\ AttributesKept(r, info)
                 => Len(AlterStatements(r, info)) > 0
<1> DEFINE table == TableParts(r.table)
           rename == [kind |-> "RENAME COLUMN", table |-> table, name |-> r.previous, to |-> r.name]
           retype == [kind |-> "TYPE", table |-> table, name |-> r.name, type |-> Trimmed[r.type]]
           renull == [kind |-> "NULLABILITY", table |-> table, name |-> r.name, nullable |-> r.nullable]
           redefault == [kind |-> "DEFAULT", table |-> table, name |-> r.name,
                         default |-> OptionalDefault(r.default)]
<1>1. r \in ColumnChange
  BY DEF Request, ColumnChange, ColumnDef, NamedDrop, IndexChange, ForeignKeyChange
<1>2. /\ table \in Relation /\ Trimmed[r.type] \in Texts
      /\ OptionalDefault(r.default) \in Expression \cup {Nil}
  BY <1>1, TablePartsType, DefaultType, TextsAssumption DEF ColumnChange
<1>3. /\ rename \in Planned /\ retype \in Planned
      /\ renull \in Planned /\ redefault \in Planned
  <2>1. r.previous \in Texts /\ r.name \in Texts /\ r.nullable \in BOOLEAN
    BY <1>1 DEF ColumnChange
  <2> HIDE DEF table
  <2> QED BY <1>2, <2>1 DEF Planned, AddsKey, Statement
<1> DEFINE a == When(r.name # r.previous, rename)
           b == When(typeChanged(r, info), retype)
           c == When(r.nullable # info.nullable, renull)
           d == When(defaultChanged(r, info), redefault)
<1>4. AlterStatements(r, info) = a \o b \o c \o d
  BY DEF AlterStatements
<1>5. /\ a \in Seq(Planned) /\ b \in Seq(Planned)
      /\ c \in Seq(Planned) /\ d \in Seq(Planned)
  <2> HIDE DEF rename, retype, renull, redefault
  <2> QED BY <1>3 DEF When
<1>6. /\ Len(a) = IF r.name # r.previous THEN 1 ELSE 0
      /\ Len(b) = IF typeChanged(r, info) THEN 1 ELSE 0
      /\ Len(c) = IF r.nullable # info.nullable THEN 1 ELSE 0
      /\ Len(d) = IF defaultChanged(r, info) THEN 1 ELSE 0
  <2> HIDE DEF rename, retype, renull, redefault
  <2> QED BY DEF When
<1> HIDE DEF a, b, c, d
<1>7. /\ AlterStatements(r, info) \in Seq(Planned)
      /\ Len(AlterStatements(r, info)) = Len(a) + Len(b) + Len(c) + Len(d)
  BY <1>4, <1>5
<1>8. ~ Unchanged(r, info) /\ AttributesKept(r, info)
        => Len(a) + Len(b) + Len(c) + Len(d) > 0
  BY <1>6 DEF Unchanged
<1>9. Len(a) + Len(b) + Len(c) + Len(d) <= 4
  BY <1>6
<1> QED BY <1>7, <1>8, <1>9 DEF MaxLog

\* What AlterColumn finds in TableInfo is column information.
LEMMA CurrentInfoType ==
    ASSUME NEW cat \in Catalog, NEW r
    PROVE  CurrentInfo(cat, r) \in SUBSET ColumnInfo
<1>1. \A c \in Column : Info(c) \in ColumnInfo
  BY TextsAssumption, CatalogAssumption DEF Info, Column, ColumnInfo, OptionalText
<1>2. TableInfo(cat, r.table) \in SUBSET ColumnInfo
  BY <1>1 DEF TableInfo, Catalog
<1> QED BY <1>2 DEF CurrentInfo

\* An index lies in its table's schema, under its own name.
LEMMA IndexNamesType ==
    ASSUME NEW is \in SUBSET Index
    PROVE  IndexNames(is) \in SUBSET Relation
BY DEF IndexNames, Index, Relation, Schema

\* What a statement locks are relations of the catalog's kind.
LEMMA LocksType ==
    ASSUME NEW s \in Statement, NEW cat \in Catalog
    PROVE  /\ FirstLocks(s, cat) \in SUBSET Lock
           /\ OtherLocks(s, cat) \in SUBSET Lock
<1>1. \A rels \in SUBSET Relation : Exclusive(rels) \in SUBSET Lock
  <2>1. \A rel \in Relation : [rel |-> rel, shared |-> FALSE] \in Lock
    BY DEF Lock
  <2>2. TAKE rels \in SUBSET Relation
  <2> QED BY <2>1, <2>2 DEF Exclusive
<1>2. s.kind # "DROP INDEX" => s.table \in Relation
  BY DEF Statement
<1>3. s.kind = "DROP INDEX" => s.index \in Relation
  BY DEF Statement
<1>4. FirstLocks(s, cat) \in SUBSET Lock
  <2>1. {i.table : i \in NamedIndexes(cat, s.index)} \in SUBSET Relation
    BY DEF NamedIndexes, Catalog, Index
  <2>2. s.kind # "DROP INDEX" => [rel |-> s.table, shared |-> TRUE] \in Lock
    BY <1>2 DEF Lock
  <2> QED BY <1>1, <1>2, <2>1, <2>2 DEF FirstLocks
<1>5. OtherLocks(s, cat) \in SUBSET Lock
  <2>1. CASE s.kind = "CREATE INDEX"
    <3>1. s.name \in Texts
      BY <2>1 DEF Statement
    <3>2. <<Schema(s.table), s.name>> \in Relation
      BY <1>2, <2>1, <3>1 DEF Relation, Schema
    <3>3. {<<Schema(s.table), s.name>>} \in SUBSET Relation
      BY <3>2
    <3> QED BY <1>1, <2>1, <3>3 DEF OtherLocks
  <2>2. CASE s.kind = "DROP INDEX"
    BY <1>1, <1>3, <2>2 DEF OtherLocks
  <2>3. CASE s.kind = "ADD PRIMARY KEY"
    <3>1. \A n \in Texts : <<Schema(s.table), n>> \in Relation
      BY <1>2, <2>3 DEF Relation, Schema
    <3>2. KeyName(s, cat) \in Texts \cup {Nil}
      <4>1. s.name \in Texts \cup {Nil}
        BY <2>3 DEF Statement
      <4>2. NewPrimaryKeyName(cat, s.table) \in Texts \cup {Nil}
        BY <1>2, <2>3, NewNamesType, NamesAreTexts
      <4> QED BY <2>3, <4>1, <4>2 DEF KeyName
    <3>3. {<<Schema(s.table), n>> : n \in {KeyName(s, cat)} \ {Nil}} \in SUBSET Relation
      BY <3>1, <3>2
    <3> QED BY <1>1, <2>3, <3>3 DEF OtherLocks
  <2>4. CASE s.kind = "DROP CONSTRAINT"
    <3>1. {k.ref : k \in NamedForeign(cat, s)} \in SUBSET Relation
      BY DEF NamedForeign, Catalog, ForeignKey
    <3>2. IndexNames(NamedPrimary(cat, s)) \in SUBSET Relation
      BY IndexNamesType DEF NamedPrimary, Catalog
    <3> QED BY <1>1, <2>4, <3>1, <3>2 DEF OtherLocks
  <2>5. CASE s.kind = "ADD FOREIGN KEY"
    <3>1. s.ref \in Relation
      BY <2>5 DEF Statement
    <3> QED BY <1>1, <2>5, <3>1 DEF OtherLocks
  <2>6. CASE s.kind = "DROP COLUMN"
    <3>1. {k.ref : k \in {k \in cat.fks : k.table = s.table /\ Uses(k, s.name)}}
            \in SUBSET Relation
      BY DEF Catalog, ForeignKey
    <3>2. IndexNames({i \in IndexesOf(cat, s.table) : Uses(i, s.name)}) \in SUBSET Relation
      BY IndexNamesType DEF IndexesOf, Catalog
    <3> QED BY <1>1, <2>6, <3>1, <3>2 DEF OtherLocks
  <2>7. CASE s.kind \in {"RENAME COLUMN", "TYPE", "NULLABILITY", "DEFAULT", "ADD COLUMN"}
    BY <2>7 DEF OtherLocks
  <2> QED BY <2>1, <2>2, <2>3, <2>4, <2>5, <2>6, <2>7 DEF Statement
<1> QED BY <1>4, <1>5

-----------------------------------------------------------------------------
(***************************************************************************)
(* Catalogs that look alike to the locks of a statement.                   *)
(***************************************************************************)

Locks(s, cat) == FirstLocks(s, cat) \cup OtherLocks(s, cat)

Ex(rel) == [rel |-> rel, shared |-> FALSE]
Sh(rel) == [rel |-> rel, shared |-> TRUE]

(***************************************************************************)
(* What a lock on a relation shows of catalog a is also there in b.  Any   *)
(* lock on a table shows the names of its columns and which are identity   *)
(* columns; an exclusive one its indexes, the keys from and to it, and, as *)
(* the name of a relation, which table's index has that name.              *)
(***************************************************************************)
ColumnsWithin(t, a, b) ==
    \A c \in a.columns : c.table = t =>
        \E d \in b.columns : d.table = t /\ d.name = c.name /\ d.identity = c.identity
IndexesWithin(t, a, b) == \A i \in a.indexes : i.table = t => i \in b.indexes
KeysFromWithin(t, a, b) ==
    \A k \in a.fks : k.table = t =>
        \E l \in b.fks : /\ l.table = t /\ l.name = k.name /\ l.columns = k.columns
                         /\ l.ref = k.ref /\ l.index = k.index
KeysToWithin(t, a, b) ==
    \A k \in a.fks : k.ref = t =>
        \E l \in b.fks : l.ref = t /\ l.table = k.table /\ l.name = k.name /\ l.index = k.index
NameWithin(rel, a, b) ==
    \A i \in NamedIndexes(a, rel) :
        \E j \in NamedIndexes(b, rel) : j.table = i.table /\ j.primary = i.primary

Within(lock, a, b) ==
    /\ ColumnsWithin(lock.rel, a, b)
    /\ ~ lock.shared => /\ IndexesWithin(lock.rel, a, b) /\ KeysFromWithin(lock.rel, a, b)
                        /\ KeysToWithin(lock.rel, a, b) /\ NameWithin(lock.rel, a, b)

Same(locks, a, b) == \A lock \in locks : Within(lock, a, b) /\ Within(lock, b, a)

\* The statements of a log are legal where they stand, under these locks.
Covered(log, locks, cat) ==
    \A k \in 1..Len(log) :
        LET seen == RunAll(SubSeq(log, 1, k - 1), cat)
        IN  Legal(log[k], seen) /\ Locks(log[k], seen) \subseteq locks

(***************************************************************************)
(* Statements and locks                                                    *)
(***************************************************************************)
\* What each kind of statement makes of the catalog's parts.
LEMMA EffectParts ==
    ASSUME NEW s \in Executed, NEW cat \in Catalog
    PROVE  LET new == Effect(s, cat) IN
           /\ s.kind = "RENAME COLUMN" =>
                /\ new.columns = {Altered(c, s) : c \in cat.columns}
                /\ new.indexes = {RenamedIn(i, s) : i \in cat.indexes}
                /\ new.fks = {RenamedRef(RenamedIn(k, s), s) : k \in cat.fks}
           /\ s.kind \in {"TYPE", "NULLABILITY", "DEFAULT"} =>
                /\ new.columns = {Altered(c, s) : c \in cat.columns}
                /\ new.indexes = cat.indexes /\ new.fks = cat.fks
           /\ s.kind = "ADD COLUMN" =>
                /\ new.columns = cat.columns \cup {NewColumn(cat, s)}
                /\ new.indexes = cat.indexes /\ new.fks = cat.fks
           /\ s.kind = "DROP COLUMN" =>
                /\ new.columns = {c \in cat.columns : c.table # s.table \/ c.name # s.name}
                /\ new.indexes = {i \in cat.indexes : i.table # s.table \/ ~ Uses(i, s.name)}
                /\ new.fks = {k \in cat.fks : k.table # s.table \/ ~ Uses(k, s.name)}
           /\ s.kind = "CREATE INDEX" =>
                /\ new.indexes = cat.indexes \cup
                    {[table |-> s.table, name |-> s.name, columns |-> s.columns,
                      unique |-> s.unique, primary |-> FALSE]}
                /\ new.columns = cat.columns /\ new.fks = cat.fks
           /\ s.kind = "ADD PRIMARY KEY" =>
                /\ new.columns = {KeyColumn(c, s) : c \in cat.columns}
                /\ new.indexes = cat.indexes \cup
                    {[table |-> s.table, name |-> s.name, columns |-> s.columns,
                      unique |-> TRUE, primary |-> TRUE]}
                /\ new.fks = cat.fks
           /\ s.kind = "DROP INDEX" =>
                /\ new.indexes = cat.indexes \ NamedIndexes(cat, s.index)
                /\ new.columns = cat.columns /\ new.fks = cat.fks
           /\ s.kind = "DROP CONSTRAINT" =>
                /\ new.indexes = cat.indexes \ NamedPrimary(cat, s)
                /\ new.fks = cat.fks \ NamedForeign(cat, s)
                /\ new.columns = cat.columns
           /\ s.kind = "ADD FOREIGN KEY" =>
                /\ new.fks = cat.fks \cup
                    {[table |-> s.table, name |-> s.name, columns |-> s.columns, ref |-> s.ref,
                      refColumns |-> s.refColumns, index |-> i.name] : i \in Support(cat, s)}
                /\ new.columns = cat.columns /\ new.indexes = cat.indexes
BY DEF Effect, RenameColumn, ChangeColumn, AppendColumn, RemoveColumn, MakeIndex, MakePrimaryKey,
       RemoveIndex, RemoveConstraint, MakeForeignKey, Catalog

\* What statements of most kinds leave alone.
LEMMA PartsKept ==
    ASSUME NEW s \in Executed, NEW cat \in Catalog
    PROVE  /\ s.kind \in {"TYPE", "NULLABILITY", "DEFAULT", "ADD COLUMN", "ADD FOREIGN KEY"} =>
                Effect(s, cat).indexes = cat.indexes
           /\ s.kind \in {"TYPE", "NULLABILITY", "DEFAULT", "ADD COLUMN", "CREATE INDEX",
                          "ADD PRIMARY KEY", "DROP INDEX"} =>
                Effect(s, cat).fks = cat.fks
<1> DEFINE new == Effect(s, cat)
<1>1. CASE s.kind \in {"TYPE", "NULLABILITY", "DEFAULT"}
  <2>1. new.indexes = cat.indexes /\ new.fks = cat.fks
    BY <1>1, EffectParts, Zenon
  <2> QED BY <2>1
<1>2. CASE s.kind = "ADD COLUMN"
  <2>1. new.indexes = cat.indexes /\ new.fks = cat.fks
    BY <1>2, EffectParts, Zenon
  <2> QED BY <2>1
<1>3. CASE s.kind = "ADD FOREIGN KEY"
  <2>1. new.indexes = cat.indexes
    BY <1>3, EffectParts, Zenon
  <2> QED BY <1>3, <2>1
<1>4. CASE s.kind = "CREATE INDEX"
  <2>1. new.fks = cat.fks
    BY <1>4, EffectParts, Zenon
  <2> QED BY <1>4, <2>1
<1>5. CASE s.kind = "ADD PRIMARY KEY"
  <2>1. new.fks = cat.fks
    BY <1>5, EffectParts, Zenon
  <2> QED BY <1>5, <2>1
<1>6. CASE s.kind = "DROP INDEX"
  <2>1. new.fks = cat.fks
    BY <1>6, EffectParts, Zenon
  <2> QED BY <1>6, <2>1
<1> QED BY <1>1, <1>2, <1>3, <1>4, <1>5, <1>6

\* The locks that each kind of statement takes.
LEMMA LocksTaken ==
    ASSUME NEW s \in Executed, NEW cat \in Catalog
    PROVE  /\ s.kind \notin {"CREATE INDEX", "DROP INDEX"} => Ex(s.table) \in Locks(s, cat)
           /\ s.kind = "CREATE INDEX" =>
                Sh(s.table) \in Locks(s, cat) /\ Ex(<<Schema(s.table), s.name>>) \in Locks(s, cat)
           /\ s.kind = "DROP INDEX" =>
                /\ Ex(s.index) \in Locks(s, cat)
                /\ \A i \in NamedIndexes(cat, s.index) : Ex(i.table) \in Locks(s, cat)
           /\ s.kind = "ADD PRIMARY KEY" => Ex(<<Schema(s.table), s.name>>) \in Locks(s, cat)
           /\ s.kind = "DROP CONSTRAINT" =>
                /\ \A k \in NamedForeign(cat, s) : Ex(k.ref) \in Locks(s, cat)
                /\ \A i \in NamedPrimary(cat, s) :
                      Ex(<<Schema(i.table), i.name>>) \in Locks(s, cat)
           /\ s.kind = "ADD FOREIGN KEY" => Ex(s.ref) \in Locks(s, cat)
           /\ s.kind = "DROP COLUMN" =>
                /\ \A k \in cat.fks :
                      k.table = s.table /\ Uses(k, s.name) => Ex(k.ref) \in Locks(s, cat)
                /\ \A i \in cat.indexes :
                      i.table = s.table /\ Uses(i, s.name) =>
                        Ex(<<Schema(i.table), i.name>>) \in Locks(s, cat)
<1>1. \A rels : \A r \in rels : Ex(r) \in Exclusive(rels)
  BY DEF Exclusive, Ex
<1>2. s.kind \in {"ADD PRIMARY KEY"} => KeyName(s, cat) = s.name /\ s.name # Nil
  BY DEF Executed, AddsKey, KeyName
<1> QED BY <1>1, <1>2 DEF Locks, FirstLocks, OtherLocks, Sh, IndexNames, IndexesOf

(***************************************************************************)
(* A statement leaves alone what it has no lock on.                        *)
(***************************************************************************)
\* Columns of a table change only under an exclusive lock on it, in so far as
\* any lock shows them.
LEMMA ColumnsUndisturbed ==
    ASSUME NEW s \in Executed, NEW cat \in Catalog, NEW t, Ex(t) \notin Locks(s, cat)
    PROVE  /\ ColumnsWithin(t, cat, Effect(s, cat))
           /\ ColumnsWithin(t, Effect(s, cat), cat)
<1> DEFINE new == Effect(s, cat)
<1> s \in Statement
  BY DEF Executed
<1>1. CASE s.kind \in {"RENAME COLUMN", "TYPE", "NULLABILITY", "DEFAULT"}
  <2>1. s.table # t /\ new.columns = {Altered(c, s) : c \in cat.columns}
    BY <1>1, EffectParts, LocksTaken
  <2>2. \A c \in cat.columns : Altered(c, s).table = t \/ c.table = t => Altered(c, s) = c
    BY <1>1, <2>1 DEF Altered, Catalog, Column
  <2> QED BY <2>1, <2>2 DEF ColumnsWithin
<1>2. CASE s.kind = "ADD COLUMN"
  <2>1. s.table # t /\ new.columns = cat.columns \cup {NewColumn(cat, s)}
    BY <1>2, EffectParts, LocksTaken
  <2>2. NewColumn(cat, s).table = s.table
    BY DEF NewColumn
  <2> QED BY <2>1, <2>2 DEF ColumnsWithin
<1>3. CASE s.kind = "DROP COLUMN"
  <2>1. s.table # t /\ new.columns = {c \in cat.columns : c.table # s.table \/ c.name # s.name}
    BY <1>3, EffectParts, LocksTaken
  <2> QED BY <2>1 DEF ColumnsWithin
<1>4. CASE s.kind = "ADD PRIMARY KEY"
  <2>1. new.columns = {KeyColumn(c, s) : c \in cat.columns}
    BY <1>4, EffectParts
  <2>2. \A c \in cat.columns : /\ KeyColumn(c, s).table = c.table /\ KeyColumn(c, s).name = c.name
                              /\ KeyColumn(c, s).identity = c.identity
    BY DEF KeyColumn, Catalog, Column
  <2> QED BY <2>1, <2>2 DEF ColumnsWithin
<1>5. CASE s.kind \in {"CREATE INDEX", "DROP INDEX", "DROP CONSTRAINT", "ADD FOREIGN KEY"}
  <2>1. new.columns = cat.columns
    BY <1>5, EffectParts
  <2> QED BY <2>1 DEF ColumnsWithin
<1> QED BY <1>1, <1>2, <1>3, <1>4, <1>5 DEF Statement

\* What happens to a catalog's keys when a column is renamed.
LEMMA RenamedParts ==
    ASSUME NEW s \in Executed, NEW cat \in Catalog, s.kind = "RENAME COLUMN"
    PROVE  /\ \A i \in cat.indexes :
                /\ RenamedIn(i, s).table = i.table /\ RenamedIn(i, s).name = i.name
                /\ RenamedIn(i, s).primary = i.primary
                /\ i.table # s.table => RenamedIn(i, s) = i
           /\ \A k \in cat.fks :
                LET new == RenamedRef(RenamedIn(k, s), s) IN
                /\ new.table = k.table /\ new.name = k.name /\ new.ref = k.ref
                /\ new.index = k.index
                /\ new.columns = IF k.table = s.table THEN Renamed(k.columns, s) ELSE k.columns
<1>1. \A i \in Index :
        /\ RenamedIn(i, s).table = i.table /\ RenamedIn(i, s).name = i.name
        /\ RenamedIn(i, s).primary = i.primary
        /\ i.table # s.table => RenamedIn(i, s) = i
  BY DEF RenamedIn, Index
<1>2. \A k \in ForeignKey :
        /\ RenamedIn(k, s) \in [table : {k.table}, name : {k.name}, columns : {RenamedIn(k, s).columns},
                                ref : {k.ref}, refColumns : {k.refColumns}, index : {k.index}]
        /\ RenamedIn(k, s).columns = IF k.table = s.table THEN Renamed(k.columns, s) ELSE k.columns
  BY DEF RenamedIn, ForeignKey
<1>3. \A k \in ForeignKey :
        LET new == RenamedRef(RenamedIn(k, s), s) IN
        /\ new.table = k.table /\ new.name = k.name /\ new.ref = k.ref
        /\ new.index = k.index /\ new.columns = RenamedIn(k, s).columns
  BY <1>2 DEF RenamedRef
<1>4. cat.indexes \subseteq Index /\ cat.fks \subseteq ForeignKey
  BY DEF Catalog
<1>5. \A k \in ForeignKey :
        LET new == RenamedRef(RenamedIn(k, s), s) IN
        new.columns = IF k.table = s.table THEN Renamed(k.columns, s) ELSE k.columns
  BY <1>2, <1>3
<1> QED BY <1>1, <1>3, <1>4, <1>5

\* What a relation without a lock is to a statement.
LEMMA Unlocked ==
    ASSUME NEW s \in Executed, NEW cat \in Catalog, NEW t,
           Ex(t) \notin Locks(s, cat), Sh(t) \notin Locks(s, cat)
    PROVE  /\ s.kind # "DROP INDEX" => s.table # t
           /\ s.kind \in {"CREATE INDEX", "ADD PRIMARY KEY"} => <<Schema(s.table), s.name>> # t
           /\ s.kind = "DROP INDEX" =>
                s.index # t /\ \A i \in NamedIndexes(cat, s.index) : i.table # t
           /\ s.kind = "ADD FOREIGN KEY" => s.ref # t
           /\ s.kind = "DROP CONSTRAINT" =>
                /\ \A k \in NamedForeign(cat, s) : k.ref # t
                /\ \A i \in NamedPrimary(cat, s) : <<Schema(i.table), i.name>> # t
           /\ s.kind = "DROP COLUMN" =>
                /\ \A k \in cat.fks : k.table = s.table /\ Uses(k, s.name) => k.ref # t
                /\ \A i \in cat.indexes : i.table = s.table /\ Uses(i, s.name) =>
                      <<Schema(i.table), i.name>> # t
BY LocksTaken

\* The indexes of a table change only under a lock on it, and the index behind
\* a relation's name only under a lock on that name.
LEMMA IndexesUndisturbed ==
    ASSUME NEW s \in Executed, NEW cat \in Catalog, NEW t,
           Ex(t) \notin Locks(s, cat), Sh(t) \notin Locks(s, cat)
    PROVE  /\ IndexesWithin(t, cat, Effect(s, cat)) /\ IndexesWithin(t, Effect(s, cat), cat)
           /\ NameWithin(t, cat, Effect(s, cat)) /\ NameWithin(t, Effect(s, cat), cat)
<1> DEFINE new == Effect(s, cat)
<1> s \in Statement
  BY DEF Executed
<1>1. CASE s.kind = "RENAME COLUMN"
  <2> DEFINE ren(i) == RenamedIn(i, s)
  <2>1. new.indexes = {ren(i) : i \in cat.indexes}
    BY <1>1, EffectParts
  <2>2. \A i \in cat.indexes :
          /\ ren(i).table = i.table /\ ren(i).name = i.name /\ ren(i).primary = i.primary
          /\ i.table = t => ren(i) = i
    <3>1. s.table # t
      BY <1>1, Unlocked
    <3> QED BY <1>1, <3>1, RenamedParts
  <2> HIDE DEF ren
  <2>3. IndexesWithin(t, cat, new) /\ IndexesWithin(t, new, cat)
    BY <2>1, <2>2 DEF IndexesWithin
  <2>4. NameWithin(t, cat, new) /\ NameWithin(t, new, cat)
    BY <2>1, <2>2 DEF NameWithin, NamedIndexes
  <2> QED BY <2>3, <2>4
<1>2. CASE s.kind = "DROP COLUMN"
  <2>1. new.indexes = {i \in cat.indexes : i.table # s.table \/ ~ Uses(i, s.name)}
    BY <1>2, EffectParts
  <2>2. /\ s.table # t
        /\ \A i \in cat.indexes : i.table = s.table /\ Uses(i, s.name) =>
             <<Schema(i.table), i.name>> # t
    BY <1>2, Unlocked
  <2> QED BY <2>1, <2>2 DEF IndexesWithin, NameWithin, NamedIndexes
<1>3. CASE s.kind \in {"CREATE INDEX", "ADD PRIMARY KEY"}
  <2>1. PICK added : /\ new.indexes = cat.indexes \cup {added}
                     /\ added.table = s.table /\ added.name = s.name
    <3> DEFINE added(unique, primary) ==
          [table |-> s.table, name |-> s.name, columns |-> s.columns,
           unique |-> unique, primary |-> primary]
    <3>1. \A u, p : added(u, p).table = s.table /\ added(u, p).name = s.name
      OBVIOUS
    <3>2. s.kind = "CREATE INDEX" => new.indexes = cat.indexes \cup {added(s.unique, FALSE)}
      BY EffectParts
    <3>3. s.kind = "ADD PRIMARY KEY" => new.indexes = cat.indexes \cup {added(TRUE, TRUE)}
      BY EffectParts
    <3> HIDE DEF added
    <3>4. \E u, p : new.indexes = cat.indexes \cup {added(u, p)}
      BY <1>3, <3>2, <3>3, Zenon
    <3>5. PICK u, p : new.indexes = cat.indexes \cup {added(u, p)}
      BY <3>4
    <3>6. added(u, p).table = s.table /\ added(u, p).name = s.name
      BY <3>1
    <3> QED BY <3>5, <3>6, Zenon
  <2>2. s.table # t /\ <<Schema(s.table), s.name>> # t
    BY <1>3, Unlocked
  <2> QED BY <2>1, <2>2 DEF IndexesWithin, NameWithin, NamedIndexes
<1>4. CASE s.kind = "DROP INDEX"
  <2>1. new.indexes = cat.indexes \ NamedIndexes(cat, s.index)
    BY <1>4, EffectParts
  <2>2. s.index # t /\ \A i \in NamedIndexes(cat, s.index) : i.table # t
    BY <1>4, Unlocked
  <2>3. IndexesWithin(t, cat, new) /\ IndexesWithin(t, new, cat)
    BY <2>1, <2>2 DEF IndexesWithin
  <2>4. NameWithin(t, cat, new) /\ NameWithin(t, new, cat)
    BY <2>1, <2>2 DEF NameWithin, NamedIndexes
  <2> QED BY <2>3, <2>4
<1>5. CASE s.kind = "DROP CONSTRAINT"
  <2>1. new.indexes = cat.indexes \ NamedPrimary(cat, s)
    BY <1>5, EffectParts
  <2>2. s.table # t /\ \A i \in NamedPrimary(cat, s) : <<Schema(i.table), i.name>> # t
    BY <1>5, Unlocked
  <2>3. \A i \in NamedPrimary(cat, s) : i.table = s.table
    BY DEF NamedPrimary
  <2> QED BY <2>1, <2>2, <2>3 DEF IndexesWithin, NameWithin, NamedIndexes
<1>6. CASE s.kind \in {"TYPE", "NULLABILITY", "DEFAULT", "ADD COLUMN", "ADD FOREIGN KEY"}
  <2>1. new.indexes = cat.indexes
    BY <1>6, PartsKept, Zenon
  <2> QED BY <2>1 DEF IndexesWithin, NameWithin, NamedIndexes
<1> QED BY <1>1, <1>2, <1>3, <1>4, <1>5, <1>6 DEF Statement

\* The foreign keys from and to a table change only under a lock on it.
LEMMA KeysUndisturbed ==
    ASSUME NEW s \in Executed, NEW cat \in Catalog, NEW t,
           Ex(t) \notin Locks(s, cat), Sh(t) \notin Locks(s, cat)
    PROVE  /\ KeysFromWithin(t, cat, Effect(s, cat)) /\ KeysFromWithin(t, Effect(s, cat), cat)
           /\ KeysToWithin(t, cat, Effect(s, cat)) /\ KeysToWithin(t, Effect(s, cat), cat)
<1> DEFINE new == Effect(s, cat)
<1> s \in Statement
  BY DEF Executed
<1>1. CASE s.kind = "RENAME COLUMN"
  <2> DEFINE ren(k) == RenamedRef(RenamedIn(k, s), s)
  <2>1. new.fks = {ren(k) : k \in cat.fks}
    BY <1>1, EffectParts
  <2>2. s.table # t
    BY <1>1, Unlocked
  <2>3. \A k \in cat.fks :
          /\ ren(k).table = k.table /\ ren(k).name = k.name /\ ren(k).ref = k.ref
          /\ ren(k).index = k.index
          /\ k.table = t => ren(k).columns = k.columns
    BY <1>1, <2>2, RenamedParts
  <2> HIDE DEF ren
  <2>4. KeysFromWithin(t, cat, new) /\ KeysFromWithin(t, new, cat)
    BY <2>1, <2>3 DEF KeysFromWithin
  <2>5. KeysToWithin(t, cat, new) /\ KeysToWithin(t, new, cat)
    BY <2>1, <2>3 DEF KeysToWithin
  <2> QED BY <2>4, <2>5
<1>2. CASE s.kind = "DROP COLUMN"
  <2>1. new.fks = {k \in cat.fks : k.table # s.table \/ ~ Uses(k, s.name)}
    BY <1>2, EffectParts
  <2>2. s.table # t /\ \A k \in cat.fks : k.table = s.table /\ Uses(k, s.name) => k.ref # t
    BY <1>2, Unlocked
  <2> QED BY <2>1, <2>2 DEF KeysFromWithin, KeysToWithin
<1>3. CASE s.kind = "DROP CONSTRAINT"
  <2>1. new.fks = cat.fks \ NamedForeign(cat, s)
    BY <1>3, EffectParts
  <2>2. s.table # t /\ \A k \in NamedForeign(cat, s) : k.ref # t /\ k.table = s.table
    BY <1>3, Unlocked DEF NamedForeign
  <2> QED BY <2>1, <2>2 DEF KeysFromWithin, KeysToWithin
<1>4. CASE s.kind = "ADD FOREIGN KEY"
  <2> DEFINE key(i) ==
        [table |-> s.table, name |-> s.name, columns |-> s.columns, ref |-> s.ref,
         refColumns |-> s.refColumns, index |-> i.name]
  <2>1. new.fks = cat.fks \cup {key(i) : i \in Support(cat, s)}
    BY <1>4, EffectParts
  <2>2. \A i : key(i).table # t /\ key(i).ref # t
    BY <1>4, Unlocked
  <2> HIDE DEF key
  <2> QED BY <2>1, <2>2 DEF KeysFromWithin, KeysToWithin
<1>5. CASE s.kind \in {"TYPE", "NULLABILITY", "DEFAULT", "ADD COLUMN", "CREATE INDEX",
                       "ADD PRIMARY KEY", "DROP INDEX"}
  <2>1. new.fks = cat.fks
    BY <1>5, PartsKept, Zenon
  <2> QED BY <2>1 DEF KeysFromWithin, KeysToWithin
<1> QED BY <1>1, <1>2, <1>3, <1>4, <1>5 DEF Statement

\* A statement leaves alone all that other transactions' locks show.
LEMMA Undisturbed ==
    ASSUME NEW s \in Executed, NEW cat \in Catalog, NEW locks \in SUBSET Lock,
           \A l \in locks, m \in Locks(s, cat) : ~ Conflict(l, m)
    PROVE  Same(locks, cat, Effect(s, cat))
<1>1. ASSUME NEW l \in locks
      PROVE  Within(l, cat, Effect(s, cat)) /\ Within(l, Effect(s, cat), cat)
  <2> DEFINE t == l.rel
  <2>1. Ex(t) \notin Locks(s, cat) /\ (~ l.shared => Sh(t) \notin Locks(s, cat))
    BY DEF Conflict, Ex, Sh
  <2> HIDE DEF t
  <2>2. /\ ColumnsWithin(t, cat, Effect(s, cat))
        /\ ColumnsWithin(t, Effect(s, cat), cat)
    BY <2>1, ColumnsUndisturbed
  <2>3. ASSUME ~ l.shared
        PROVE  /\ IndexesWithin(t, cat, Effect(s, cat)) /\ IndexesWithin(t, Effect(s, cat), cat)
               /\ NameWithin(t, cat, Effect(s, cat)) /\ NameWithin(t, Effect(s, cat), cat)
               /\ KeysFromWithin(t, cat, Effect(s, cat)) /\ KeysFromWithin(t, Effect(s, cat), cat)
               /\ KeysToWithin(t, cat, Effect(s, cat)) /\ KeysToWithin(t, Effect(s, cat), cat)
    BY <2>1, <2>3, IndexesUndisturbed, KeysUndisturbed
  <2> QED BY <2>2, <2>3 DEF Within, t
<1> QED BY <1>1 DEF Same

(***************************************************************************)
(* On catalogs that look alike a statement does alike.                     *)
(***************************************************************************)
Alike(t, a, b) ==
    /\ ColumnsWithin(t, a, b) /\ ColumnsWithin(t, b, a)
    /\ IndexesWithin(t, a, b) /\ IndexesWithin(t, b, a)
    /\ KeysFromWithin(t, a, b) /\ KeysFromWithin(t, b, a)
    /\ KeysToWithin(t, a, b) /\ KeysToWithin(t, b, a)
    /\ NameWithin(t, a, b) /\ NameWithin(t, b, a)

\* What shows of a table's columns decides which names they have.
LEMMA ColumnsAlike ==
    ASSUME NEW t, NEW a, NEW b, ColumnsWithin(t, a, b), ColumnsWithin(t, b, a)
    PROVE  /\ \A n : HasColumn(a, t, n) <=> HasColumn(b, t, n)
           /\ \A n : IsIdentity(a, t, n) <=> IsIdentity(b, t, n)
           /\ \A names : HasColumns(a, t, names) <=> HasColumns(b, t, names)
<1>1. \A n : HasColumn(a, t, n) <=> HasColumn(b, t, n)
  BY DEF ColumnsWithin, HasColumn
<1>2. \A n : IsIdentity(a, t, n) <=> IsIdentity(b, t, n)
  BY DEF ColumnsWithin, IsIdentity
<1> QED BY <1>1, <1>2 DEF HasColumns

\* What shows of a table decides about its indexes and the keys that need them.
LEMMA IndexesAlike ==
    ASSUME NEW t, NEW a, NEW b, IndexesWithin(t, a, b), IndexesWithin(t, b, a)
    PROVE  /\ IndexesOf(a, t) = IndexesOf(b, t)
           /\ \A n : InPrimaryKey(a, t, n) <=> InPrimaryKey(b, t, n)
           /\ \A s : s.table = t => NamedPrimary(a, s) = NamedPrimary(b, s)
           /\ \A s : s.ref = t => Support(a, s) = Support(b, s)
<1>1. IndexesOf(a, t) = IndexesOf(b, t)
  BY DEF IndexesWithin, IndexesOf
<1>2. \A s : s.table = t => NamedPrimary(a, s) = NamedPrimary(b, s)
  BY DEF IndexesWithin, NamedPrimary
<1>3. \A s : s.ref = t => Supporting(a, s) = Supporting(b, s)
  BY DEF IndexesWithin, Supporting
<1>4. ASSUME NEW s, s.ref = t PROVE Support(a, s) = Support(b, s)
  <2> DEFINE taken(able) ==
        {i \in able : i = CHOOSE j \in able : j.primary \/ \A k \in able : ~ k.primary}
  <2>1. Support(a, s) = taken(Supporting(a, s)) /\ Support(b, s) = taken(Supporting(b, s))
    BY Zenon DEF Support
  <2> HIDE DEF taken
  <2> QED BY <1>3, <1>4, <2>1
<1> QED BY <1>1, <1>2, <1>4 DEF InPrimaryKey

\* So it does about the keys to and from the table, ...
LEMMA KeysAlike ==
    ASSUME NEW t, NEW a, NEW b
    PROVE  /\ KeysToWithin(t, a, b) /\ KeysToWithin(t, b, a) =>
                \A i : i.table = t => (DependedOn(a, i) <=> DependedOn(b, i))
           /\ KeysFromWithin(t, a, b) /\ KeysFromWithin(t, b, a) =>
                \A s : s.table = t =>
                    {k.ref : k \in NamedForeign(a, s)} = {k.ref : k \in NamedForeign(b, s)}
<1>1. KeysToWithin(t, a, b) /\ KeysToWithin(t, b, a) =>
        \A i : i.table = t => (DependedOn(a, i) <=> DependedOn(b, i))
  BY DEF KeysToWithin, DependedOn
<1>2. ASSUME KeysFromWithin(t, a, b), KeysFromWithin(t, b, a), NEW s, s.table = t
      PROVE  {k.ref : k \in NamedForeign(a, s)} = {k.ref : k \in NamedForeign(b, s)}
  BY <1>2 DEF KeysFromWithin, NamedForeign
<1> QED BY <1>1, <1>2

\* ... and about which table's index has a name.
LEMMA NamesAlike ==
    ASSUME NEW rel, NEW a, NEW b, NameWithin(rel, a, b), NameWithin(rel, b, a)
    PROVE  /\ {i.table : i \in NamedIndexes(a, rel)} = {i.table : i \in NamedIndexes(b, rel)}
           /\ \A schema, name : rel = <<schema, name>> =>
                (RelationTaken(a, schema, name) <=> RelationTaken(b, schema, name))
<1>1. {i.table : i \in NamedIndexes(a, rel)} = {i.table : i \in NamedIndexes(b, rel)}
  BY DEF NameWithin
<1>2. \A cat, schema, name : rel = <<schema, name>> =>
        (RelationTaken(cat, schema, name) <=> rel \in Tables \/ NamedIndexes(cat, rel) # {})
  BY DEF RelationTaken, NamedIndexes
<1>3. NamedIndexes(a, rel) # {} <=> NamedIndexes(b, rel) # {}
  BY DEF NameWithin
<1> QED BY <1>1, <1>2, <1>3

\* The locks that a statement holds show it all it looks at.
LEMMA LocksShow ==
    ASSUME NEW s \in Executed, NEW a \in Catalog, NEW b \in Catalog, NEW locks,
           Same(locks, a, b), Locks(s, a) \subseteq locks
    PROVE  /\ s.kind \notin {"CREATE INDEX", "DROP INDEX"} => Alike(s.table, a, b)
           /\ s.kind = "CREATE INDEX" =>
                /\ ColumnsWithin(s.table, a, b) /\ ColumnsWithin(s.table, b, a)
                /\ Alike(<<Schema(s.table), s.name>>, a, b)
           /\ s.kind = "DROP INDEX" =>
                /\ Alike(s.index, a, b)
                /\ \A i \in NamedIndexes(a, s.index) : Alike(i.table, a, b)
           /\ s.kind = "ADD PRIMARY KEY" => Alike(<<Schema(s.table), s.name>>, a, b)
           /\ s.kind = "ADD FOREIGN KEY" => Alike(s.ref, a, b)
<1>1. \A t : Ex(t) \in locks => Alike(t, a, b)
  BY DEF Same, Within, Ex, Alike
<1>2. \A t : Sh(t) \in locks => ColumnsWithin(t, a, b) /\ ColumnsWithin(t, b, a)
  BY DEF Same, Within, Sh
<1> QED BY <1>1, <1>2, LocksTaken

\* A statement that is legal under its locks is legal wherever they show the
\* same.
LEMMA LegalAlike ==
    ASSUME NEW s \in Executed, NEW a \in Catalog, NEW b \in Catalog, NEW locks,
           Same(locks, a, b), Locks(s, a) \subseteq locks, Legal(s, a)
    PROVE  Legal(s, b)
<1> DEFINE T == s.table
<1> s \in Statement
  BY DEF Executed
<1>1. CASE s.kind \in {"RENAME COLUMN", "TYPE", "DEFAULT", "ADD COLUMN"}
  <2>1. ColumnsWithin(T, a, b) /\ ColumnsWithin(T, b, a)
    BY <1>1, LocksShow DEF Alike
  <2>2. \A n : /\ HasColumn(a, T, n) <=> HasColumn(b, T, n)
               /\ IsIdentity(a, T, n) <=> IsIdentity(b, T, n)
    BY <2>1, ColumnsAlike
  <2> QED BY <1>1, <2>2 DEF Legal
<1>2. CASE s.kind = "NULLABILITY"
  <2>1. Alike(T, a, b)
    BY <1>2, LocksShow
  <2>2. \A n : /\ HasColumn(a, T, n) <=> HasColumn(b, T, n)
               /\ IsIdentity(a, T, n) <=> IsIdentity(b, T, n)
    BY <2>1, ColumnsAlike DEF Alike
  <2>3. \A n : InPrimaryKey(a, T, n) <=> InPrimaryKey(b, T, n)
    BY <2>1, IndexesAlike DEF Alike
  <2> QED BY <1>2, <2>2, <2>3 DEF Legal
<1>3. CASE s.kind = "DROP COLUMN"
  <2>1. Alike(T, a, b)
    BY <1>3, LocksShow
  <2>2. \A n : HasColumn(a, T, n) <=> HasColumn(b, T, n)
    BY <2>1, ColumnsAlike DEF Alike
  <2>3. IndexesOf(a, T) = IndexesOf(b, T)
    BY <2>1, IndexesAlike DEF Alike
  <2>4. \A i : i.table = T => (DependedOn(a, i) <=> DependedOn(b, i))
    BY <2>1, KeysAlike DEF Alike
  <2>5. \A i \in IndexesOf(a, T) : i.table = T
    BY DEF IndexesOf
  <2> QED BY <1>3, <2>2, <2>3, <2>4, <2>5 DEF Legal
<1>4. CASE s.kind = "CREATE INDEX"
  <2>1. /\ ColumnsWithin(T, a, b) /\ ColumnsWithin(T, b, a)
        /\ Alike(<<Schema(T), s.name>>, a, b)
    BY <1>4, LocksShow
  <2>2. HasColumns(a, T, s.columns) <=> HasColumns(b, T, s.columns)
    BY <2>1, ColumnsAlike
  <2>3. RelationTaken(a, Schema(T), s.name) <=> RelationTaken(b, Schema(T), s.name)
    BY <2>1, NamesAlike DEF Alike
  <2> QED BY <1>4, <2>2, <2>3 DEF Legal
<1>5. CASE s.kind = "ADD PRIMARY KEY"
  <2>1. Alike(T, a, b) /\ Alike(<<Schema(T), s.name>>, a, b)
    BY <1>5, LocksShow
  <2>2. HasColumns(a, T, s.columns) <=> HasColumns(b, T, s.columns)
    BY <2>1, ColumnsAlike DEF Alike
  <2>3. RelationTaken(a, Schema(T), s.name) <=> RelationTaken(b, Schema(T), s.name)
    BY <2>1, NamesAlike DEF Alike
  <2>4. IndexesOf(a, T) = IndexesOf(b, T)
    BY <2>1, IndexesAlike DEF Alike
  <2>5. KeyName(s, a) = KeyName(s, b)
    BY <1>5 DEF KeyName, Executed, AddsKey
  <2> QED BY <1>5, <2>2, <2>3, <2>4, <2>5 DEF Legal
<1>6. CASE s.kind = "DROP INDEX"
  <2>1. /\ Alike(s.index, a, b)
        /\ \A i \in NamedIndexes(a, s.index) : Alike(i.table, a, b)
    BY <1>6, LocksShow
  <2>2. PICK i \in NamedIndexes(a, s.index) : ~ i.primary /\ ~ DependedOn(a, i)
    BY <1>6 DEF Legal
  <2>3. PICK j \in NamedIndexes(b, s.index) : j.table = i.table /\ j.primary = i.primary
    BY <2>1 DEF Alike, NameWithin
  <2>4. <<Schema(i.table), i.name>> = s.index /\ <<Schema(j.table), j.name>> = s.index
    BY DEF NamedIndexes
  <2>5. j.name = i.name
    BY <2>4
  <2>6. DependedOn(b, j) <=> DependedOn(a, i)
    <3>1. DependedOn(b, j) <=> DependedOn(b, i)
      BY <2>3, <2>5 DEF DependedOn
    <3>2. DependedOn(a, i) <=> DependedOn(b, i)
      BY <2>1, KeysAlike DEF Alike
    <3> QED BY <3>1, <3>2
  <2> QED BY <1>6, <2>2, <2>3, <2>6 DEF Legal
<1>7. CASE s.kind = "DROP CONSTRAINT"
  <2>1. Alike(T, a, b)
    BY <1>7, LocksShow
  <2>2. {k.ref : k \in NamedForeign(a, s)} = {k.ref : k \in NamedForeign(b, s)}
    BY <2>1, KeysAlike DEF Alike
  <2>3. NamedForeign(a, s) # {} <=> NamedForeign(b, s) # {}
    BY <2>2
  <2>4. NamedPrimary(a, s) = NamedPrimary(b, s)
    BY <2>1, IndexesAlike DEF Alike
  <2>5. \A i \in NamedPrimary(a, s) : DependedOn(a, i) <=> DependedOn(b, i)
    BY <2>1, KeysAlike DEF Alike, NamedPrimary
  <2> QED BY <1>7, <2>3, <2>4, <2>5 DEF Legal
<1>8. CASE s.kind = "ADD FOREIGN KEY"
  <2>1. Alike(T, a, b) /\ Alike(s.ref, a, b)
    BY <1>8, LocksShow
  <2>2. HasColumns(a, T, s.columns) <=> HasColumns(b, T, s.columns)
    BY <2>1, ColumnsAlike DEF Alike
  <2>3. Support(a, s) = Support(b, s)
    BY <2>1, IndexesAlike DEF Alike
  <2>4. NamedPrimary(a, s) = NamedPrimary(b, s)
    BY <2>1, IndexesAlike DEF Alike
  <2>5. {k.ref : k \in NamedForeign(a, s)} = {k.ref : k \in NamedForeign(b, s)}
    BY <2>1, KeysAlike DEF Alike
  <2>6. NamedForeign(a, s) = {} <=> NamedForeign(b, s) = {}
    BY <2>5
  <2>7. KeyName(s, a) = KeyName(s, b)
    BY <1>8 DEF KeyName, Executed, AddsKey
  <2> QED BY <1>8, <2>2, <2>3, <2>4, <2>6, <2>7 DEF Legal
<1> QED BY <1>1, <1>2, <1>3, <1>4, <1>5, <1>6, <1>7, <1>8 DEF Statement

\* It takes the same locks there.
LEMMA LocksAlike ==
    ASSUME NEW s \in Executed, NEW a \in Catalog, NEW b \in Catalog, NEW locks,
           Same(locks, a, b), Locks(s, a) \subseteq locks
    PROVE  Locks(s, b) = Locks(s, a)
<1> DEFINE T == s.table
<1> s \in Statement
  BY DEF Executed
<1>1. CASE s.kind \in {"RENAME COLUMN", "TYPE", "NULLABILITY", "DEFAULT", "ADD COLUMN",
                       "CREATE INDEX", "ADD FOREIGN KEY"}
  BY <1>1 DEF Locks, FirstLocks, OtherLocks
<1>2. CASE s.kind = "ADD PRIMARY KEY"
  <2>1. KeyName(s, a) = KeyName(s, b)
    BY <1>2 DEF KeyName, Executed, AddsKey
  <2> QED BY <1>2, <2>1 DEF Locks, FirstLocks, OtherLocks
<1>3. CASE s.kind = "DROP INDEX"
  <2>1. {i.table : i \in NamedIndexes(a, s.index)} = {i.table : i \in NamedIndexes(b, s.index)}
    BY <1>3, LocksShow, NamesAlike DEF Alike
  <2> QED BY <1>3, <2>1 DEF Locks, FirstLocks, OtherLocks
<1>4. CASE s.kind = "DROP CONSTRAINT"
  <2>1. Alike(T, a, b)
    BY <1>4, LocksShow
  <2>2. {k.ref : k \in NamedForeign(a, s)} = {k.ref : k \in NamedForeign(b, s)}
    BY <2>1, KeysAlike DEF Alike
  <2>3. NamedPrimary(a, s) = NamedPrimary(b, s)
    BY <2>1, IndexesAlike DEF Alike
  <2> QED BY <1>4, <2>2, <2>3 DEF Locks, FirstLocks, OtherLocks
<1>5. CASE s.kind = "DROP COLUMN"
  <2>1. Alike(T, a, b)
    BY <1>5, LocksShow
  <2> DEFINE using(cat) == {k \in cat.fks : k.table = T /\ Uses(k, s.name)}
  <2>2. {k.ref : k \in using(a)} = {k.ref : k \in using(b)}
    BY <2>1 DEF Alike, KeysFromWithin, Uses
  <2>3. IndexesOf(a, T) = IndexesOf(b, T)
    BY <2>1, IndexesAlike DEF Alike
  <2> QED BY <1>5, <2>2, <2>3 DEF Locks, FirstLocks, OtherLocks
<1> QED BY <1>1, <1>2, <1>3, <1>4, <1>5 DEF Statement

\* What it makes of a table's columns shows the same there.
LEMMA ColumnsAfter ==
    ASSUME NEW s \in Executed, NEW a \in Catalog, NEW b \in Catalog, NEW t,
           ColumnsWithin(t, a, b)
    PROVE  ColumnsWithin(t, Effect(s, a), Effect(s, b))
<1> DEFINE A == Effect(s, a)
           B == Effect(s, b)
<1> s \in Statement
  BY DEF Executed
<1>1. CASE s.kind \in {"RENAME COLUMN", "TYPE", "NULLABILITY", "DEFAULT"}
  <2> DEFINE alt(c) == Altered(c, s)
             to(c) == IF s.kind = "RENAME COLUMN" /\ c.table = s.table /\ c.name = s.name
                      THEN s.to ELSE c.name
  <2>1. A.columns = {alt(c) : c \in a.columns} /\ B.columns = {alt(c) : c \in b.columns}
    <3>1. CASE s.kind = "RENAME COLUMN"
      BY <3>1, EffectParts
    <3>2. CASE s.kind \in {"TYPE", "NULLABILITY", "DEFAULT"}
      BY <3>2, EffectParts
    <3> QED BY <1>1, <3>1, <3>2
  <2>2. \A c \in Column : alt(c).table = c.table /\ alt(c).identity = c.identity /\ alt(c).name = to(c)
    BY <1>1 DEF Altered, Column
  <2>3. a.columns \subseteq Column /\ b.columns \subseteq Column
    BY DEF Catalog
  <2>4. \A c, d : c.table = d.table /\ c.name = d.name => to(c) = to(d)
    OBVIOUS
  <2> HIDE DEF alt, to
  <2> QED BY <2>1, <2>2, <2>3, <2>4 DEF ColumnsWithin
<1>2. CASE s.kind = "ADD COLUMN"
  <2>1. A.columns = a.columns \cup {NewColumn(a, s)} /\ B.columns = b.columns \cup {NewColumn(b, s)}
    BY <1>2, EffectParts
  <2>2. /\ NewColumn(a, s).table = NewColumn(b, s).table
        /\ NewColumn(a, s).name = NewColumn(b, s).name
        /\ NewColumn(a, s).identity = NewColumn(b, s).identity
    BY DEF NewColumn
  <2> QED BY <2>1, <2>2 DEF ColumnsWithin
<1>3. CASE s.kind = "DROP COLUMN"
  <2>1. /\ A.columns = {c \in a.columns : c.table # s.table \/ c.name # s.name}
        /\ B.columns = {c \in b.columns : c.table # s.table \/ c.name # s.name}
    BY <1>3, EffectParts
  <2> QED BY <2>1 DEF ColumnsWithin
<1>4. CASE s.kind = "ADD PRIMARY KEY"
  <2> DEFINE key(c) == KeyColumn(c, s)
  <2>1. A.columns = {key(c) : c \in a.columns} /\ B.columns = {key(c) : c \in b.columns}
    BY <1>4, EffectParts
  <2>2. \A c \in Column : /\ key(c).table = c.table /\ key(c).name = c.name
                          /\ key(c).identity = c.identity
    BY DEF KeyColumn, Column
  <2>3. a.columns \subseteq Column /\ b.columns \subseteq Column
    BY DEF Catalog
  <2> HIDE DEF key
  <2> QED BY <2>1, <2>2, <2>3 DEF ColumnsWithin
<1>5. CASE s.kind \in {"CREATE INDEX", "DROP INDEX", "DROP CONSTRAINT", "ADD FOREIGN KEY"}
  <2>1. A.columns = a.columns /\ B.columns = b.columns
    BY <1>5, EffectParts
  <2> QED BY <2>1 DEF ColumnsWithin
<1> QED BY <1>1, <1>2, <1>3, <1>4, <1>5 DEF Statement

\* What it adds or takes away as an index is the same, too.
LEMMA IndexesAfter ==
    ASSUME NEW s \in Executed, NEW a \in Catalog, NEW b \in Catalog, NEW t,
           s.kind = "DROP COLUMN" => IndexesWithin(s.table, a, b)
    PROVE  /\ IndexesWithin(t, a, b) => IndexesWithin(t, Effect(s, a), Effect(s, b))
           /\ NameWithin(t, a, b) => NameWithin(t, Effect(s, a), Effect(s, b))
<1> DEFINE A == Effect(s, a)
           B == Effect(s, b)
<1> s \in Statement
  BY DEF Executed
<1>1. CASE s.kind = "RENAME COLUMN"
  <2> DEFINE ren(i) == RenamedIn(i, s)
  <2>1. A.indexes = {ren(i) : i \in a.indexes} /\ B.indexes = {ren(i) : i \in b.indexes}
    BY <1>1, EffectParts
  <2> DEFINE kept(i) == ren(i).table = i.table /\ ren(i).name = i.name /\ ren(i).primary = i.primary
  <2>2. (\A i \in a.indexes : kept(i)) /\ (\A i \in b.indexes : kept(i))
    <3>1. \A i \in a.indexes : kept(i)
      BY <1>1, RenamedParts, Zenon
    <3>2. \A i \in b.indexes : kept(i)
      BY <1>1, RenamedParts, Zenon
    <3> HIDE DEF kept
    <3> QED BY <3>1, <3>2
  <2> HIDE DEF ren
  <2>3. IndexesWithin(t, a, b) => IndexesWithin(t, A, B)
    BY <2>1, <2>2 DEF IndexesWithin
  <2>4. NameWithin(t, a, b) => NameWithin(t, A, B)
    <3> SUFFICES ASSUME NameWithin(t, a, b), NEW x \in NamedIndexes(A, t)
                 PROVE  \E j \in NamedIndexes(B, t) : j.table = x.table /\ j.primary = x.primary
      BY DEF NameWithin
    <3>1. PICK i \in a.indexes : x = ren(i)
      BY <2>1 DEF NamedIndexes
    <3>2. i \in NamedIndexes(a, t)
      BY <2>2, <3>1 DEF NamedIndexes
    <3>3. PICK j \in NamedIndexes(b, t) : j.table = i.table /\ j.primary = i.primary
      BY <3>2 DEF NameWithin
    <3>4. ren(j) \in NamedIndexes(B, t)
      BY <2>1, <2>2, <3>3 DEF NamedIndexes
    <3> QED BY <2>2, <3>1, <3>3, <3>4 DEF NamedIndexes
  <2> QED BY <2>3, <2>4
<1>2. CASE s.kind = "DROP COLUMN"
  <2>1. /\ A.indexes = {i \in a.indexes : i.table # s.table \/ ~ Uses(i, s.name)}
        /\ B.indexes = {i \in b.indexes : i.table # s.table \/ ~ Uses(i, s.name)}
    BY <1>2, EffectParts
  <2>2. IndexesWithin(t, a, b) => IndexesWithin(t, A, B)
    BY <2>1 DEF IndexesWithin
  <2>3. NameWithin(t, a, b) => NameWithin(t, A, B)
    BY <1>2, <2>1 DEF NameWithin, NamedIndexes, IndexesWithin
  <2> QED BY <2>2, <2>3
<1>3. CASE s.kind \in {"CREATE INDEX", "ADD PRIMARY KEY"}
  <2>1. \E added : A.indexes = a.indexes \cup {added} /\ B.indexes = b.indexes \cup {added}
    <3> DEFINE new(unique, primary) ==
          [table |-> s.table, name |-> s.name, columns |-> s.columns,
           unique |-> unique, primary |-> primary]
    <3>1. s.kind = "CREATE INDEX" =>
            /\ A.indexes = a.indexes \cup {new(s.unique, FALSE)}
            /\ B.indexes = b.indexes \cup {new(s.unique, FALSE)}
      BY EffectParts
    <3>2. s.kind = "ADD PRIMARY KEY" =>
            /\ A.indexes = a.indexes \cup {new(TRUE, TRUE)}
            /\ B.indexes = b.indexes \cup {new(TRUE, TRUE)}
      BY EffectParts
    <3> HIDE DEF new
    <3> QED BY <1>3, <3>1, <3>2, Zenon
  <2>2. PICK added : A.indexes = a.indexes \cup {added} /\ B.indexes = b.indexes \cup {added}
    BY <2>1
  <2>3. IndexesWithin(t, a, b) => IndexesWithin(t, A, B)
    BY <2>2 DEF IndexesWithin
  <2>4. NameWithin(t, a, b) => NameWithin(t, A, B)
    BY <2>2 DEF NameWithin, NamedIndexes
  <2> QED BY <2>3, <2>4
<1>4. CASE s.kind = "DROP INDEX"
  <2>1. /\ A.indexes = a.indexes \ NamedIndexes(a, s.index)
        /\ B.indexes = b.indexes \ NamedIndexes(b, s.index)
    BY <1>4, EffectParts
  <2>2. IndexesWithin(t, a, b) => IndexesWithin(t, A, B)
    BY <2>1 DEF IndexesWithin, NamedIndexes
  <2>3. NameWithin(t, a, b) => NameWithin(t, A, B)
    BY <2>1 DEF NameWithin, NamedIndexes
  <2> QED BY <2>2, <2>3
<1>5. CASE s.kind = "DROP CONSTRAINT"
  <2>1. /\ A.indexes = a.indexes \ NamedPrimary(a, s)
        /\ B.indexes = b.indexes \ NamedPrimary(b, s)
    BY <1>5, EffectParts
  <2>2. IndexesWithin(t, a, b) => IndexesWithin(t, A, B)
    BY <2>1 DEF IndexesWithin, NamedPrimary
  <2>3. NameWithin(t, a, b) => NameWithin(t, A, B)
    <3> SUFFICES ASSUME NameWithin(t, a, b), NEW i \in NamedIndexes(A, t)
                 PROVE  \E j \in NamedIndexes(B, t) : j.table = i.table /\ j.primary = i.primary
      BY DEF NameWithin
    <3>1. i \in a.indexes /\ i \notin NamedPrimary(a, s) /\ <<Schema(i.table), i.name>> = t
      BY <2>1 DEF NamedIndexes
    <3>2. PICK j \in NamedIndexes(b, t) : j.table = i.table /\ j.primary = i.primary
      BY <3>1 DEF NameWithin, NamedIndexes
    <3>3. j \in b.indexes /\ <<Schema(j.table), j.name>> = t /\ j.name = i.name
      BY <3>1, <3>2 DEF NamedIndexes
    <3>4. j \notin NamedPrimary(b, s)
      BY <3>1, <3>2, <3>3 DEF NamedPrimary
    <3> QED BY <2>1, <3>2, <3>3, <3>4 DEF NamedIndexes
  <2> QED BY <2>2, <2>3
<1>6. CASE s.kind \in {"TYPE", "NULLABILITY", "DEFAULT", "ADD COLUMN", "ADD FOREIGN KEY"}
  <2>1. A.indexes = a.indexes /\ B.indexes = b.indexes
    <3>1. CASE s.kind \in {"TYPE", "NULLABILITY", "DEFAULT"}
      BY <3>1, EffectParts
    <3>2. CASE s.kind \in {"ADD COLUMN", "ADD FOREIGN KEY"}
      BY <3>2, EffectParts
    <3> QED BY <1>6, <3>1, <3>2
  <2> QED BY <2>1 DEF IndexesWithin, NameWithin, NamedIndexes
<1> QED BY <1>1, <1>2, <1>3, <1>4, <1>5, <1>6 DEF Statement

\* And so are the foreign keys it adds or takes away.
LEMMA KeysAfter ==
    ASSUME NEW s \in Executed, NEW a \in Catalog, NEW b \in Catalog, NEW t,
           s.kind = "DROP COLUMN" => KeysFromWithin(s.table, a, b),
           s.kind = "ADD FOREIGN KEY" => Support(a, s) = Support(b, s)
    PROVE  /\ KeysFromWithin(t, a, b) => KeysFromWithin(t, Effect(s, a), Effect(s, b))
           /\ KeysToWithin(t, a, b) => KeysToWithin(t, Effect(s, a), Effect(s, b))
<1> DEFINE A == Effect(s, a)
           B == Effect(s, b)
<1> s \in Statement
  BY DEF Executed
<1>1. CASE s.kind = "RENAME COLUMN"
  <2> DEFINE ren(k) == RenamedRef(RenamedIn(k, s), s)
             cols(k) == IF k.table = s.table THEN Renamed(k.columns, s) ELSE k.columns
  <2>1. A.fks = {ren(k) : k \in a.fks} /\ B.fks = {ren(k) : k \in b.fks}
    BY <1>1, EffectParts
  <2> DEFINE kept(k) == /\ ren(k).table = k.table /\ ren(k).name = k.name /\ ren(k).ref = k.ref
                        /\ ren(k).index = k.index /\ ren(k).columns = cols(k)
  <2>2. (\A k \in a.fks : kept(k)) /\ (\A k \in b.fks : kept(k))
    BY <1>1, RenamedParts
  <2>3. \A k, l : k.table = l.table /\ k.columns = l.columns => cols(k) = cols(l)
    OBVIOUS
  <2> HIDE DEF ren, cols
  <2>4. ASSUME KeysFromWithin(t, a, b), NEW x \in A.fks, x.table = t
        PROVE  \E l \in B.fks : /\ l.table = t /\ l.name = x.name /\ l.columns = x.columns
                                /\ l.ref = x.ref /\ l.index = x.index
    <3>1. PICK k \in a.fks : x = ren(k)
      BY <2>1, <2>4
    <3>2. PICK l \in b.fks : /\ l.table = t /\ l.name = k.name /\ l.columns = k.columns
                             /\ l.ref = k.ref /\ l.index = k.index
      BY <2>2, <2>4, <3>1 DEF KeysFromWithin
    <3>3. ren(l) \in B.fks
      BY <2>1
    <3>4. cols(l) = cols(k)
      BY <2>2, <2>3, <2>4, <3>1, <3>2
    <3> QED BY <2>2, <2>4, <3>1, <3>2, <3>3, <3>4
  <2>5. ASSUME KeysToWithin(t, a, b), NEW x \in A.fks, x.ref = t
        PROVE  \E l \in B.fks : /\ l.ref = t /\ l.table = x.table /\ l.name = x.name
                                /\ l.index = x.index
    <3>1. PICK k \in a.fks : x = ren(k)
      BY <2>1, <2>5
    <3>2. PICK l \in b.fks : /\ l.ref = t /\ l.table = k.table /\ l.name = k.name
                             /\ l.index = k.index
      BY <2>2, <2>5, <3>1 DEF KeysToWithin
    <3>3. ren(l) \in B.fks
      BY <2>1
    <3> QED BY <2>2, <2>5, <3>1, <3>2, <3>3
  <2>6. KeysFromWithin(t, a, b) => KeysFromWithin(t, A, B)
    BY <2>4 DEF KeysFromWithin
  <2>7. KeysToWithin(t, a, b) => KeysToWithin(t, A, B)
    BY <2>5 DEF KeysToWithin
  <2> QED BY <2>6, <2>7
<1>2. CASE s.kind = "DROP COLUMN"
  <2>1. /\ A.fks = {k \in a.fks : k.table # s.table \/ ~ Uses(k, s.name)}
        /\ B.fks = {k \in b.fks : k.table # s.table \/ ~ Uses(k, s.name)}
    BY <1>2, EffectParts
  <2>2. \A k, l : k.columns = l.columns => (Uses(k, s.name) <=> Uses(l, s.name))
    BY DEF Uses
  <2> DEFINE uses(k) == Uses(k, s.name)
  <2> HIDE DEF uses
  <2>3. /\ \A k \in A.fks : k \in a.fks /\ (k.table = s.table => ~ uses(k))
        /\ \A k \in b.fks : k.table # s.table \/ ~ uses(k) => k \in B.fks
        /\ \A k, l : k.columns = l.columns => (uses(k) <=> uses(l))
    BY <2>1, <2>2 DEF uses
  <2>4. ASSUME NEW k \in A.fks,
               NEW l \in b.fks, l.table = k.table, l.columns = k.columns
        PROVE  l \in B.fks
    BY <2>3, <2>4
  <2>5. KeysFromWithin(t, a, b) => KeysFromWithin(t, A, B)
    BY <2>3, <2>4 DEF KeysFromWithin
  <2>6. ASSUME KeysToWithin(t, a, b), NEW k \in A.fks, k.ref = t
        PROVE  \E l \in B.fks : l.ref = t /\ l.table = k.table /\ l.name = k.name /\ l.index = k.index
    <3>1. CASE k.table = s.table
      <4>1. PICK l \in b.fks : /\ l.table = s.table /\ l.name = k.name /\ l.columns = k.columns
                               /\ l.ref = k.ref /\ l.index = k.index
        BY <1>2, <2>3, <3>1 DEF KeysFromWithin
      <4> QED BY <2>4, <2>6, <3>1, <4>1
    <3>2. CASE k.table # s.table
      BY <2>3, <2>6, <3>2 DEF KeysToWithin
    <3> QED BY <3>1, <3>2
  <2> QED BY <2>5, <2>6 DEF KeysToWithin
<1>3. CASE s.kind = "DROP CONSTRAINT"
  <2>1. A.fks = a.fks \ NamedForeign(a, s) /\ B.fks = b.fks \ NamedForeign(b, s)
    BY <1>3, EffectParts
  <2> QED BY <2>1 DEF KeysFromWithin, KeysToWithin, NamedForeign
<1>4. CASE s.kind = "ADD FOREIGN KEY"
  <2> DEFINE added(on) ==
        {[table |-> s.table, name |-> s.name, columns |-> s.columns, ref |-> s.ref,
          refColumns |-> s.refColumns, index |-> i.name] : i \in on}
  <2>1. /\ A.fks = a.fks \cup added(Support(a, s))
        /\ B.fks = b.fks \cup added(Support(b, s))
    BY <1>4, EffectParts
  <2> HIDE DEF added
  <2>2. B.fks = b.fks \cup added(Support(a, s))
    BY <1>4, <2>1
  <2> QED BY <2>1, <2>2 DEF KeysFromWithin, KeysToWithin
<1>5. CASE s.kind \in {"TYPE", "NULLABILITY", "DEFAULT", "ADD COLUMN", "CREATE INDEX",
                       "ADD PRIMARY KEY", "DROP INDEX"}
  <2>1. A.fks = a.fks /\ B.fks = b.fks
    BY <1>5, PartsKept, Zenon
  <2> QED BY <2>1 DEF KeysFromWithin, KeysToWithin
<1> QED BY <1>1, <1>2, <1>3, <1>4, <1>5 DEF Statement

\* One step of a replay: on a catalog that looks alike under the locks, the
\* statement is legal, needs the same locks and leaves the two alike.
LEMMA StepAlike ==
    ASSUME NEW s \in Executed, NEW a \in Catalog, NEW b \in Catalog, NEW locks,
           Same(locks, a, b), Legal(s, a), Locks(s, a) \subseteq locks
    PROVE  /\ Legal(s, b) /\ Locks(s, b) = Locks(s, a)
           /\ Same(locks, Effect(s, a), Effect(s, b))
<1>1. Legal(s, b)
  BY LegalAlike
<1>2. Locks(s, b) = Locks(s, a)
  BY LocksAlike
<1>3. s.kind = "DROP COLUMN" => Alike(s.table, a, b)
  BY LocksShow
<1>4. s.kind = "ADD FOREIGN KEY" => Support(a, s) = Support(b, s)
  <2>1. SUFFICES ASSUME s.kind = "ADD FOREIGN KEY" PROVE Support(a, s) = Support(b, s)
    OBVIOUS
  <2>2. Alike(s.ref, a, b)
    BY <2>1, LocksShow
  <2> QED BY <2>2, IndexesAlike DEF Alike
<1>5. ASSUME NEW l \in locks
      PROVE  Within(l, Effect(s, a), Effect(s, b)) /\ Within(l, Effect(s, b), Effect(s, a))
  <2>1. Within(l, a, b) /\ Within(l, b, a)
    BY DEF Same
  <2>2. Within(l, Effect(s, a), Effect(s, b))
    BY <1>3, <1>4, <2>1, ColumnsAfter, IndexesAfter, KeysAfter DEF Within, Alike
  <2>3. Within(l, Effect(s, b), Effect(s, a))
    BY <1>3, <1>4, <2>1, ColumnsAfter, IndexesAfter, KeysAfter DEF Within, Alike
  <2> QED BY <2>2, <2>3
<1> QED BY <1>1, <1>2, <1>5 DEF Same

(***************************************************************************)
(* Logs, replayed.                                                         *)
(***************************************************************************)
Seen(k, log, cat) == RunAll(SubSeq(log, 1, k), cat)

\* A number up to a log's length is one of a few.
LEMMA UpToFour ==
    ASSUME NEW n \in 0..4
    PROVE  /\ \A k \in 1..n : k \in {1, 2, 3, 4} /\ k <= n /\ k - 1 \in 0..n
           /\ n \in {0, 1, 2, 3, 4}
OBVIOUS

\* A log replayed up to a statement is the statement before it, replayed, and
\* then that one.
LEMMA SeenSteps ==
    ASSUME NEW log \in Seq(Executed), Len(log) <= MaxLog, NEW cat
    PROVE  /\ Len(log) \in 0..4
           /\ Seen(0, log, cat) = cat /\ Seen(Len(log), log, cat) = RunAll(log, cat)
           /\ \A k \in 1..Len(log) : Seen(k, log, cat) = Effect(log[k], Seen(k - 1, log, cat))
<1> DEFINE n == Len(log)
           Step(j, k, x) == IF j <= k THEN Effect(log[j], x) ELSE x
           Chain(k) == Step(4, k, Step(3, k, Step(2, k, Step(1, k, cat))))
<1>1. n \in Nat /\ n \in 0..4
  <2>1. n \in Nat /\ n <= 4
    BY LenProperties DEF MaxLog
  <2> HIDE DEF n
  <2> QED BY <2>1
<1>2. ASSUME NEW k \in 0..n PROVE Seen(k, log, cat) = Chain(k)
  <2> DEFINE part == SubSeq(log, 1, k)
  <2>1. Len(part) = k /\ \A j \in 1..k : part[j] = log[j]
    BY <1>1, SubSeqProperties
  <2> HIDE DEF part
  <2>2. ASSUME NEW j \in 1..4, NEW x PROVE Replayed(j, part, x) = Step(j, k, x)
    BY <1>1, <2>1 DEF Replayed
  <2> HIDE DEF Step
  <2> QED BY <2>2 DEF RunAll, Seen, part
<1>3. SubSeq(log, 1, n) = log
  <2>1. /\ SubSeq(log, 1, n) \in Seq(Executed) /\ Len(SubSeq(log, 1, n)) = n
        /\ \A j \in 1..n : SubSeq(log, 1, n)[j] = log[j]
    BY <1>1, SubSeqProperties
  <2> QED BY <2>1, SeqEqual
<1>4. ASSUME NEW k \in 1..n PROVE Chain(k) = Effect(log[k], Chain(k - 1))
  <2>1. k \in {1, 2, 3, 4}
    BY <1>1, UpToFour
  <2>2. CASE k = 1
    BY <2>2
  <2>3. CASE k = 2
    BY <2>3
  <2>4. CASE k = 3
    BY <2>4
  <2>5. CASE k = 4
    BY <2>5
  <2> QED BY <2>1, <2>2, <2>3, <2>4, <2>5
<1>5. Chain(0) = cat
  OBVIOUS
<1> HIDE DEF Chain
<1>6. \A k \in 1..n : k \in 0..n /\ k - 1 \in 0..n
  BY <1>1
<1>7. 0 \in 0..n /\ n \in 0..n
  BY <1>1
<1> QED BY <1>1, <1>2, <1>3, <1>4, <1>5, <1>6, <1>7 DEF Seen

\* What a log makes of a catalog, up to each of its statements, is a catalog.
LEMMA SeenType ==
    ASSUME NEW log \in Seq(Executed), Len(log) <= MaxLog, NEW cat \in Catalog,
           NEW k \in 0..Len(log)
    PROVE  Seen(k, log, cat) \in Catalog
<1>1. SubSeq(log, 1, k) \in Seq(Executed)
  BY SubSeqProperties, LenProperties
<1> QED BY <1>1, RunAllType DEF Seen

\* Looking alike under some locks carries over from catalog to catalog.
LEMMA SameTransitive ==
    ASSUME NEW locks, NEW a, NEW b, NEW c, Same(locks, a, b), Same(locks, b, c)
    PROVE  Same(locks, a, c)
<1>1. \A x, y, z, l : Within(l, x, y) /\ Within(l, y, z) => Within(l, x, z)
  <2> TAKE x, y, z, l
  <2> DEFINE t == l.rel
  <2> HIDE DEF t
  <2>1. ColumnsWithin(t, x, y) /\ ColumnsWithin(t, y, z) => ColumnsWithin(t, x, z)
    BY DEF ColumnsWithin
  <2>2. IndexesWithin(t, x, y) /\ IndexesWithin(t, y, z) => IndexesWithin(t, x, z)
    BY DEF IndexesWithin
  <2>3. KeysFromWithin(t, x, y) /\ KeysFromWithin(t, y, z) => KeysFromWithin(t, x, z)
    BY DEF KeysFromWithin
  <2>4. KeysToWithin(t, x, y) /\ KeysToWithin(t, y, z) => KeysToWithin(t, x, z)
    BY DEF KeysToWithin
  <2>5. NameWithin(t, x, y) /\ NameWithin(t, y, z) => NameWithin(t, x, z)
    BY DEF NameWithin
  <2> QED BY <2>1, <2>2, <2>3, <2>4, <2>5 DEF Within, t
<1> QED BY <1>1 DEF Same

\* A log that other locks cover leaves what these show alone.
LEMMA ReplayApart ==
    ASSUME NEW log \in Seq(Executed), Len(log) <= MaxLog, NEW cat \in Catalog,
           NEW theirs, Covered(log, theirs, cat), NEW locks \in SUBSET Lock,
           \A l \in locks, m \in theirs : ~ Conflict(l, m)
    PROVE  Same(locks, cat, RunAll(log, cat))
<1> DEFINE n == Len(log)
           Fine(k) == Same(locks, cat, Seen(k, log, cat))
<1>1. n \in 0..4 /\ Seen(0, log, cat) = cat /\ Seen(n, log, cat) = RunAll(log, cat)
  BY SeenSteps
<1>2. Fine(0)
  BY <1>1 DEF Same, Within, ColumnsWithin, IndexesWithin, KeysFromWithin, KeysToWithin, NameWithin
<1>3. ASSUME NEW k \in 1..n, Fine(k - 1) PROVE Fine(k)
  <2>1. k - 1 \in 0..n
    BY <1>1
  <2> DEFINE old == Seen(k - 1, log, cat)
  <2>2. old \in Catalog /\ log[k] \in Executed
    BY <2>1, SeenType, ElementOfSeq
  <2>3. Locks(log[k], old) \subseteq theirs
    BY DEF Covered, Seen
  <2>4. Same(locks, old, Effect(log[k], old))
    BY <2>2, <2>3, Undisturbed
  <2>5. Seen(k, log, cat) = Effect(log[k], old)
    BY SeenSteps
  <2> QED BY <1>3, <2>4, <2>5, SameTransitive
<1> HIDE DEF Fine
<1>4. Fine(n)
  <2>1. 1 <= n => Fine(1)
    BY <1>1, <1>2, <1>3
  <2>2. 2 <= n => Fine(2)
    BY <1>1, <1>3, <2>1
  <2>3. 3 <= n => Fine(3)
    BY <1>1, <1>3, <2>2
  <2>4. 4 <= n => Fine(4)
    BY <1>1, <1>3, <2>3
  <2>5. n \in {0, 1, 2, 3, 4}
    BY <1>1, UpToFour
  <2> HIDE DEF n
  <2> QED BY <1>2, <2>1, <2>2, <2>3, <2>4, <2>5
<1> QED BY <1>1, <1>4 DEF Fine

\* A log stays covered on a catalog that looks alike.
LEMMA ReplayAlike ==
    ASSUME NEW log \in Seq(Executed), Len(log) <= MaxLog, NEW locks,
           NEW a \in Catalog, NEW b \in Catalog, Covered(log, locks, a), Same(locks, a, b)
    PROVE  Covered(log, locks, b)
<1> DEFINE n == Len(log)
           A(k) == Seen(k, log, a)
           B(k) == Seen(k, log, b)
           Fine(k) == Same(locks, A(k), B(k))
<1>1. n \in 0..4 /\ A(0) = a /\ B(0) = b
  BY SeenSteps
<1>2. Fine(0)
  BY <1>1
<1>3. ASSUME NEW k \in 1..n, Fine(k - 1)
      PROVE  Fine(k) /\ Legal(log[k], B(k - 1)) /\ Locks(log[k], B(k - 1)) \subseteq locks
  <2>1. k - 1 \in 0..n
    BY <1>1
  <2>2. A(k - 1) \in Catalog /\ B(k - 1) \in Catalog /\ log[k] \in Executed
    BY <2>1, SeenType, ElementOfSeq
  <2>3. Legal(log[k], A(k - 1)) /\ Locks(log[k], A(k - 1)) \subseteq locks
    BY DEF Covered, Seen
  <2>4. A(k) = Effect(log[k], A(k - 1)) /\ B(k) = Effect(log[k], B(k - 1))
    BY SeenSteps
  <2> HIDE DEF A, B
  <2> QED BY <1>3, <2>2, <2>3, <2>4, StepAlike
<1> HIDE DEF Fine
<1>4. \A k \in 1..n : Fine(k - 1)
  <2>1. 1 <= n => Fine(1)
    BY <1>1, <1>2, <1>3
  <2>2. 2 <= n => Fine(2)
    BY <1>1, <1>3, <2>1
  <2>3. 3 <= n => Fine(3)
    BY <1>1, <1>3, <2>2
  <2>4. ASSUME NEW k \in 1..n PROVE Fine(k - 1)
    <3>1. k \in {1, 2, 3, 4} /\ k <= n
      BY <1>1, UpToFour
    <3> HIDE DEF n
    <3> QED BY <1>1, <1>2, <2>1, <2>2, <2>3, <3>1
  <2> QED BY <2>4
<1> QED BY <1>3, <1>4 DEF Covered, Seen

(***************************************************************************)
(* Statements as they run                                                  *)
(***************************************************************************)
\* The names PostgreSQL picks are free.
LEMMA NewNamesAreFree ==
    ASSUME NEW cat, NEW t
    PROVE  /\ NewPrimaryKeyName(cat, t) # Nil =>
                ~ RelationTaken(cat, Schema(t), NewPrimaryKeyName(cat, t))
           /\ NewForeignKeyName(cat, t) # Nil =>
                ~ ConstraintTaken(cat, Schema(t), NewForeignKeyName(cat, t))
<1>1. ASSUME NewPrimaryKeyName(cat, t) # Nil
     PROVE  ~ RelationTaken(cat, Schema(t), NewPrimaryKeyName(cat, t))
  <2> DEFINE names == PrimaryKeyNames(t)
             free == {k \in DOMAIN names :
                        /\ ~ RelationTaken(cat, Schema(t), names[k])
                        /\ \A j \in 1..(k - 1) : RelationTaken(cat, Schema(t), names[j])}
  <2>1. NewPrimaryKeyName(cat, t) = IF free = {} THEN Nil ELSE names[CHOOSE k \in free : TRUE]
    BY DEF NewPrimaryKeyName, FirstFree
  <2>2. free # {} => (CHOOSE k \in free : TRUE) \in free
    BY Zenon
  <2>3. \A k \in free : ~ RelationTaken(cat, Schema(t), names[k])
    OBVIOUS
  <2> HIDE DEF free
  <2> QED BY <1>1, <2>1, <2>2, <2>3
<1>2. ASSUME NewForeignKeyName(cat, t) # Nil
     PROVE  ~ ConstraintTaken(cat, Schema(t), NewForeignKeyName(cat, t))
  <2> DEFINE names == ForeignKeyNames
             free == {k \in DOMAIN names :
                        /\ ~ ConstraintTaken(cat, Schema(t), names[k])
                        /\ \A j \in 1..(k - 1) : ConstraintTaken(cat, Schema(t), names[j])}
  <2>1. NewForeignKeyName(cat, t) = IF free = {} THEN Nil ELSE names[CHOOSE k \in free : TRUE]
    BY DEF NewForeignKeyName, FirstFree
  <2>2. free # {} => (CHOOSE k \in free : TRUE) \in free
    BY Zenon
  <2>3. \A k \in free : ~ ConstraintTaken(cat, Schema(t), names[k])
    OBVIOUS
  <2> HIDE DEF free
  <2> QED BY <1>2, <2>1, <2>2, <2>3
<1> QED BY <1>1, <1>2

\* A statement that is legal is legal with the name that PostgreSQL picks for
\* its key, and takes the locks it takes.
LEMMA NamedLegal ==
    ASSUME NEW s \in Planned, NEW cat \in Catalog, Legal(s, cat)
    PROVE  Legal(Named(s, cat), cat) /\ Locks(Named(s, cat), cat) = Locks(s, cat)
<1> DEFINE ran == Named(s, cat)
<1> s \in Statement
  BY DEF Planned
<1>1. CASE s.kind = "ADD PRIMARY KEY"
  <2>1. s.name = Nil /\ ran = [s EXCEPT !.name = KeyName(s, cat)]
    BY <1>1 DEF Planned, AddsKey, Named
  <2> DEFINE name == NewPrimaryKeyName(cat, s.table)
  <2>2. KeyName(s, cat) = name /\ name # Nil
    BY <1>1, <2>1 DEF KeyName, Legal
  <2>3. ~ RelationTaken(cat, Schema(s.table), name)
    BY <2>2, NewNamesAreFree
  <2> HIDE DEF name
  <2>4. /\ ran.kind = s.kind /\ ran.table = s.table /\ ran.columns = s.columns /\ ran.name = name
    BY <1>1, <2>1, <2>2 DEF Statement
  <2> HIDE DEF ran
  <2>5. KeyName(ran, cat) = name
    BY <2>2, <2>4 DEF KeyName
  <2>6. Legal(ran, cat)
    BY <1>1, <2>2, <2>3, <2>4, <2>5 DEF Legal
  <2>7. FirstLocks(ran, cat) = FirstLocks(s, cat) /\ OtherLocks(ran, cat) = OtherLocks(s, cat)
    BY <1>1, <2>2, <2>4, <2>5 DEF FirstLocks, OtherLocks
  <2> QED BY <2>6, <2>7 DEF Locks, ran
<1>2. CASE s.kind = "ADD FOREIGN KEY"
  <2>1. s.name = Nil /\ ran = [s EXCEPT !.name = KeyName(s, cat)]
    BY <1>2 DEF Planned, AddsKey, Named
  <2> DEFINE name == NewForeignKeyName(cat, s.table)
  <2>2. KeyName(s, cat) = name /\ name # Nil
    BY <1>2, <2>1 DEF KeyName, Legal
  <2>3. ~ ConstraintTaken(cat, Schema(s.table), name)
    BY <2>2, NewNamesAreFree
  <2> HIDE DEF name
  <2>4. /\ ran.kind = s.kind /\ ran.table = s.table /\ ran.columns = s.columns /\ ran.name = name
        /\ ran.ref = s.ref /\ ran.refColumns = s.refColumns
    BY <1>2, <2>1, <2>2 DEF Statement
  <2> HIDE DEF ran
  <2>5. KeyName(ran, cat) = name
    BY <2>2, <2>4 DEF KeyName
  <2>6. NamedForeign(cat, ran) = {} /\ NamedPrimary(cat, ran) = {}
    BY <2>3, <2>4 DEF ConstraintTaken, NamedForeign, NamedPrimary
  <2>7. Supporting(cat, ran) = Supporting(cat, s)
    BY <2>4 DEF Supporting
  <2>8. Support(cat, ran) = Support(cat, s)
    <3> DEFINE taken(able) ==
          {i \in able : i = CHOOSE j \in able : j.primary \/ \A k \in able : ~ k.primary}
    <3>1. Support(cat, ran) = taken(Supporting(cat, ran)) /\ Support(cat, s) = taken(Supporting(cat, s))
      BY Zenon DEF Support
    <3> HIDE DEF taken
    <3> QED BY <2>7, <3>1
  <2>9. Legal(ran, cat)
    BY <1>2, <2>2, <2>4, <2>5, <2>6, <2>8 DEF Legal
  <2>10. FirstLocks(ran, cat) = FirstLocks(s, cat) /\ OtherLocks(ran, cat) = OtherLocks(s, cat)
    BY <1>2, <2>4 DEF FirstLocks, OtherLocks
  <2> QED BY <2>9, <2>10 DEF Locks, ran
<1>3. CASE ~ AddsKey(s)
  BY <1>3 DEF Named
<1> QED BY <1>1, <1>2, <1>3 DEF AddsKey

\* The empty log is covered, and so is a covered log with a statement more that
\* is legal after it and whose locks are held.
LEMMA CoveredAppend ==
    ASSUME NEW log \in Seq(Executed), Len(log) <= MaxLog, NEW locks, NEW cat \in Catalog
    PROVE  /\ Covered(<<>>, locks, cat)
           /\ \A s \in Executed :
                /\ Covered(log, locks, cat) /\ Legal(s, RunAll(log, cat))
                /\ Locks(s, RunAll(log, cat)) \subseteq locks
                => Covered(Append(log, s), locks, cat)
<1>1. Covered(<<>>, locks, cat)
  <2>1. Len(<<>>) = 0 /\ 1..0 = {}
    OBVIOUS
  <2> QED BY <2>1 DEF Covered
<1>2. ASSUME NEW s \in Executed, Covered(log, locks, cat), Legal(s, RunAll(log, cat)),
             Locks(s, RunAll(log, cat)) \subseteq locks
      PROVE  Covered(Append(log, s), locks, cat)
  <2> DEFINE n == Len(log)
             more == Append(log, s)
  <2>1. /\ n \in Nat /\ more \in Seq(Executed) /\ Len(more) = n + 1
        /\ \A k \in 1..n : more[k] = log[k]
        /\ more[n + 1] = s
    BY LenProperties, AppendProperties
  <2>2. ASSUME NEW k \in 0..n PROVE SubSeq(more, 1, k) = SubSeq(log, 1, k)
    <3>1. /\ SubSeq(more, 1, k) \in Seq(Executed) /\ Len(SubSeq(more, 1, k)) = k
          /\ \A j \in 1..k : SubSeq(more, 1, k)[j] = more[j]
      BY <2>1, SubSeqProperties
    <3>2. /\ SubSeq(log, 1, k) \in Seq(Executed) /\ Len(SubSeq(log, 1, k)) = k
          /\ \A j \in 1..k : SubSeq(log, 1, k)[j] = log[j]
      BY <2>1, SubSeqProperties
    <3>3. \A j \in 1..k : more[j] = log[j]
      BY <2>1
    <3> HIDE DEF more
    <3> QED BY <3>1, <3>2, <3>3, SeqEqual
  <2>3. SubSeq(log, 1, n) = log
    <3>1. /\ SubSeq(log, 1, n) \in Seq(Executed) /\ Len(SubSeq(log, 1, n)) = n
          /\ \A j \in 1..n : SubSeq(log, 1, n)[j] = log[j]
      BY <2>1, SubSeqProperties
    <3> QED BY <3>1, SeqEqual
  <2> HIDE DEF more
  <2>4. ASSUME NEW k \in 1..(n + 1)
        PROVE  LET seen == RunAll(SubSeq(more, 1, k - 1), cat)
               IN  Legal(more[k], seen) /\ Locks(more[k], seen) \subseteq locks
    <3>1. k - 1 \in 0..n
      BY <2>1
    <3>2. SubSeq(more, 1, k - 1) = SubSeq(log, 1, k - 1)
      BY <2>2, <3>1
    <3>3. CASE k \in 1..n
      BY <1>2, <2>1, <3>2, <3>3 DEF Covered
    <3>4. CASE k = n + 1
      <4>1. k - 1 = n
        BY <2>1, <3>4
      <4> QED BY <1>2, <2>1, <2>3, <3>2, <3>4, <4>1
    <3> QED BY <2>1, <3>3, <3>4
  <2> QED BY <2>1, <2>4 DEF Covered, more
<1> QED BY <1>1, <1>2

\* A log with one statement more is the log replayed and then that statement.
LEMMA RunAppend ==
    ASSUME NEW log \in Seq(Executed), Len(log) <= 3, NEW s \in Executed, NEW cat
    PROVE  RunAll(Append(log, s), cat) = Effect(s, RunAll(log, cat))
<1> DEFINE n == Len(log)
           more == Append(log, s)
<1>1. /\ n \in Nat /\ more \in Seq(Executed) /\ Len(more) = n + 1
      /\ \A k \in 1..n : more[k] = log[k]
      /\ more[n + 1] = s
  BY LenProperties, AppendProperties
<1>2. n + 1 <= 4 /\ n + 1 \in 1..(n + 1) /\ (n + 1) - 1 = n /\ n \in 0..(n + 1)
  <2>1. n <= 3
    OBVIOUS
  <2> HIDE DEF n
  <2> QED BY <1>1, <2>1
<1>3. SubSeq(more, 1, n) = log
  <2>1. /\ SubSeq(more, 1, n) \in Seq(Executed) /\ Len(SubSeq(more, 1, n)) = n
        /\ \A j \in 1..n : SubSeq(more, 1, n)[j] = more[j]
    BY <1>1, <1>2, SubSeqProperties
  <2> HIDE DEF more
  <2> QED BY <1>1, <2>1, SeqEqual
<1> HIDE DEF more, n
<1>4. Len(more) <= MaxLog
  BY <1>1, <1>2 DEF MaxLog
<1>5. RunAll(more, cat) = Effect(more[n + 1], Seen(n, more, cat))
  BY <1>1, <1>2, <1>4, SeenSteps
<1>6. Seen(n, more, cat) = RunAll(log, cat)
  BY <1>3 DEF Seen
<1> QED BY <1>1, <1>5, <1>6 DEF more

\* What the empty log and logs of one or two statements make of a catalog.
LEMMA ShortLog ==
    ASSUME NEW log \in Seq(Executed), NEW cat
    PROVE  /\ RunAll(<<>>, cat) = cat
           /\ Len(log) = 1 => RunAll(log, cat) = Effect(log[1], cat)
           /\ Len(log) = 2 => RunAll(log, cat) = Effect(log[2], Effect(log[1], cat))
<1>1. RunAll(<<>>, cat) = cat
  <2>1. Len(<<>>) = 0
    OBVIOUS
  <2> QED BY <2>1 DEF RunAll, Replayed
<1>2. Len(log) = 1 => RunAll(log, cat) = Effect(log[1], cat)
  BY DEF RunAll, Replayed
<1>3. Len(log) = 2 => RunAll(log, cat) = Effect(log[2], Effect(log[1], cat))
  BY DEF RunAll, Replayed
<1> QED BY <1>1, <1>2, <1>3

(***************************************************************************)
(* The unique indexes of pg_class and pg_constraint.                       *)
(***************************************************************************)
\* PostgreSQL rests a foreign key on one index.
LEMMA SupportIsOne ==
    ASSUME NEW cat, NEW s, NEW i \in Support(cat, s), NEW j \in Support(cat, s)
    PROVE  i = j
BY Zenon DEF Support

\* A legal statement leaves names of indexes unique in their schemas, and names
\* of foreign keys on their tables.
LEMMA EffectWellNamed ==
    ASSUME NEW s \in Executed, NEW cat \in Catalog, WellNamed(cat), Legal(s, cat)
    PROVE  WellNamed(Effect(s, cat))
<1> DEFINE new == Effect(s, cat)
           Unique(indexes) == \A i, j \in indexes :
                Schema(i.table) = Schema(j.table) /\ i.name = j.name => i = j
           UniqueKeys(fks) == \A k, l \in fks : k.table = l.table /\ k.name = l.name => k = l
<1> s \in Statement
  BY DEF Executed
<1>1. Unique(cat.indexes) /\ UniqueKeys(cat.fks)
  BY DEF WellNamed
<1>2. CASE s.kind = "RENAME COLUMN"
  <2> DEFINE ren(i) == RenamedIn(i, s)
             renk(k) == RenamedRef(RenamedIn(k, s), s)
  <2>1. new.indexes = {ren(i) : i \in cat.indexes} /\ new.fks = {renk(k) : k \in cat.fks}
    BY <1>2, EffectParts
  <2>2. /\ \A i \in cat.indexes : ren(i).table = i.table /\ ren(i).name = i.name
        /\ \A k \in cat.fks : renk(k).table = k.table /\ renk(k).name = k.name
    BY <1>2, RenamedParts
  <2> HIDE DEF ren, renk
  <2>3. Unique(new.indexes)
    BY <1>1, <2>1, <2>2
  <2>4. UniqueKeys(new.fks)
    BY <1>1, <2>1, <2>2
  <2> QED BY <2>3, <2>4 DEF WellNamed
<1>3. CASE s.kind \in {"CREATE INDEX", "ADD PRIMARY KEY"}
  <2>1. new.fks = cat.fks
    BY <1>3, EffectParts
  <2>2. \E added : /\ new.indexes = cat.indexes \cup {added}
                   /\ added.table = s.table /\ added.name = s.name
    <3> DEFINE index(unique, primary) ==
          [table |-> s.table, name |-> s.name, columns |-> s.columns,
           unique |-> unique, primary |-> primary]
    <3>1. \A u, p : index(u, p).table = s.table /\ index(u, p).name = s.name
      OBVIOUS
    <3>2. s.kind = "CREATE INDEX" => new.indexes = cat.indexes \cup {index(s.unique, FALSE)}
      BY EffectParts
    <3>3. s.kind = "ADD PRIMARY KEY" => new.indexes = cat.indexes \cup {index(TRUE, TRUE)}
      BY EffectParts
    <3> HIDE DEF index
    <3>4. \E u, p : new.indexes = cat.indexes \cup {index(u, p)}
      BY <1>3, <3>2, <3>3, Zenon
    <3>5. PICK u, p : new.indexes = cat.indexes \cup {index(u, p)}
      BY <3>4
    <3>6. index(u, p).table = s.table /\ index(u, p).name = s.name
      BY <3>1
    <3> QED BY <3>5, <3>6, Zenon
  <2>3. ~ RelationTaken(cat, Schema(s.table), s.name)
    BY <1>3 DEF Legal
  <2>4. Unique(new.indexes)
    BY <1>1, <2>2, <2>3 DEF RelationTaken
  <2> QED BY <1>1, <2>1, <2>4 DEF WellNamed
<1>4. CASE s.kind = "ADD FOREIGN KEY"
  <2> DEFINE key(i) ==
        [table |-> s.table, name |-> s.name, columns |-> s.columns, ref |-> s.ref,
         refColumns |-> s.refColumns, index |-> i.name]
  <2>1. new.fks = cat.fks \cup {key(i) : i \in Support(cat, s)} /\ new.indexes = cat.indexes
    BY <1>4, EffectParts
  <2>2. \A i : key(i).table = s.table /\ key(i).name = s.name
    OBVIOUS
  <2> HIDE DEF key
  <2>3. NamedForeign(cat, s) = {}
    BY <1>4 DEF Legal
  <2>4. \A i, j \in Support(cat, s) : key(i) = key(j)
    BY SupportIsOne
  <2>5. UniqueKeys(new.fks)
    BY <1>1, <2>1, <2>2, <2>3, <2>4 DEF NamedForeign
  <2> QED BY <1>1, <2>1, <2>5 DEF WellNamed
<1>5. CASE s.kind \in {"TYPE", "NULLABILITY", "DEFAULT", "ADD COLUMN", "DROP COLUMN",
                       "DROP INDEX", "DROP CONSTRAINT"}
  <2>1. new.indexes \subseteq cat.indexes /\ new.fks \subseteq cat.fks
    <3>1. CASE s.kind \in {"TYPE", "NULLABILITY", "DEFAULT"}
      BY <3>1, EffectParts
    <3>2. CASE s.kind = "ADD COLUMN"
      BY <3>2, EffectParts
    <3>3. CASE s.kind = "DROP COLUMN"
      <4>1. /\ new.indexes = {i \in cat.indexes : i.table # s.table \/ ~ Uses(i, s.name)}
            /\ new.fks = {k \in cat.fks : k.table # s.table \/ ~ Uses(k, s.name)}
        BY <3>3, EffectParts, Zenon
      <4> HIDE DEF new
      <4> QED BY <4>1
    <3>4. CASE s.kind = "DROP INDEX"
      <4>1. new.indexes = cat.indexes \ NamedIndexes(cat, s.index) /\ new.fks = cat.fks
        BY <3>4, EffectParts, Zenon
      <4> HIDE DEF new
      <4> QED BY <4>1
    <3>5. CASE s.kind = "DROP CONSTRAINT"
      <4>1. /\ new.indexes = cat.indexes \ NamedPrimary(cat, s)
            /\ new.fks = cat.fks \ NamedForeign(cat, s)
        BY <3>5, EffectParts, Zenon
      <4> HIDE DEF new
      <4> QED BY <4>1
    <3> QED BY <1>5, <3>1, <3>2, <3>3, <3>4, <3>5
  <2> QED BY <1>1, <2>1 DEF WellNamed
<1> QED BY <1>2, <1>3, <1>4, <1>5 DEF Statement

\* Every statement leaves every column with a type as format_type writes it.
LEMMA EffectWellTyped ==
    ASSUME NEW s \in Executed, NEW cat \in Catalog, WellTyped(cat)
    PROVE  WellTyped(Effect(s, cat))
<1> DEFINE new == Effect(s, cat)
           Typed(c) == \E t \in Texts : c.type = FormatType[t]
<1> s \in Statement
  BY DEF Executed
<1>1. cat.columns \subseteq Column /\ \A c \in cat.columns : Typed(c)
  BY DEF WellTyped, Catalog
<1>2. CASE s.kind \in {"RENAME COLUMN", "TYPE", "NULLABILITY", "DEFAULT"}
  <2> DEFINE alt(c) == Altered(c, s)
  <2>1. new.columns = {alt(c) : c \in cat.columns}
    <3>1. CASE s.kind = "RENAME COLUMN"
      BY <3>1, EffectParts
    <3>2. CASE s.kind \in {"TYPE", "NULLABILITY", "DEFAULT"}
      BY <3>2, EffectParts
    <3> QED BY <1>2, <3>1, <3>2
  <2>2. \A c \in Column : alt(c).type = c.type \/ (s.kind = "TYPE" /\ alt(c).type = FormatType[s.type])
    BY <1>2 DEF Altered, Column
  <2>3. s.kind = "TYPE" => s.type \in Texts
    BY DEF Statement
  <2> HIDE DEF alt
  <2>4. \A c \in cat.columns : Typed(alt(c))
    BY <1>1, <2>2, <2>3
  <2> QED BY <2>1, <2>4 DEF WellTyped
<1>3. CASE s.kind = "ADD COLUMN"
  <2>1. new.columns = cat.columns \cup {NewColumn(cat, s)}
    BY <1>3, EffectParts
  <2>2. s.type \in Texts /\ NewColumn(cat, s).type = FormatType[s.type]
    BY <1>3 DEF Statement, NewColumn
  <2> QED BY <1>1, <2>1, <2>2 DEF WellTyped
<1>4. CASE s.kind = "ADD PRIMARY KEY"
  <2> DEFINE key(c) == KeyColumn(c, s)
  <2>1. new.columns = {key(c) : c \in cat.columns}
    BY <1>4, EffectParts
  <2>2. \A c \in Column : key(c).type = c.type
    BY DEF KeyColumn, Column
  <2> HIDE DEF key
  <2>3. \A c \in cat.columns : Typed(key(c))
    BY <1>1, <2>2
  <2> QED BY <2>1, <2>3 DEF WellTyped
<1>5. CASE s.kind \in {"DROP COLUMN", "CREATE INDEX", "DROP INDEX", "DROP CONSTRAINT",
                       "ADD FOREIGN KEY"}
  <2>1. new.columns \subseteq cat.columns
    <3>1. CASE s.kind = "DROP COLUMN"
      <4>1. new.columns = {c \in cat.columns : c.table # s.table \/ c.name # s.name}
        BY <3>1, EffectParts, Zenon
      <4> HIDE DEF new
      <4> QED BY <4>1
    <3>2. CASE s.kind = "CREATE INDEX"
      BY <3>2, EffectParts
    <3>3. CASE s.kind = "DROP INDEX"
      BY <3>3, EffectParts
    <3>4. CASE s.kind = "DROP CONSTRAINT"
      BY <3>4, EffectParts
    <3>5. CASE s.kind = "ADD FOREIGN KEY"
      BY <3>5, EffectParts
    <3> QED BY <1>5, <3>1, <3>2, <3>3, <3>4, <3>5
  <2> QED BY <1>1, <2>1 DEF WellTyped
<1> QED BY <1>2, <1>3, <1>4, <1>5 DEF Statement

\* So does a log whose statements are legal where they stand.
LEMMA ReplayWellFormed ==
    ASSUME NEW log \in Seq(Executed), Len(log) <= MaxLog, NEW cat \in Catalog, NEW locks,
           Covered(log, locks, cat), WellNamed(cat), WellTyped(cat)
    PROVE  WellNamed(RunAll(log, cat)) /\ WellTyped(RunAll(log, cat))
<1> DEFINE n == Len(log)
           Fine(k) == WellNamed(Seen(k, log, cat)) /\ WellTyped(Seen(k, log, cat))
<1>1. n \in 0..4 /\ Seen(0, log, cat) = cat /\ Seen(n, log, cat) = RunAll(log, cat)
  BY SeenSteps
<1>2. Fine(0)
  BY <1>1
<1>3. ASSUME NEW k \in 1..n, Fine(k - 1) PROVE Fine(k)
  <2> DEFINE old == Seen(k - 1, log, cat)
  <2>1. k - 1 \in 0..n
    BY <1>1
  <2>2. old \in Catalog /\ log[k] \in Executed
    BY <2>1, SeenType, ElementOfSeq
  <2>3. Legal(log[k], old)
    BY DEF Covered, Seen
  <2>4. Seen(k, log, cat) = Effect(log[k], old)
    BY SeenSteps
  <2> QED BY <1>3, <2>2, <2>3, <2>4, EffectWellNamed, EffectWellTyped
<1> HIDE DEF Fine
<1>4. Fine(n)
  <2>1. 1 <= n => Fine(1)
    BY <1>1, <1>2, <1>3
  <2>2. 2 <= n => Fine(2)
    BY <1>1, <1>3, <2>1
  <2>3. 3 <= n => Fine(3)
    BY <1>1, <1>3, <2>2
  <2>4. 4 <= n => Fine(4)
    BY <1>1, <1>3, <2>3
  <2>5. n \in {0, 1, 2, 3, 4}
    BY <1>1, UpToFour
  <2> HIDE DEF n
  <2> QED BY <1>2, <2>1, <2>2, <2>3, <2>4, <2>5
<1> QED BY <1>1, <1>4 DEF Fine


(***************************************************************************)
(* What the driver's plans make of a catalog.                              *)
(***************************************************************************)
\* A plan's statements that add no key are run as they are.
LEMMA NamingIsItself ==
    ASSUME NEW s, ~ AddsKey(s)
    PROVE  Namings(s) = {s}
BY DEF Namings, AddsKey

\* A log with a statement more, or with none more.
LEMMA RunMore ==
    ASSUME NEW log \in Seq(Executed), NEW m \in 0..3, Len(log) <= m, NEW s \in Executed,
           NEW end, end \in {<<s>>, <<>>}, NEW cat
    PROVE  LET more == log \o end IN
           /\ more \in Seq(Executed) /\ Len(more) <= m + 1
           /\ Len(log) <= Len(more) /\ \A k \in 1..Len(log) : more[k] = log[k]
           /\ end = <<s>> => RunAll(more, cat) = Effect(s, RunAll(log, cat))
           /\ end = <<>> => RunAll(more, cat) = RunAll(log, cat)
<1> DEFINE n == Len(log)
<1>1. n \in Nat /\ n <= m
  BY LenProperties
<1>2. CASE end = <<s>>
  <2>1. log \o end = Append(log, s)
    BY <1>2
  <2>2. /\ Append(log, s) \in Seq(Executed) /\ Len(Append(log, s)) = n + 1
        /\ \A k \in 1..n : Append(log, s)[k] = log[k]
    BY AppendProperties
  <2>3. n + 1 <= m + 1 /\ n <= 3 /\ n <= n + 1
    <3> HIDE DEF n
    <3> QED BY <1>1
  <2>4. RunAll(Append(log, s), cat) = Effect(s, RunAll(log, cat))
    BY <2>3, RunAppend
  <2>5. end # <<>>
    BY <1>2
  <2> QED BY <2>1, <2>2, <2>3, <2>4, <2>5
<1>3. CASE end = <<>>
  <2>1. log \o end = log /\ end # <<s>>
    BY <1>3
  <2>2. n <= m + 1
    <3> HIDE DEF n
    <3> QED BY <1>1
  <2> QED BY <2>1, <2>2
<1> QED BY <1>2, <1>3

\* The column that AlterColumn alters, as it leaves it, and any other column.
Amended(c, r, info) ==
    IF c.table # TableParts(r.table) \/ c.name # r.previous THEN c
    ELSE [c EXCEPT !.name = r.name,
                   !.type = IF typeChanged(r, info) THEN FormatType[Trimmed[r.type]] ELSE @,
                   !.nullable = IF r.nullable # info.nullable THEN r.nullable ELSE @,
                   !.default = IF defaultChanged(r, info)
                               THEN Stored(OptionalDefault(r.default)) ELSE @]

\* AlterColumn's plan, where it is legal, amends that column and no other.
LEMMA AlterOutcome ==
    ASSUME NEW r \in Request, r.op = "AlterColumn", NEW info \in ColumnInfo,
           NEW cat \in Catalog, NEW locks, Covered(AlterStatements(r, info), locks, cat)
    PROVE  RunAll(AlterStatements(r, info), cat).columns
              = {Amended(c, r, info) : c \in cat.columns}
<1> DEFINE table == TableParts(r.table)
           s1 == [kind |-> "RENAME COLUMN", table |-> table, name |-> r.previous, to |-> r.name]
           s2 == [kind |-> "TYPE", table |-> table, name |-> r.name, type |-> Trimmed[r.type]]
           s3 == [kind |-> "NULLABILITY", table |-> table, name |-> r.name, nullable |-> r.nullable]
           s4 == [kind |-> "DEFAULT", table |-> table, name |-> r.name,
                  default |-> OptionalDefault(r.default)]
           p1 == r.name # r.previous
           p2 == typeChanged(r, info)
           p3 == r.nullable # info.nullable
           p4 == defaultChanged(r, info)
           e1 == When(p1, s1)
           e2 == When(p2, s2)
           e3 == When(p3, s3)
           e4 == When(p4, s4)
           l1 == <<>> \o e1
           l2 == l1 \o e2
           l3 == l2 \o e3
           l4 == l3 \o e4
           Run(l) == RunAll(l, cat)
           a1(c) == IF p1 THEN Altered(c, s1) ELSE c
           a2(c) == IF p2 THEN Altered(c, s2) ELSE c
           a3(c) == IF p3 THEN Altered(c, s3) ELSE c
           a4(c) == IF p4 THEN Altered(c, s4) ELSE c
<1>1. r \in ColumnChange
  BY DEF Request, ColumnChange, ColumnDef, NamedDrop, IndexChange, ForeignKeyChange
<1>2. /\ table \in Relation /\ Trimmed[r.type] \in Texts
      /\ OptionalDefault(r.default) \in Expression \cup {Nil}
  BY <1>1, TablePartsType, DefaultType, TextsAssumption DEF ColumnChange
<1>3. s1 \in Executed /\ s2 \in Executed /\ s3 \in Executed /\ s4 \in Executed
  <2>1. r.previous \in Texts /\ r.name \in Texts /\ r.nullable \in BOOLEAN
    BY <1>1 DEF ColumnChange
  <2> HIDE DEF table
  <2> QED BY <1>2, <2>1 DEF Executed, AddsKey, Statement
<1>4. /\ s1.kind = "RENAME COLUMN"
      /\ s2.kind \in {"TYPE", "NULLABILITY", "DEFAULT"}
      /\ s3.kind \in {"TYPE", "NULLABILITY", "DEFAULT"}
      /\ s4.kind \in {"TYPE", "NULLABILITY", "DEFAULT"}
  OBVIOUS
<1>5. AlterStatements(r, info) = l4
  <2>1. <<>> \o e1 = e1
    BY DEF When
  <2> QED BY <2>1 DEF AlterStatements
<1>6. /\ IF p1 THEN e1 = <<s1>> ELSE e1 = <<>>
      /\ IF p2 THEN e2 = <<s2>> ELSE e2 = <<>>
      /\ IF p3 THEN e3 = <<s3>> ELSE e3 = <<>>
      /\ IF p4 THEN e4 = <<s4>> ELSE e4 = <<>>
  <2>1. e1 = IF p1 THEN <<s1>> ELSE <<>>
    BY DEF When
  <2>2. e2 = IF p2 THEN <<s2>> ELSE <<>>
    BY DEF When
  <2>3. e3 = IF p3 THEN <<s3>> ELSE <<>>
    BY DEF When
  <2>4. e4 = IF p4 THEN <<s4>> ELSE <<>>
    BY DEF When
  <2> HIDE DEF s1, s2, s3, s4, p1, p2, p3, p4, e1, e2, e3, e4
  <2> QED BY <2>1, <2>2, <2>3, <2>4
<1>7. ASSUME NEW s \in Executed, NEW old \in Catalog,
             s.kind = "RENAME COLUMN" \/ s.kind \in {"TYPE", "NULLABILITY", "DEFAULT"}
      PROVE  Effect(s, old).columns = {Altered(c, s) : c \in old.columns}
  <2>1. CASE s.kind = "RENAME COLUMN"
    BY <2>1, EffectParts
  <2>2. CASE s.kind \in {"TYPE", "NULLABILITY", "DEFAULT"}
    BY <2>2, EffectParts
  <2> QED BY <1>7, <2>1, <2>2
<1>8. /\ l1 \in Seq(Executed) /\ l2 \in Seq(Executed) /\ l3 \in Seq(Executed)
      /\ l4 \in Seq(Executed) /\ (Len(l1) >= 1 => Len(l4) >= 1 /\ l4[1] = l1[1])
      /\ IF p1 THEN Run(l1) = Effect(s1, cat) ELSE Run(l1) = cat
      /\ IF p2 THEN Run(l2) = Effect(s2, Run(l1)) ELSE Run(l2) = Run(l1)
      /\ IF p3 THEN Run(l3) = Effect(s3, Run(l2)) ELSE Run(l3) = Run(l2)
      /\ IF p4 THEN Run(l4) = Effect(s4, Run(l3)) ELSE Run(l4) = Run(l3)
  <2> HIDE DEF s1, s2, s3, s4, p1, p2, p3, p4, e1, e2, e3, e4
  <2>1. /\ <<>> \in Seq(Executed) /\ Len(<<>>) <= 0
        /\ 0 \in 0..3 /\ 1 \in 0..3 /\ 2 \in 0..3 /\ 3 \in 0..3
        /\ e1 \in {<<s1>>, <<>>} /\ e2 \in {<<s2>>, <<>>}
        /\ e3 \in {<<s3>>, <<>>} /\ e4 \in {<<s4>>, <<>>}
    BY <1>6
  <2>2. RunAll(<<>>, cat) = cat
    BY <2>1, ShortLog
  <2>3. /\ l1 \in Seq(Executed) /\ Len(l1) <= 0 + 1
        /\ e1 = <<s1>> => Run(l1) = Effect(s1, cat)
        /\ e1 = <<>> => Run(l1) = cat
    <3> DEFINE l0 == <<>>
    <3>1. l0 \in Seq(Executed) /\ Len(l0) <= 0 /\ RunAll(l0, cat) = cat /\ l1 = l0 \o e1
      BY <2>1, <2>2
    <3> HIDE DEF l0, l1
    <3>2. /\ l0 \o e1 \in Seq(Executed) /\ Len(l0 \o e1) <= 0 + 1
          /\ e1 = <<s1>> => Run(l0 \o e1) = Effect(s1, RunAll(l0, cat))
          /\ e1 = <<>> => Run(l0 \o e1) = RunAll(l0, cat)
      BY <1>3, <2>1, <3>1, RunMore
    <3> QED BY <3>1, <3>2
  <2>4. Len(l1) <= 1
    BY <2>3
  <2> HIDE DEF l1
  <2>5. /\ l2 \in Seq(Executed) /\ Len(l2) <= 1 + 1
        /\ Len(l1) <= Len(l2) /\ \A k \in 1..Len(l1) : l2[k] = l1[k]
        /\ e2 = <<s2>> => Run(l2) = Effect(s2, Run(l1))
        /\ e2 = <<>> => Run(l2) = Run(l1)
    BY <1>3, <2>1, <2>3, <2>4, RunMore
  <2>6. Len(l2) <= 2
    BY <2>5
  <2> HIDE DEF l2
  <2>7. /\ l3 \in Seq(Executed) /\ Len(l3) <= 2 + 1
        /\ Len(l2) <= Len(l3) /\ \A k \in 1..Len(l2) : l3[k] = l2[k]
        /\ e3 = <<s3>> => Run(l3) = Effect(s3, Run(l2))
        /\ e3 = <<>> => Run(l3) = Run(l2)
    BY <1>3, <2>1, <2>5, <2>6, RunMore
  <2>8. Len(l3) <= 3
    BY <2>7
  <2> HIDE DEF l3
  <2>9. /\ l4 \in Seq(Executed)
        /\ Len(l3) <= Len(l4) /\ \A k \in 1..Len(l3) : l4[k] = l3[k]
        /\ e4 = <<s4>> => Run(l4) = Effect(s4, Run(l3))
        /\ e4 = <<>> => Run(l4) = Run(l3)
    BY <1>3, <2>1, <2>7, <2>8, RunMore
  <2> HIDE DEF l4
  <2>10. Len(l1) >= 1 => Len(l4) >= 1 /\ l4[1] = l1[1]
    <3>1. Len(l1) \in Nat /\ Len(l2) \in Nat /\ Len(l3) \in Nat /\ Len(l4) \in Nat
      BY <2>3, <2>5, <2>7, <2>9, LenProperties
    <3> QED BY <2>5, <2>7, <2>9, <3>1
  <2> QED BY <1>6, <2>2, <2>3, <2>5, <2>7, <2>9, <2>10
<1>9. Run(l1) \in Catalog /\ Run(l2) \in Catalog /\ Run(l3) \in Catalog
  BY <1>8, RunAllType
<1>10. Run(l4).columns = {a4(a3(a2(a1(c)))) : c \in cat.columns}
  <2> DEFINE k1 == Run(l1)
             k2 == Run(l2)
             k3 == Run(l3)
             k4 == Run(l4)
  <2>1. /\ k1 \in Catalog /\ k2 \in Catalog /\ k3 \in Catalog
        /\ IF p1 THEN k1 = Effect(s1, cat) ELSE k1 = cat
        /\ IF p2 THEN k2 = Effect(s2, k1) ELSE k2 = k1
        /\ IF p3 THEN k3 = Effect(s3, k2) ELSE k3 = k2
        /\ IF p4 THEN k4 = Effect(s4, k3) ELSE k4 = k3
    BY <1>8, <1>9, Zenon
  <2> HIDE DEF s1, s2, s3, s4, p1, p2, p3, p4, k1, k2, k3, k4
  <2>2. /\ IF p1 THEN k1.columns = {Altered(c, s1) : c \in cat.columns} ELSE k1 = cat
        /\ IF p2 THEN k2.columns = {Altered(c, s2) : c \in k1.columns} ELSE k2 = k1
        /\ IF p3 THEN k3.columns = {Altered(c, s3) : c \in k2.columns} ELSE k3 = k2
        /\ IF p4 THEN k4.columns = {Altered(c, s4) : c \in k3.columns} ELSE k4 = k3
    BY <1>3, <1>4, <1>7, <2>1, Zenon
  <2>3. k1.columns = {a1(c) : c \in cat.columns}
    BY <2>2
  <2>4. k2.columns = {a2(c) : c \in k1.columns}
    BY <2>2
  <2>5. k3.columns = {a3(c) : c \in k2.columns}
    BY <2>2
  <2>6. k4.columns = {a4(c) : c \in k3.columns}
    BY <2>2
  <2> HIDE DEF a1, a2, a3, a4
  <2>7. k2.columns = {a2(a1(c)) : c \in cat.columns}
    BY <2>3, <2>4
  <2>8. k3.columns = {a3(a2(a1(c))) : c \in cat.columns}
    BY <2>5, <2>7
  <2>9. k4.columns = {a4(a3(a2(a1(c)))) : c \in cat.columns}
    BY <2>6, <2>8
  <2> QED BY <2>9 DEF k4
<1>11. ASSUME NEW c \in cat.columns
       PROVE  a4(a3(a2(a1(c)))) = Amended(c, r, info)
  <2>1. c \in Column
    BY DEF Catalog
  <2>2. p1 => ~ (c.table = table /\ c.name = r.name)
    <3>1. SUFFICES ASSUME p1 PROVE ~ (c.table = table /\ c.name = r.name)
      OBVIOUS
    <3>2. l1 = <<s1>>
      <4>1. e1 = <<s1>>
        BY <1>6, <3>1
      <4> HIDE DEF e1, s1
      <4> QED BY <4>1
    <3>3. Len(l4) \in Nat /\ Len(l4) >= 1 /\ l4[1] = s1
      <4> HIDE DEF s1, l1, l4
      <4>1. Len(l1) = 1 /\ l1[1] = s1
        BY <3>2
      <4> QED BY <1>8, <4>1, LenProperties
    <3> HIDE DEF l4, l1
    <3>4. SubSeq(l4, 1, 0) = <<>> /\ RunAll(<<>>, cat) = cat
      <4>1. SubSeq(l4, 1, 0) = <<>>
        BY SubSeqEmpty
      <4>2. <<>> \in Seq(Executed)
        OBVIOUS
      <4> QED BY <4>1, <4>2, ShortLog
    <3>5. 1 \in 1..Len(l4) /\ 1 - 1 = 0
      <4> DEFINE n == Len(l4)
      <4> HIDE DEF n
      <4>1. n \in Nat /\ n >= 1
        BY <3>3 DEF n
      <4>2. 1 \in 1..n /\ 1 - 1 = 0
        BY <4>1
      <4> QED BY <4>2 DEF n
    <3>6. Legal(s1, cat)
      BY <1>5, <3>3, <3>4, <3>5 DEF Covered
    <3> QED BY <3>6 DEF Legal, HasColumn
  <2>3. CASE c.table = table /\ c.name = r.previous
    <3> DEFINE c1 == [c EXCEPT !.name = r.name]
               c2 == [c1 EXCEPT !.type = IF p2 THEN FormatType[Trimmed[r.type]] ELSE @]
               c3 == [c2 EXCEPT !.nullable = IF p3 THEN r.nullable ELSE @]
               c4 == [c3 EXCEPT !.default = IF p4 THEN Stored(OptionalDefault(r.default)) ELSE @]
    <3>1. c1 = a1(c) /\ c1.table = table /\ c1.name = r.name
      BY <2>1, <2>3 DEF Altered, Column
    <3>2. c2 = a2(c1) /\ c2.table = table /\ c2.name = r.name
      BY <2>1, <3>1 DEF Altered, Column
    <3>3. c3 = a3(c2) /\ c3.table = table /\ c3.name = r.name
      BY <2>1, <3>2 DEF Altered, Column
    <3>4. c4 = a4(c3)
      BY <2>1, <3>3 DEF Altered, Column
    <3>5. c4 = Amended(c, r, info)
      BY <2>1, <2>3 DEF Amended, Column
    <3> HIDE DEF a1, a2, a3, a4, c1, c2, c3, c4
    <3> QED BY <3>1, <3>2, <3>3, <3>4, <3>5
  <2>4. CASE ~ (c.table = table /\ c.name = r.previous)
    <3>1. a1(c) = c
      BY <2>4 DEF Altered
    <3>2. ~ (c.table = table /\ c.name = r.name)
      BY <2>2, <2>4
    <3>3. a2(c) = c /\ a3(c) = c /\ a4(c) = c
      BY <3>2 DEF Altered
    <3>4. Amended(c, r, info) = c
      BY <2>4 DEF Amended
    <3> QED BY <3>1, <3>3, <3>4
  <2> QED BY <2>3, <2>4
<1> HIDE DEF s1, s2, s3, s4, p1, p2, p3, p4, l1, l2, l3, l4, a1, a2, a3, a4
<1> QED BY <1>5, <1>10, <1>11

\* A drop takes away at most one index, the one it names, and at most one
\* foreign key.
LEMMA DropTakesOne ==
    ASSUME NEW cat \in Catalog, WellNamed(cat), NEW table \in TableText, NEW name \in Texts,
           NEW s, s \in {DropIndexStatement(table, name), DropConstraintStatement(table, name)}
    PROVE  LET new == Effect(s, cat) IN
           /\ new.indexes \subseteq cat.indexes /\ new.fks \subseteq cat.fks
           /\ \A i \in cat.indexes \ new.indexes :
                 /\ i.name = name /\ Schema(i.table) = Schema(TableParts(table))
                 /\ name \in PkeyTexts => i.table = TableParts(table)
           /\ \A i, j \in cat.indexes \ new.indexes : i = j
           /\ \A k, l \in cat.fks \ new.fks : k = l
<1> DEFINE new == Effect(s, cat)
<1>1. \/ s.kind = "DROP CONSTRAINT" /\ s.table = TableParts(table) /\ s.name = name
      \/ /\ s.kind = "DROP INDEX" /\ s.index = <<Schema(TableParts(table)), name>>
         /\ name \notin PkeyTexts
  <2>1. CASE s = DropConstraintStatement(table, name)
    BY <2>1 DEF DropConstraintStatement
  <2>2. CASE s = DropIndexStatement(table, name)
    <3>1. CASE name \in PkeyTexts
      BY <2>2, <3>1 DEF DropIndexStatement, DropConstraintStatement
    <3>2. CASE name \notin PkeyTexts
      BY <2>2, <3>2 DEF DropIndexStatement
    <3> QED BY <3>1, <3>2
  <2> QED BY <2>1, <2>2
<1>2. s \in Executed
  <2>1. s \in Planned
    BY ConstraintStatementType
  <2>2. ~ AddsKey(s)
    BY <1>1 DEF AddsKey
  <2> QED BY <2>1, <2>2 DEF Planned, Executed
<1>3. CASE s.kind = "DROP CONSTRAINT"
  <2>1. s.table = TableParts(table) /\ s.name = name
    BY <1>1, <1>3
  <2>2. new.indexes = cat.indexes \ NamedPrimary(cat, s) /\ new.fks = cat.fks \ NamedForeign(cat, s)
    BY <1>2, <1>3, EffectParts, Zenon
  <2> HIDE DEF new
  <2>3. /\ \A i \in cat.indexes \ new.indexes : i.table = s.table /\ i.name = s.name
        /\ \A k \in cat.fks \ new.fks : k.table = s.table /\ k.name = s.name
        /\ new.indexes \subseteq cat.indexes /\ new.fks \subseteq cat.fks
    BY <2>2 DEF NamedPrimary, NamedForeign
  <2> QED BY <2>1, <2>3 DEF WellNamed, new
<1>4. CASE s.kind = "DROP INDEX"
  <2>1. s.index = <<Schema(TableParts(table)), name>> /\ name \notin PkeyTexts
    BY <1>1, <1>4
  <2>2. new.indexes = cat.indexes \ NamedIndexes(cat, s.index) /\ new.fks = cat.fks
    BY <1>2, <1>4, EffectParts, Zenon
  <2> HIDE DEF new
  <2>3. /\ \A i \in cat.indexes \ new.indexes :
              i.name = name /\ Schema(i.table) = Schema(TableParts(table))
        /\ new.indexes \subseteq cat.indexes /\ new.fks = cat.fks
    BY <2>1, <2>2 DEF NamedIndexes
  <2> QED BY <2>1, <2>3 DEF WellNamed, new
<1> QED BY <1>1, <1>3, <1>4

\* Creating an index adds one that was not there, and nothing else.
LEMMA IndexIsNew ==
    ASSUME NEW cat \in Catalog, NEW r, NEW s \in Executed, Legal(s, cat),
           s \in Namings(CreateIndexStatement(r))
    PROVE  \E i : /\ i \notin cat.indexes
                  /\ Effect(s, cat).indexes = cat.indexes \cup {i}
                  /\ Effect(s, cat).fks = cat.fks
<1> DEFINE new == Effect(s, cat)
           index(u, p) == [table |-> s.table, name |-> s.name, columns |-> s.columns,
                           unique |-> u, primary |-> p]
<1>1. s.kind \in {"CREATE INDEX", "ADD PRIMARY KEY"}
  <2> DEFINE sent == CreateIndexStatement(r)
  <2>1. CASE sent.kind = "ADD PRIMARY KEY"
    <3>1. \E k : s = [sent EXCEPT !.name = PrimaryKeyNames(sent.table)[k]]
      BY <2>1, Zenon DEF Namings
    <3> QED BY <2>1, <3>1 DEF CreateIndexStatement
  <2>2. CASE sent.kind = "CREATE INDEX"
    BY <2>2 DEF Namings
  <2>3. sent.kind \in {"CREATE INDEX", "ADD PRIMARY KEY"}
    BY DEF CreateIndexStatement
  <2> QED BY <2>1, <2>2, <2>3
<1>2. \E u, p : new.indexes = cat.indexes \cup {index(u, p)} /\ new.fks = cat.fks
  <2>1. CASE s.kind = "CREATE INDEX"
    <3>1. new.indexes = cat.indexes \cup {index(s.unique, FALSE)} /\ new.fks = cat.fks
      BY <2>1, EffectParts
    <3> QED BY <3>1, Zenon
  <2>2. CASE s.kind = "ADD PRIMARY KEY"
    <3>1. new.indexes = cat.indexes \cup {index(TRUE, TRUE)} /\ new.fks = cat.fks
      BY <2>2, EffectParts
    <3> QED BY <3>1, Zenon
  <2> QED BY <1>1, <2>1, <2>2
<1>3. PICK u, p : new.indexes = cat.indexes \cup {index(u, p)} /\ new.fks = cat.fks
  BY <1>2, Zenon
<1>4. index(u, p).table = s.table /\ index(u, p).name = s.name
  OBVIOUS
<1>5. ~ RelationTaken(cat, Schema(s.table), s.name)
  <2>1. CASE s.kind = "CREATE INDEX"
    BY <2>1 DEF Legal
  <2>2. CASE s.kind = "ADD PRIMARY KEY"
    BY <2>2 DEF Legal
  <2> QED BY <1>1, <2>1, <2>2
<1> HIDE DEF index
<1>6. index(u, p) \notin cat.indexes
  BY <1>4, <1>5 DEF RelationTaken
<1> QED BY <1>3, <1>6, Zenon

\* So does creating a foreign key.
LEMMA KeyIsNew ==
    ASSUME NEW cat \in Catalog, NEW r, NEW s \in Executed, Legal(s, cat),
           s \in Namings(ForeignKeyStatement(r))
    PROVE  \E k : /\ k \notin cat.fks
                  /\ Effect(s, cat).fks = cat.fks \cup {k}
                  /\ Effect(s, cat).indexes = cat.indexes
<1> DEFINE new == Effect(s, cat)
           key(i) == [table |-> s.table, name |-> s.name, columns |-> s.columns, ref |-> s.ref,
                      refColumns |-> s.refColumns, index |-> i.name]
<1>1. s.kind = "ADD FOREIGN KEY"
  BY DEF ForeignKeyStatement, Namings
<1>2. new.fks = cat.fks \cup {key(i) : i \in Support(cat, s)} /\ new.indexes = cat.indexes
  BY <1>1, EffectParts
<1>3. NamedForeign(cat, s) = {} /\ Support(cat, s) # {}
  BY <1>1 DEF Legal
<1>4. \A i : key(i).table = s.table /\ key(i).name = s.name
  OBVIOUS
<1> HIDE DEF key, new
<1>5. PICK i : i \in Support(cat, s)
  BY <1>3
<1>6. {key(j) : j \in Support(cat, s)} = {key(i)}
  BY <1>5, SupportIsOne
<1>7. key(i) \notin cat.fks
  BY <1>3, <1>4 DEF NamedForeign
<1> QED BY <1>2, <1>6, <1>7 DEF new

\* A drop and a create, in one transaction.
LEMMA DropThenCreate ==
    ASSUME NEW drop, NEW create, ~ AddsKey(drop),
           NEW log \in Seq(Executed), Len(log) = 2, NEW cat \in Catalog, NEW locks,
           Covered(log, locks, cat),
           log[1] \in Namings(drop), log[2] \in Namings(create)
    PROVE  LET mid == Effect(drop, cat) IN
           /\ mid \in Catalog /\ log[2] \in Executed /\ Legal(log[2], mid)
           /\ RunAll(log, cat) = Effect(log[2], mid)
<1>1. log[1] = drop
  BY NamingIsItself
<1>2. log[1] \in Executed /\ log[2] \in Executed /\ 2 \in 1..Len(log) /\ 2 - 1 = 1
  <2>1. 1 \in 1..Len(log) /\ 2 \in 1..Len(log)
    OBVIOUS
  <2>2. log[1] \in Executed /\ log[2] \in Executed
    BY <2>1
  <2> QED BY <2>1, <2>2
<1>3. RunAll(log, cat) = Effect(log[2], Effect(drop, cat))
  BY <1>1, ShortLog
<1>4. Effect(drop, cat) \in Catalog
  BY <1>1, <1>2, EffectType DEF Executed
<1>5. RunAll(SubSeq(log, 1, 1), cat) = Effect(drop, cat)
  <2>1. /\ SubSeq(log, 1, 1) \in Seq(Executed) /\ Len(SubSeq(log, 1, 1)) = 1
        /\ SubSeq(log, 1, 1)[1] = log[1]
    BY <1>2
  <2> DEFINE part == SubSeq(log, 1, 1)
  <2>2. Len(part) = 1 => RunAll(part, cat) = Effect(part[1], cat)
    BY <2>1, ShortLog
  <2> HIDE DEF part
  <2> QED BY <1>1, <2>1, <2>2 DEF part
<1>6. Legal(log[2], RunAll(SubSeq(log, 1, 1), cat))
  BY <1>2 DEF Covered
<1> QED BY <1>2, <1>3, <1>4, <1>5, <1>6

\* Replacing an index takes away at most the one it names, and leaves the
\* indexes as they were or adds one.
LEMMA IndexReplaced ==
    ASSUME NEW r \in Request, r.op = "ReplaceIndex", NEW cat \in Catalog, WellNamed(cat),
           NEW log \in Seq(Executed), Len(log) = 2, NEW locks, Covered(log, locks, cat),
           log[1] \in Namings(DropIndexStatement(r.table, r.previous)),
           log[2] \in Namings(CreateIndexStatement(r))
    PROVE  LET new == RunAll(log, cat) IN
           /\ \A i \in cat.indexes \ new.indexes :
                 /\ i.name = r.previous /\ Schema(i.table) = Schema(TableParts(r.table))
                 /\ r.previous \in PkeyTexts => i.table = TableParts(r.table)
           /\ new.indexes # cat.indexes => new.indexes \ cat.indexes # {}
<1> DEFINE drop == DropIndexStatement(r.table, r.previous)
           mid == Effect(drop, cat)
           new == RunAll(log, cat)
<1>1. r \in IndexChange /\ r.table \in TableText /\ r.previous \in Texts
  BY DEF Request, ColumnChange, ColumnDef, NamedDrop, IndexChange, ForeignKeyChange
<1>2. ~ AddsKey(drop)
  BY Zenon DEF AddsKey, DropIndexStatement, DropConstraintStatement
<1>3. /\ mid \in Catalog /\ log[2] \in Executed /\ Legal(log[2], mid)
      /\ new = Effect(log[2], mid)
  BY <1>2, DropThenCreate
<1>4. PICK x : x \notin mid.indexes /\ new.indexes = mid.indexes \cup {x}
  BY <1>3, IndexIsNew
<1>5. /\ mid.indexes \subseteq cat.indexes
      /\ \A i \in cat.indexes \ mid.indexes :
            /\ i.name = r.previous /\ Schema(i.table) = Schema(TableParts(r.table))
            /\ r.previous \in PkeyTexts => i.table = TableParts(r.table)
      /\ \A i, j \in cat.indexes \ mid.indexes : i = j
  BY <1>1, DropTakesOne
<1> HIDE DEF new, mid
<1>6. new.indexes # cat.indexes => new.indexes \ cat.indexes # {}
  BY <1>4, <1>5
<1> QED BY <1>4, <1>5, <1>6 DEF new

\* Replacing a foreign key leaves the foreign keys as they were or adds one.
LEMMA KeyReplaced ==
    ASSUME NEW r \in Request, r.op = "ReplaceForeignKey", NEW cat \in Catalog, WellNamed(cat),
           NEW log \in Seq(Executed), Len(log) = 2, NEW locks, Covered(log, locks, cat),
           log[1] \in Namings(DropConstraintStatement(r.table, r.previous)),
           log[2] \in Namings(ForeignKeyStatement(r))
    PROVE  LET new == RunAll(log, cat) IN
           new.fks # cat.fks => new.fks \ cat.fks # {}
<1> DEFINE drop == DropConstraintStatement(r.table, r.previous)
           mid == Effect(drop, cat)
           new == RunAll(log, cat)
<1>1. r.table \in TableText /\ r.previous \in Texts
  BY DEF Request, ColumnChange, ColumnDef, NamedDrop, IndexChange, ForeignKeyChange
<1>2. ~ AddsKey(drop)
  BY Zenon DEF AddsKey, DropConstraintStatement
<1>3. /\ mid \in Catalog /\ log[2] \in Executed /\ Legal(log[2], mid)
      /\ new = Effect(log[2], mid)
  BY <1>2, DropThenCreate
<1>4. PICK added : added \notin mid.fks /\ new.fks = mid.fks \cup {added}
  BY <1>3, KeyIsNew
<1>5. mid.fks \subseteq cat.fks /\ \A k, l \in cat.fks \ mid.fks : k = l
  BY <1>1, DropTakesOne
<1> HIDE DEF new, mid
<1>6. new.fks # cat.fks => new.fks \ cat.fks # {}
  BY <1>4, <1>5
<1> QED BY <1>6 DEF new

\* AlterColumn adds no key, so it runs what it planned.
LEMMA AlterRunsItsPlan ==
    ASSUME NEW r \in Request, r.op = "AlterColumn", NEW info \in ColumnInfo,
           NEW log \in Seq(Executed), Len(log) = Len(AlterStatements(r, info)),
           \A j \in 1..Len(AlterStatements(r, info)) : log[j] \in Namings(AlterStatements(r, info)[j])
    PROVE  log = AlterStatements(r, info)
<1> DEFINE Keyless == {s \in Planned : ~ AddsKey(s)}
           table == TableParts(r.table)
           s1 == [kind |-> "RENAME COLUMN", table |-> table, name |-> r.previous, to |-> r.name]
           s2 == [kind |-> "TYPE", table |-> table, name |-> r.name, type |-> Trimmed[r.type]]
           s3 == [kind |-> "NULLABILITY", table |-> table, name |-> r.name, nullable |-> r.nullable]
           s4 == [kind |-> "DEFAULT", table |-> table, name |-> r.name,
                  default |-> OptionalDefault(r.default)]
           e1 == When(r.name # r.previous, s1)
           e2 == When(typeChanged(r, info), s2)
           e3 == When(r.nullable # info.nullable, s3)
           e4 == When(defaultChanged(r, info), s4)
           plan == AlterStatements(r, info)
<1>1. r \in ColumnChange
  BY DEF Request, ColumnChange, ColumnDef, NamedDrop, IndexChange, ForeignKeyChange
<1>2. /\ table \in Relation /\ Trimmed[r.type] \in Texts
      /\ OptionalDefault(r.default) \in Expression \cup {Nil}
  BY <1>1, TablePartsType, DefaultType, TextsAssumption DEF ColumnChange
<1>3. s1 \in Keyless /\ s2 \in Keyless /\ s3 \in Keyless /\ s4 \in Keyless
  <2>1. r.previous \in Texts /\ r.name \in Texts /\ r.nullable \in BOOLEAN
    BY <1>1 DEF ColumnChange
  <2> HIDE DEF table
  <2> QED BY <1>2, <2>1 DEF Planned, AddsKey, Statement
<1>4. e1 \in Seq(Keyless) /\ e2 \in Seq(Keyless) /\ e3 \in Seq(Keyless) /\ e4 \in Seq(Keyless)
  <2> HIDE DEF Keyless, s1, s2, s3, s4
  <2> QED BY <1>3 DEF When
<1>5. plan = e1 \o e2 \o e3 \o e4
  BY DEF AlterStatements
<1> HIDE DEF e1, e2, e3, e4
<1>6. plan \in Seq(Keyless)
  <2> HIDE DEF Keyless
  <2> QED BY <1>4, <1>5
<1> HIDE DEF plan
<1>7. ASSUME NEW j \in 1..Len(plan) PROVE log[j] = plan[j]
  <2>1. plan[j] \in Keyless
    <3> HIDE DEF Keyless
    <3> QED BY <1>6
  <2>2. log[j] \in Namings(plan[j])
    BY DEF plan
  <2> QED BY <2>1, <2>2, NamingIsItself
<1>8. plan \in Seq(Planned \cup Executed) /\ log \in Seq(Planned \cup Executed)
  <2>1. plan \in Seq(Planned)
    BY AlterStatementsType DEF plan
  <2> QED BY <2>1
<1>9. Len(log) = Len(plan)
  BY DEF plan
<1>10. log = plan
  BY <1>7, <1>8, <1>9, SeqEqual
<1> QED BY <1>10 DEF plan

(***************************************************************************)
(* The inductive invariant.                                                *)
(***************************************************************************)

USE CallsAssumption

CallInv(c) == NothingYet(c) /\ PlanFits(c) /\ SessionFits(c) /\ AnswerFits(c)

\* A request is planned as a sequence of one or two statements, one if it uses
\* no transaction.
LEMMA AcceptedPlan ==
    ASSUME NEW r \in Request, r.op # "AlterColumn"
    PROVE  /\ PlanOf(r) \in Seq(Planned)
           /\ Len(PlanOf(r)) > 0 /\ Len(PlanOf(r)) <= MaxLog
           /\ ~ UsesTx(r) => Len(PlanOf(r)) <= 1
<1> DEFINE n == Len(PlanOf(r))
<1>1. PlanOf(r) \in Seq(Planned) /\ n = IF UsesTx(r) THEN 2 ELSE 1
  BY PlanOfType
<1> HIDE DEF n
<1>2. n > 0 /\ n <= MaxLog /\ (~ UsesTx(r) => n <= 1)
  BY <1>1 DEF MaxLog
<1> QED BY <1>1, <1>2 DEF n

\* A call starts with an empty plan and no session.
LEMMA InitInv == Init => IInv
<1> SUFFICES ASSUME Init PROVE IInv
  OBVIOUS
<1>1. Idle \in CallState
  BY DEF Idle, CallState
<1>2. NoSession \in SessionState
  BY DEF NoSession, SessionState, MaxLog
<1>3. TypeOK
  BY <1>1, <1>2 DEF Init, TypeOK
<1>4. ASSUME NEW c \in Calls PROVE CallInv(c)
  <2>1. call[c] = Idle /\ session[c] = NoSession /\ applied[c] = 0 /\ Log(c) = <<>> /\ Len(Log(c)) = 0
    BY DEF Init, NoSession, Log
  <2>2. \A k \in 1..Len(Log(c)) : FALSE
    BY <2>1
  <2> QED BY <2>1, <2>2, AnswersAssumption DEF CallInv, Idle, NoSession, NothingYet, PlanFits,
             SessionFits, AnswerFits, At, Running, Answers, MaxLog
<1> QED BY <1>3, <1>4 DEF IInv, CallInv

(***************************************************************************)
(* Every step keeps the types.                                             *)
(***************************************************************************)
\* What the actions make of a call's record is such a record.
LEMMA CallStateType ==
    ASSUME NEW k \in CallState
    PROVE  /\ \A pc \in {"begin", "send", "wait", "done"} : [k EXCEPT !.pc = pc] \in CallState
           /\ \A a \in Answers : [k EXCEPT !.pc = "done", !.answer = a] \in CallState
           /\ \A r \in Request, a \in Answers :
                [k EXCEPT !.pc = "done", !.request = r, !.answer = a] \in CallState
           /\ \A r \in Request, pc \in {"read", "begin", "send"}, plan \in Seq(Planned) :
                [k EXCEPT !.request = r, !.pc = pc, !.plan = plan] \in CallState
           /\ \A info \in ColumnInfo, plan \in Seq(Planned) :
                [k EXCEPT !.pc = "begin", !.info = info, !.plan = plan] \in CallState
BY DEF CallState

\* What the actions make of a session's record is such a record.
LEMMA SessionStateType ==
    ASSUME NEW s \in SessionState,
           NEW wire \in {"idle", "running", "committing", "ok", "refused", "committed"}
    PROVE  /\ NoSession \in SessionState
           /\ [NoSession EXCEPT !.state = "held"] \in SessionState
           /\ [s EXCEPT !.state = "orphan"] \in SessionState
           /\ [s EXCEPT !.wire = wire] \in SessionState
           /\ [s EXCEPT !.state = "held", !.wire = wire] \in SessionState
           /\ [s EXCEPT !.wire = wire, !.locks = {}] \in SessionState
           /\ [s EXCEPT !.wire = wire, !.log = <<>>, !.locks = {}] \in SessionState
           /\ \A log \in Seq(Executed) : [s EXCEPT !.wire = wire, !.log = log] \in SessionState
           /\ \A locks \in SUBSET Lock : [s EXCEPT !.locks = locks] \in SessionState
<1>1. NoSession \in SessionState
  BY DEF NoSession, SessionState
<1>2. <<>> \in Seq(Executed)
  OBVIOUS
<1> HIDE DEF NoSession
<1> QED BY <1>1, <1>2 DEF SessionState

\* The statement that a call has sent is its plan's, what it runs is executed,
\* and what it locks are locks.
LEMMA SentType ==
    ASSUME TypeOK, NEW c \in Calls, SessionFits(c)
    PROVE  /\ Log(c) \in Seq(Executed) /\ View(c) \in Catalog
           /\ Running(c) => /\ Sent(c) \in Planned
                            /\ Needed(c) \in SUBSET Lock
           /\ CanRun(c) => /\ Ran(c) \in Namings(Sent(c))
                           /\ Ran(c) \in Executed
<1> DEFINE plan == call[c].plan
<1>1. plan \in Seq(Planned) /\ Log(c) \in Seq(Executed) /\ catalog \in Catalog
  BY DEF TypeOK, CallState, SessionState, Log
<1>2. View(c) \in Catalog
  BY <1>1, RunAllType DEF View
<1>3. ASSUME Running(c) PROVE Sent(c) \in Planned
  <2>1. Len(Log(c)) \in Nat /\ Len(plan) \in Nat /\ Len(Log(c)) < Len(plan)
    BY <1>1, <1>3 DEF Running, SessionFits
  <2>2. Len(Log(c)) + 1 \in 1..Len(plan)
    BY <2>1
  <2> QED BY <1>1, <2>2 DEF Sent
<1>4. ASSUME Running(c) PROVE Needed(c) \in SUBSET Lock
  <2>1. Sent(c) \in Statement
    BY <1>3, <1>4 DEF Planned
  <2> QED BY <1>2, <2>1, LocksType DEF Needed
<1>5. ASSUME CanRun(c) PROVE Ran(c) \in Namings(Sent(c)) /\ Ran(c) \in Executed
  <2>1. Sent(c) \in Planned /\ Legal(Sent(c), View(c))
    BY <1>3, <1>5 DEF CanRun
  <2>2. AddsKey(Sent(c)) => KeyName(Sent(c), View(c)) # Nil
    BY <2>1 DEF AddsKey, Legal
  <2> QED BY <2>1, <2>2, NamedType DEF Ran
<1> QED BY <1>1, <1>2, <1>3, <1>4, <1>5

\* The catalog's type survives every commit; the rest is bookkeeping.
LEMMA TypeStep == IInv /\ [Next]_vars => TypeOK'
<1> SUFFICES ASSUME IInv, [Next]_vars PROVE TypeOK'
  OBVIOUS
<1>1. CASE UNCHANGED vars
  BY <1>1 DEF IInv, TypeOK, vars
<1>2. ASSUME NEW c \in Calls,
             (\E r \in Requests : Reject(c, r) \/ Accept(c, r))
               \/ Handler(c) \/ Failure(c) \/ Server(c)
      PROVE  TypeOK'
  <2>1. /\ TypeOK
        /\ catalog \in Catalog /\ call \in [Calls -> CallState]
        /\ session \in [Calls -> SessionState] /\ applied \in [Calls -> Nat]
        /\ call[c] \in CallState /\ session[c] \in SessionState
    BY DEF IInv, TypeOK
  <2>2. PlanFits(c) /\ SessionFits(c)
    BY DEF IInv
  <2>3. \A a \in Answers : Answer(c, a) => call' \in [Calls -> CallState]
    BY <2>1, CallStateType DEF Answer
  <2>4. \A pc \in {"send", "wait"} : Goto(c, pc) => call' \in [Calls -> CallState]
    BY <2>1, CallStateType DEF Goto
  <2>5. \A new \in SessionState : Connection(c, new) => session' \in [Calls -> SessionState]
    BY <2>1 DEF Connection
  <2>6. Rollback(c) => session' \in [Calls -> SessionState]
    BY <2>1, <2>5, SessionStateType DEF Rollback
  <2>7. \A log \in Seq(Executed) : Commit(c, log) =>
          /\ catalog' \in Catalog /\ session' \in [Calls -> SessionState]
          /\ applied' \in [Calls -> Nat]
    <3>1. TAKE log \in Seq(Executed)
    <3>2. SUFFICES ASSUME Commit(c, log)
                   PROVE  /\ catalog' \in Catalog /\ session' \in [Calls -> SessionState]
                          /\ applied' \in [Calls -> Nat]
      OBVIOUS
    <3>3. catalog' \in Catalog
      BY <2>1, <3>2, RunAllType DEF Commit
    <3>4. [session[c] EXCEPT !.wire = "committed", !.locks = {}] \in SessionState
      BY <2>1, SessionStateType
    <3>5. session' \in [Calls -> SessionState]
      BY <2>5, <3>2, <3>4 DEF Commit
    <3>6. applied' \in [Calls -> Nat]
      BY <2>1, <3>2 DEF Commit
    <3> QED BY <3>3, <3>5, <3>6
  <2>8. \A a \in {"ok", "validation", "connection", "failed", "lost"} : a \in Answers
    BY DEF Answers
  <2>9. CASE \E r \in Requests : Reject(c, r) \/ Accept(c, r)
    <3>1. PICK r \in Requests : Reject(c, r) \/ Accept(c, r)
      BY <2>9
    <3>2. r \in Request /\ UNCHANGED <<catalog, session, applied>>
      BY <3>1 DEF Reject, Accept
    <3>3. CASE Reject(c, r)
      BY <2>1, <2>8, <3>2, <3>3, CallStateType DEF Reject, TypeOK
    <3>4. CASE Accept(c, r)
      <4> DEFINE pc == IF r.op = "AlterColumn" THEN "read" ELSE IF UsesTx(r) THEN "begin" ELSE "send"
                 plan == IF r.op = "AlterColumn" THEN <<>> ELSE PlanOf(r)
      <4>1. pc \in {"read", "begin", "send"} /\ plan \in Seq(Planned)
        BY <3>2, AcceptedPlan
      <4>2. call' = [call EXCEPT ![c] = [call[c] EXCEPT !.request = r, !.pc = pc, !.plan = plan]]
        BY <3>4 DEF Accept
      <4> HIDE DEF pc, plan
      <4>3. call' \in [Calls -> CallState]
        BY <2>1, <3>2, <4>1, <4>2, CallStateType
      <4> QED BY <2>1, <3>2, <4>3 DEF TypeOK
    <3> QED BY <3>1, <3>3, <3>4
  <2>10. CASE PlanAlteration(c)
    <3>1. PICK info \in CurrentInfo(catalog, call[c].request) :
            call' = [call EXCEPT ![c] = [@ EXCEPT
                !.pc = "begin", !.info = info, !.plan = AlterStatements(call[c].request, info)]]
      BY <2>10 DEF PlanAlteration
    <3>2. info \in ColumnInfo
      BY <2>1, CurrentInfoType
    <3>3. call[c].request \in Request /\ call[c].request.op = "AlterColumn"
      BY <2>2, <2>10 DEF PlanAlteration, PlanFits, Op, At
    <3>4. AlterStatements(call[c].request, info) \in Seq(Planned)
      BY <3>2, <3>3, AlterStatementsType
    <3>5. call' \in [Calls -> CallState]
      BY <2>1, <3>1, <3>2, <3>4, CallStateType
    <3> QED BY <2>1, <2>10, <3>5 DEF PlanAlteration, TypeOK
  <2>11. CASE NothingToAlter(c) \/ RejectAlteration(c) \/ TableInfoFails(c) \/ BeginFails(c)
    <3>1. /\ \E a \in {"ok", "validation", "connection", "failed"} : Answer(c, a)
          /\ UNCHANGED <<catalog, session, applied>>
      BY <2>11 DEF NothingToAlter, RejectAlteration, TableInfoFails, BeginFails, BeginError
    <3> QED BY <2>1, <2>3, <2>8, <3>1 DEF TypeOK
  <2>12. CASE BeginTx(c)
    BY <2>1, <2>4, <2>5, <2>12, SessionStateType DEF BeginTx, TypeOK
  <2>13. CASE Send(c) \/ SendCommit(c) \/ ReceiveOk(c)
    BY <2>1, <2>4, <2>5, <2>13, SessionStateType DEF Send, SendCommit, ReceiveOk, Wire, TypeOK
  <2>14. CASE SendFails(c) \/ ReceiveRefusal(c)
    <3>1. /\ \E a \in {"failed", "lost"} : Answer(c, a)
          /\ Rollback(c) /\ UNCHANGED <<catalog, applied>>
      BY <2>14 DEF SendFails, ReceiveRefusal
    <3> QED BY <2>1, <2>3, <2>6, <2>8, <3>1 DEF TypeOK
  <2>15. CASE Abandon(c)
    <3>1. Interrupted(c) \in {"failed", "lost"}
      BY DEF Interrupted
    <3> QED BY <2>1, <2>3, <2>5, <2>8, <2>15, <3>1, SessionStateType DEF Abandon, TypeOK
  <2>16. CASE ReceiveCommitted(c) \/ Reap(c) \/ Vanish(c)
    BY <2>1, <2>3, <2>5, <2>8, <2>16, SessionStateType DEF ReceiveCommitted, Reap, Vanish, TypeOK
  <2>17. CASE TakeLock(c)
    <3>1. PICK lock \in Needed(c) :
            Connection(c, [session[c] EXCEPT !.locks = @ \cup {lock}])
      BY <2>17 DEF TakeLock
    <3>2. lock \in Lock
      BY <2>1, <2>2, <2>17, SentType DEF TakeLock
    <3>3. session[c].locks \cup {lock} \in SUBSET Lock
      BY <2>1, <3>2 DEF SessionState
    <3> QED BY <2>1, <2>5, <2>17, <3>1, <3>3, SessionStateType DEF TakeLock, TypeOK
  <2>18. CASE RunInTx(c)
    <3>1. Ran(c) \in Executed /\ session[c].log \in Seq(Executed)
      BY <2>1, <2>2, <2>18, SentType DEF RunInTx, SessionState
    <3>2. Append(session[c].log, Ran(c)) \in Seq(Executed)
      BY <3>1
    <3> QED BY <2>1, <2>5, <2>18, <3>2, SessionStateType DEF RunInTx, TypeOK
  <2>19. CASE RunAutocommit(c)
    <3>1. Ran(c) \in Executed
      BY <2>1, <2>2, <2>19, SentType DEF RunAutocommit
    <3>2. <<Ran(c)>> \in Seq(Executed)
      BY <3>1
    <3> QED BY <2>1, <2>7, <2>19, <3>2 DEF RunAutocommit, TypeOK
  <2>20. CASE RunCommit(c)
    BY <2>1, <2>2, <2>7, <2>20, SentType DEF RunCommit, TypeOK
  <2>21. CASE Refuse(c)
    BY <2>1, <2>5, <2>21, SessionStateType DEF Refuse, TypeOK
  <2> QED BY <1>2, <2>9, <2>10, <2>11, <2>12, <2>13, <2>14, <2>15, <2>16, <2>17, <2>18, <2>19,
             <2>20, <2>21 DEF Handler, Failure, Server, Execute
<1> QED BY <1>1, <1>2 DEF Next

(***************************************************************************)
(* Every step keeps the rest of the invariant.                             *)
(***************************************************************************)
\* A step that leaves a call's record, session and history alone keeps what
\* the invariant says of it.
LEMMA Frame ==
    ASSUME NEW d \in Calls, CallInv(d),
           call'[d] = call[d], session'[d] = session[d], applied'[d] = applied[d]
    PROVE  CallInv(d)'
BY DEF CallInv, NothingYet, PlanFits, SessionFits, AnswerFits, At, Op, InTx, AllRan, Log, Running

\* A step of one call changes no other call's record, session or history.
LEMMA OthersAlone ==
    ASSUME TypeOK, NEW c \in Calls,
           (\E r \in Requests : Reject(c, r) \/ Accept(c, r))
             \/ Handler(c) \/ Failure(c) \/ Server(c),
           NEW d \in Calls \ {c}
    PROVE  call'[d] = call[d] /\ session'[d] = session[d] /\ applied'[d] = applied[d]
<1>1. call'[d] = call[d]
  BY DEF TypeOK, Handler, Failure, Server, Execute, Reject, Accept, PlanAlteration, NothingToAlter,
     RejectAlteration, TableInfoFails, BeginTx, BeginFails, Send, SendCommit, SendFails, Abandon,
     ReceiveOk, ReceiveRefusal, ReceiveCommitted, TakeLock, RunInTx, RunAutocommit, RunCommit,
     Refuse, Reap, Vanish, Goto, Answer
<1>2. session'[d] = session[d]
  BY DEF TypeOK, Handler, Failure, Server, Execute, Reject, Accept, PlanAlteration, NothingToAlter,
     RejectAlteration, TableInfoFails, BeginTx, BeginFails, Send, SendCommit, SendFails, Abandon,
     ReceiveOk, ReceiveRefusal, ReceiveCommitted, TakeLock, RunInTx, RunAutocommit, RunCommit,
     Refuse, Reap, Vanish, Commit, Rollback, Wire, Connection
<1>3. applied'[d] = applied[d]
  BY DEF TypeOK, Handler, Failure, Server, Execute, Reject, Accept, PlanAlteration, NothingToAlter,
     RejectAlteration, TableInfoFails, BeginTx, BeginFails, Send, SendCommit, SendFails, Abandon,
     ReceiveOk, ReceiveRefusal, ReceiveCommitted, TakeLock, RunInTx, RunAutocommit, RunCommit,
     Refuse, Reap, Vanish, Commit
<1> QED BY <1>1, <1>2, <1>3

\* The invariant survives the steps a method takes before it has a connection.
LEMMA PlanningStep ==
    ASSUME TypeOK, NEW c \in Calls, CallInv(c),
           \/ \E r \in Requests : Reject(c, r) \/ Accept(c, r)
           \/ PlanAlteration(c) \/ NothingToAlter(c) \/ RejectAlteration(c)
           \/ TableInfoFails(c) \/ BeginFails(c)
    PROVE  CallInv(c)'
<1> DEFINE k == call[c]
<1>1. /\ k \in CallState /\ call \in [Calls -> CallState]
      /\ session[c] = NoSession /\ applied[c] = 0
      /\ session' = session /\ applied' = applied
  BY DEF TypeOK, CallInv, NothingYet, At, Reject, Accept, PlanAlteration, NothingToAlter,
     RejectAlteration, TableInfoFails, BeginFails
<1>2. Nil \notin Answers
  BY AnswersAssumption
<1>3. CASE \E r \in Requests : Reject(c, r)
  <2>1. PICK r \in Requests : Reject(c, r)
    BY <1>3
  <2>2. k = Idle
    BY <2>1 DEF CallInv, PlanFits, Reject
  <2>3. call'[c] = [k EXCEPT !.pc = "done", !.request = r, !.answer = "validation"]
    BY <1>1, <2>1 DEF Reject
  <2>4. /\ call'[c].pc = "done" /\ call'[c].request = r /\ call'[c].plan = <<>>
        /\ call'[c].answer = "validation"
    BY <1>1, <2>2, <2>3 DEF Idle, CallState
  <2> QED BY <1>1, <2>4 DEF CallInv, NothingYet, PlanFits, SessionFits, AnswerFits, At, Op, InTx,
             AllRan, Log, Running, NoSession, MaxLog
<1>4. CASE \E r \in Requests : Accept(c, r)
  <2>1. PICK r \in Requests : Accept(c, r)
    BY <1>4
  <2> DEFINE pc == IF r.op = "AlterColumn" THEN "read" ELSE IF UsesTx(r) THEN "begin" ELSE "send"
             plan == IF r.op = "AlterColumn" THEN <<>> ELSE PlanOf(r)
  <2>2. k = Idle /\ r \in Request
    BY <2>1 DEF CallInv, PlanFits, Accept
  <2>3. call'[c] = [k EXCEPT !.request = r, !.pc = pc, !.plan = plan]
    BY <1>1, <2>1 DEF Accept
  <2>4. /\ pc = "read" => r.op = "AlterColumn" /\ plan = <<>>
        /\ pc = "begin" => UsesTx(r) /\ Len(plan) > 0
        /\ pc = "send" => ~ UsesTx(r) /\ Len(plan) > 0
        /\ pc \in {"read", "begin", "send"}
    BY <2>2, AcceptedPlan
  <2>5. Len(plan) <= MaxLog /\ (~ UsesTx(r) => Len(plan) <= 1)
    <3>1. CASE r.op = "AlterColumn"
      BY <3>1 DEF UsesTx, MaxLog
    <3>2. CASE r.op # "AlterColumn"
      <4>1. plan = PlanOf(r)
        BY <3>2
      <4> HIDE DEF plan
      <4>2. Len(PlanOf(r)) <= MaxLog /\ (~ UsesTx(r) => Len(PlanOf(r)) <= 1)
        BY <2>2, <3>2, AcceptedPlan
      <4>3. Len(plan) <= MaxLog
        BY <4>1, <4>2
      <4>4. ~ UsesTx(r) => Len(plan) <= 1
        BY <4>1, <4>2
      <4> QED BY <4>3, <4>4
    <3> QED BY <3>1, <3>2
  <2> HIDE DEF pc, plan
  <2>6. /\ call'[c].pc = pc /\ call'[c].request = r /\ call'[c].plan = plan
        /\ call'[c].answer = Nil
    BY <1>1, <2>2, <2>3 DEF Idle, CallState
  <2> QED BY <1>1, <1>2, <2>4, <2>5, <2>6
      DEF CallInv, NothingYet, PlanFits, SessionFits, AnswerFits, At, Op, InTx,
          AllRan, Log, Running, NoSession, Answers
<1>5. CASE PlanAlteration(c)
  <2>1. PICK info \in CurrentInfo(catalog, k.request) :
          /\ ~ Unchanged(k.request, info) /\ AttributesKept(k.request, info)
          /\ call' = [call EXCEPT ![c] = [@ EXCEPT
                !.pc = "begin", !.info = info, !.plan = AlterStatements(k.request, info)]]
    BY <1>5 DEF PlanAlteration
  <2>2. /\ k.pc = "read" /\ k.request \in Requests /\ k.request \in Request
        /\ k.request.op = "AlterColumn" /\ info \in ColumnInfo
    BY <1>5, <2>1, CurrentInfoType DEF PlanAlteration, CallInv, PlanFits, Op, At, TypeOK
  <2> DEFINE plan == AlterStatements(k.request, info)
  <2>3. plan \in Seq(Planned) /\ Len(plan) <= MaxLog /\ Len(plan) > 0
    BY <2>1, <2>2, AlterStatementsType
  <2>4. call'[c] = [k EXCEPT !.pc = "begin", !.info = info, !.plan = plan]
    BY <1>1, <2>1
  <2> HIDE DEF plan
  <2>5. /\ call'[c].pc = "begin" /\ call'[c].plan = plan /\ call'[c].request = k.request
        /\ call'[c].answer = k.answer
    BY <1>1, <2>4 DEF CallState
  <2>6. UsesTx(k.request)
    BY <2>2 DEF UsesTx
  <2> QED BY <1>1, <1>2, <2>2, <2>3, <2>5, <2>6
      DEF Answers, CallInv, NothingYet, PlanFits, SessionFits, AnswerFits, At, Op, InTx,
          AllRan, Log, Running, NoSession
<1>6. CASE NothingToAlter(c) \/ RejectAlteration(c) \/ TableInfoFails(c) \/ BeginFails(c)
  <2>1. PICK a \in {"ok", "validation", "connection", "failed"} :
          Answer(c, a) /\ (a = "ok" => k.pc = "read")
    BY <1>6 DEF NothingToAlter, RejectAlteration, TableInfoFails, BeginFails, BeginError, At
  <2>2. k.pc \in {"read", "begin"}
    BY <1>6 DEF NothingToAlter, RejectAlteration, TableInfoFails, BeginFails, At
  <2>3. /\ call'[c].pc = "done" /\ call'[c].plan = k.plan /\ call'[c].request = k.request
        /\ call'[c].answer = a
    BY <1>1, <2>1 DEF Answer, CallState
  <2>4. a = "ok" => k.plan = <<>>
    BY <2>1 DEF CallInv, PlanFits, At
  <2> QED BY <1>1, <2>1, <2>2, <2>3, <2>4
      DEF CallInv, NothingYet, PlanFits, SessionFits, AnswerFits, At, Op, InTx,
          AllRan, Log, Running, NoSession
<1> QED BY <1>3, <1>4, <1>5, <1>6

\* It survives what a method does with its connection.
LEMMA DriverStep ==
    ASSUME TypeOK, NEW c \in Calls, CallInv(c),
           \/ BeginTx(c) \/ Send(c) \/ SendCommit(c) \/ SendFails(c) \/ Abandon(c)
           \/ ReceiveOk(c) \/ ReceiveRefusal(c) \/ ReceiveCommitted(c)
    PROVE  CallInv(c)'
<1> DEFINE k == call[c]
           s == session[c]
<1>1. /\ k \in CallState /\ call \in [Calls -> CallState]
      /\ s \in SessionState /\ session \in [Calls -> SessionState]
      /\ applied' = applied /\ applied[c] \in Nat
  BY DEF TypeOK, BeginTx, Send, SendCommit, SendFails, Abandon, ReceiveOk, ReceiveRefusal,
     ReceiveCommitted
<1>2. /\ Len(k.plan) \in Nat /\ Len(s.log) \in Nat /\ Len(s.log) <= Len(k.plan)
      /\ k.request \in Requests
  BY <1>1 DEF CallState, SessionState, Log, CallInv, SessionFits, PlanFits, At, BeginTx, Send,
     SendCommit, SendFails, Abandon, ReceiveOk, ReceiveRefusal, ReceiveCommitted
<1>3. \A a \in Answers : Answer(c, a) =>
        /\ call'[c].pc = "done" /\ call'[c].answer = a
        /\ call'[c].plan = k.plan /\ call'[c].request = k.request
  BY <1>1 DEF Answer, CallState
<1>4. \A pc \in {"send", "wait"} : Goto(c, pc) =>
        /\ call'[c].pc = pc /\ call'[c].answer = k.answer
        /\ call'[c].plan = k.plan /\ call'[c].request = k.request
  BY <1>1 DEF Goto, CallState
<1>5. \A new : Connection(c, new) => session'[c] = new
  BY <1>1 DEF Connection
<1>6. Nil \notin Answers /\ \A a \in {"ok", "failed", "lost"} : a \in Answers
  BY AnswersAssumption DEF Answers
<1>7. CASE BeginTx(c)
  <2>1. /\ session'[c].state = "held" /\ session'[c].wire = "idle" /\ session'[c].log = <<>>
        /\ InTx(c) /\ applied[c] = 0 /\ k.pc = "begin"
    BY <1>5, <1>7 DEF BeginTx, CallInv, NothingYet, PlanFits, At, NoSession
  <2>2. /\ call'[c].pc = "send" /\ call'[c].answer = k.answer
        /\ call'[c].plan = k.plan /\ call'[c].request = k.request
    BY <1>4, <1>7 DEF BeginTx
  <2> QED BY <1>1, <1>2, <1>6, <2>1, <2>2 DEF CallInv, NothingYet, PlanFits, SessionFits,
     AnswerFits, At, Op, InTx, AllRan, Log, Running
<1>8. CASE Send(c)
  <2>1. /\ session'[c].state = "held" /\ session'[c].wire = "running" /\ session'[c].log = s.log
    BY <1>1, <1>5, <1>8 DEF Send, SessionState
  <2>2. /\ call'[c].pc = "wait" /\ call'[c].answer = k.answer
        /\ call'[c].plan = k.plan /\ call'[c].request = k.request
    BY <1>4, <1>8 DEF Send
  <2>3. k.pc = "send" /\ Len(s.log) < Len(k.plan) /\ s.wire = "idle"
    BY <1>1, <1>2, <1>8 DEF Send, At, AllRan, Log, CallInv, SessionFits
  <2> QED BY <1>1, <1>2, <1>6, <2>1, <2>2, <2>3 DEF CallInv, NothingYet, PlanFits, SessionFits,
     AnswerFits, At, Op, InTx, AllRan, Log, Running
<1>9. CASE SendCommit(c)
  BY <1>1, <1>2, <1>4, <1>5, <1>6, <1>9 DEF SendCommit, Wire, CallInv, NothingYet, PlanFits,
     SessionFits, AnswerFits, At, Op, InTx, AllRan, Log, Running, NoSession, SessionState
<1>10. CASE SendFails(c)
  BY <1>1, <1>2, <1>3, <1>5, <1>6, <1>10 DEF SendFails, Rollback, CallInv, NothingYet, PlanFits,
     SessionFits, AnswerFits, At, Op, InTx, AllRan, Log, Running, NoSession, SessionState
<1>11. CASE Abandon(c)
  BY <1>1, <1>2, <1>3, <1>5, <1>6, <1>11 DEF Abandon, Interrupted, CallInv, NothingYet, PlanFits,
     SessionFits, AnswerFits, At, Op, InTx, AllRan, Log, Running, NoSession, SessionState
<1>12. CASE ReceiveOk(c)
  BY <1>1, <1>2, <1>4, <1>5, <1>6, <1>12 DEF ReceiveOk, Wire, CallInv, NothingYet, PlanFits,
     SessionFits, AnswerFits, At, Op, InTx, AllRan, Log, Running, NoSession, SessionState
<1>13. CASE ReceiveRefusal(c)
  BY <1>1, <1>2, <1>3, <1>5, <1>6, <1>13 DEF ReceiveRefusal, Rollback, CallInv, NothingYet,
     PlanFits, SessionFits, AnswerFits, At, Op, InTx, AllRan, Log, Running, NoSession, SessionState
<1>14. CASE ReceiveCommitted(c)
  BY <1>1, <1>2, <1>3, <1>5, <1>6, <1>14 DEF ReceiveCommitted, CallInv, NothingYet, PlanFits,
     SessionFits, AnswerFits, At, Op, InTx, AllRan, Log, Running, NoSession, SessionState
<1> QED BY <1>7, <1>8, <1>9, <1>10, <1>11, <1>12, <1>13, <1>14

\* It survives what PostgreSQL does in the call's session.
LEMMA ServerStep ==
    ASSUME TypeOK, NEW c \in Calls, CallInv(c), Server(c) \/ Vanish(c)
    PROVE  CallInv(c)'
<1> DEFINE k == call[c]
           s == session[c]
<1>1. /\ k \in CallState /\ call' = call
      /\ s \in SessionState /\ session \in [Calls -> SessionState]
      /\ applied \in [Calls -> Nat] /\ applied[c] \in Nat
  BY DEF TypeOK, Server, Execute, Vanish, TakeLock, RunInTx, RunAutocommit, RunCommit, Refuse, Reap
<1>2. /\ k.plan \in Seq(Planned) /\ s.log \in Seq(Executed)
      /\ Len(k.plan) \in Nat /\ Len(s.log) \in Nat /\ Len(s.log) <= Len(k.plan)
  BY <1>1 DEF CallState, SessionState, Log, CallInv, SessionFits
<1>3. \A new : Connection(c, new) => session'[c] = new
  BY <1>1 DEF Connection
<1>4. \A log : Commit(c, log) =>
        /\ session'[c] = [s EXCEPT !.wire = "committed", !.locks = {}]
        /\ applied'[c] = applied[c] + 1
  BY <1>1, <1>3 DEF Commit
<1>5. s.state # "none" /\ s.wire # "committed" => applied[c] = 0
  BY DEF CallInv, AnswerFits
<1>6. CASE TakeLock(c)
  <2>1. PICK lock : session'[c] = [s EXCEPT !.locks = s.locks \cup {lock}]
    BY <1>3, <1>6 DEF TakeLock
  <2> QED BY <1>1, <1>2, <1>6, <2>1 DEF TakeLock, CallInv, NothingYet, PlanFits,
     SessionFits, AnswerFits, At, Op, InTx, AllRan, Log, Running, NoSession, SessionState
<1>7. s.wire # "idle" => s.state # "none" /\ k.pc \in {"wait", "done"}
  BY <1>1 DEF CallInv, NothingYet, SessionFits, At, NoSession, CallState
<1>8. CASE RunInTx(c)
  <2>1. /\ session'[c].state = s.state /\ session'[c].wire = "ok"
        /\ session'[c].log = Append(s.log, Ran(c)) /\ applied'[c] = applied[c]
    BY <1>1, <1>3, <1>8 DEF RunInTx, SessionState
  <2>2. s.wire = "running" /\ InTx(c) /\ Len(s.log) < Len(k.plan)
    BY <1>8 DEF RunInTx, CanRun, Running, CallInv, SessionFits, Log
  <2>3. Ran(c) \in Namings(k.plan[Len(s.log) + 1]) /\ Ran(c) \in Executed
    BY <1>8, SentType DEF RunInTx, CallInv, Sent, Log
  <2> DEFINE ran == Ran(c)
  <2> HIDE DEF ran
  <2>4. /\ Len(Append(s.log, ran)) = Len(s.log) + 1
        /\ \A j \in 1..(Len(s.log) + 1) :
              Append(s.log, ran)[j] = IF j = Len(s.log) + 1 THEN ran ELSE s.log[j]
    BY <1>2, <2>3, AppendProperties DEF ran
  <2>5. \A j \in 1..Len(s.log) : s.log[j] \in Namings(k.plan[j])
    BY DEF CallInv, SessionFits, Log
  <2>6. \A j \in 1..(Len(s.log) + 1) : Append(s.log, ran)[j] \in Namings(k.plan[j])
    <3>1. TAKE j \in 1..(Len(s.log) + 1)
    <3>2. CASE j = Len(s.log) + 1
      BY <2>3, <2>4, <3>2 DEF ran
    <3>3. CASE j # Len(s.log) + 1
      <4>1. j \in 1..Len(s.log)
        BY <1>2, <3>3
      <4> QED BY <2>4, <2>5, <3>3, <4>1
    <3> QED BY <3>2, <3>3
  <2>7. /\ Len(session'[c].log) = Len(s.log) + 1 /\ Len(session'[c].log) <= Len(k.plan)
        /\ \A j \in 1..Len(session'[c].log) : session'[c].log[j] \in Namings(k.plan[j])
    BY <1>2, <2>1, <2>2, <2>4, <2>6 DEF ran
  <2>8. call'[c] = k /\ InTx(c)'
    BY <1>1, <2>2 DEF InTx
  <2>9. NothingYet(c)' /\ PlanFits(c)'
    BY <1>7, <2>1, <2>2, <2>8 DEF CallInv, NothingYet, PlanFits, At, Op, InTx
  <2>10. SessionFits(c)'
    BY <1>7, <2>1, <2>2, <2>7, <2>8, Zenon DEF CallInv, SessionFits, At, AllRan, Log, NoSession
  <2>11. AnswerFits(c)'
    BY <1>7, <2>1, <2>2, <2>8 DEF CallInv, AnswerFits, At, Running
  <2> QED BY <2>9, <2>10, <2>11 DEF CallInv
<1>9. CASE RunAutocommit(c) \/ RunCommit(c)
  <2>1. /\ session'[c].state = s.state /\ session'[c].wire = "committed"
        /\ session'[c].log = s.log /\ applied'[c] = applied[c] + 1
    BY <1>1, <1>4, <1>9 DEF RunAutocommit, RunCommit, SessionState
  <2>2. s.wire \in {"running", "committing"} /\ (s.wire = "running" => ~ InTx(c))
    BY <1>9 DEF RunAutocommit, RunCommit, CanRun, Running
  <2>3. call[c].answer \in {Nil, "lost"}
    BY <1>7, <2>2 DEF CallInv, AnswerFits, At, Running
  <2>4. Nil \notin {"ok", "validation", "connection", "failed"}
    BY AnswersAssumption DEF Answers
  <2> QED BY <1>1, <1>2, <1>5, <1>7, <2>1, <2>2, <2>3, <2>4 DEF CallInv, NothingYet, PlanFits,
     SessionFits, AnswerFits, At, Op, InTx, AllRan, Log, Running
<1>10. CASE Refuse(c)
  <2>1. /\ session'[c].state = s.state /\ session'[c].wire = "refused"
        /\ session'[c].log = <<>> /\ applied'[c] = applied[c] /\ s.wire = "running"
    BY <1>1, <1>3, <1>10 DEF Refuse, Running, SessionState
  <2> QED BY <1>1, <1>2, <1>7, <2>1 DEF CallInv, NothingYet, PlanFits, SessionFits,
     AnswerFits, At, Op, InTx, AllRan, Log, Running
<1>11. CASE Reap(c) \/ Vanish(c)
  <2>1. session'[c] = NoSession /\ applied'[c] = applied[c] /\ s.state = "orphan"
    BY <1>1, <1>3, <1>11 DEF Reap, Vanish
  <2>2. k.pc = "done"
    BY <1>1, <2>1 DEF CallInv, NothingYet, SessionFits, At, NoSession, CallState
  <2>3. session'[c].state = "none" /\ session'[c].wire = "idle" /\ session'[c].log = <<>>
    BY <2>1 DEF NoSession
  <2>4. NothingYet(c)' /\ PlanFits(c)'
    BY <1>1, <2>2 DEF CallInv, NothingYet, PlanFits, At, Op, InTx
  <2>5. SessionFits(c)'
    BY <1>1, <1>2, <2>1, <2>2, <2>3 DEF SessionFits, At, InTx, AllRan, Log
  <2>6. AnswerFits(c)'
    BY <1>1, <2>1, <2>2, <2>3 DEF CallInv, AnswerFits, At, Running
  <2> QED BY <2>4, <2>5, <2>6 DEF CallInv
<1> QED BY <1>6, <1>8, <1>9, <1>10, <1>11 DEF Server, Execute

(***************************************************************************)
(* The theorems.                                                           *)
(***************************************************************************)
\* Every step keeps the inductive invariant.
LEMMA InvStep == IInv /\ [Next]_vars => IInv'
<1> SUFFICES ASSUME IInv, [Next]_vars PROVE IInv'
  OBVIOUS
<1>1. TypeOK'
  BY TypeStep
<1>2. ASSUME NEW d \in Calls PROVE CallInv(d)'
  <2>1. TypeOK /\ CallInv(d)
    BY DEF IInv, CallInv
  <2>2. CASE UNCHANGED vars
    BY <2>1, <2>2, Frame DEF vars
  <2>3. ASSUME NEW c \in Calls,
               (\E r \in Requests : Reject(c, r) \/ Accept(c, r))
                 \/ Handler(c) \/ Failure(c) \/ Server(c)
        PROVE  CallInv(d)'
    <3>1. CASE d # c
      BY <2>1, <2>3, <3>1, Frame, OthersAlone
    <3>2. CASE d = c
      BY <2>1, <2>3, <3>2, PlanningStep, DriverStep, ServerStep DEF Handler, Failure
    <3> QED BY <3>1, <3>2
  <2> QED BY <2>2, <2>3 DEF Next
<1> QED BY <1>1, <1>2 DEF IInv, CallInv

\* The invariant holds throughout.
THEOREM Invariance == Spec => []IInv
BY InitInv, InvStep, PTL DEF Spec

\* No request becomes more than MaxLog statements (AlterColumn's rename, type,
\* nullability and default).
PlansAreShort == \A c \in Calls : Len(call[c].plan) <= MaxLog

\* Every variable keeps its type, whatever is requested, refused or interrupted: the
\* statements that the driver plans turn catalogs into catalogs.  No plan has more
\* of them than MaxLog, which is therefore no bound on the code.
THEOREM TypeCorrectness == Spec => [](TypeOK /\ PlansAreShort)
<1>1. IInv => TypeOK /\ PlansAreShort
  BY DEF IInv, PlansAreShort, PlanFits
<1> QED BY <1>1, Invariance, PTL

\* A call that fails with an error other than "lost" never commits anything.
THEOREM ErrorsLeaveNoTrace == Spec => []ErrorLeavesNoTrace
<1>1. IInv => ErrorLeavesNoTrace
  BY DEF IInv, AnswerFits, ErrorLeavesNoTrace
<1> QED BY <1>1, Invariance, PTL

\* A call's work is committed at most once, and was when it answers "ok".
THEOREM OkMeansAppliedOnce == Spec => []OkAppliedOnce
<1>1. IInv => OkAppliedOnce
  BY DEF IInv, AnswerFits, OkAppliedOnce
<1> QED BY <1>1, Invariance, PTL

\* A call that has answered holds no connection.
THEOREM NoConnectionLeaks == Spec => []AnsweredHoldsNothing
<1>1. IInv => AnsweredHoldsNothing
  BY DEF IInv, SessionFits, AnsweredHoldsNothing
<1> QED BY <1>1, Invariance, PTL

(***************************************************************************)
(* The methods implement AtomicChange.                                     *)
(***************************************************************************)
\* The calls start as AtomicChange's do.
LEMMA AtomicInit == Init => Atomic!Init
<1> SUFFICES ASSUME Init PROVE Atomic!Init
  OBVIOUS
<1>1. ASSUME NEW c \in Calls PROVE ChangeOf(c) = Atomic!NoChange
  BY DEF Init, Idle, ChangeOf, PhaseAt, At, Atomic!NoChange, Atomic!Stage
<1>2. [c \in Calls |-> ChangeOf(c)] = [c \in Calls |-> Atomic!NoChange]
  BY <1>1
<1> QED BY <1>2 DEF Init, Atomic!Init

\* A step of one call changes nothing of the others that AtomicChange sees.
LEMMA ChangeLift ==
    ASSUME TypeOK, NEW c \in Calls,
           (\E r \in Requests : Reject(c, r) \/ Accept(c, r))
             \/ Handler(c) \/ Failure(c) \/ Server(c)
    PROVE  /\ Atomic!Become(c, ChangeOf(c)')
           /\ ChangeOf(c)' = ChangeOf(c) =>
                [d \in Calls |-> ChangeOf(d)]' = [d \in Calls |-> ChangeOf(d)]
<1>1. ASSUME NEW d \in Calls \ {c} PROVE ChangeOf(d)' = ChangeOf(d)
  BY <1>1, OthersAlone DEF ChangeOf, PhaseAt, At
<1> QED BY <1>1 DEF Atomic!Become

\* Accepting or rejecting a request is asking in AtomicChange; a request that
\* needs no TableInfo is planned in the same step.
LEMMA AskRefines ==
    ASSUME IInv, NEW c \in Calls, NEW r \in Requests, Reject(c, r) \/ Accept(c, r)
    PROVE  Atomic!Ask(c, r)
<1>1. /\ call[c] = Idle /\ applied[c] = 0 /\ call \in [Calls -> CallState]
      /\ applied' = applied /\ catalog' = catalog
  BY DEF IInv, TypeOK, NothingYet, PlanFits, At, Reject, Accept
<1>2. ChangeOf(c) = Atomic!NoChange /\ ChangeOf(c).phase = "idle"
  BY <1>1 DEF ChangeOf, PhaseAt, At, Idle, Atomic!NoChange, Atomic!Stage
<1>3. Atomic!Become(c, ChangeOf(c)')
  BY ChangeLift DEF IInv
<1>4. CASE Reject(c, r)
  <2>1. call'[c] = [Idle EXCEPT !.pc = "done", !.request = r, !.answer = "validation"]
    BY <1>1, <1>4 DEF Reject
  <2>2. /\ call'[c].pc = "done" /\ call'[c].request = r
        /\ call'[c].plan = <<>> /\ call'[c].answer = "validation"
    BY <2>1 DEF Idle
  <2>3. ChangeOf(c)' = Atomic!Stage("answered", r, <<>>, "validation", 0)
    BY <1>1, <2>2 DEF ChangeOf, PhaseAt, At, Atomic!Stage
  <2> QED BY <1>1, <1>2, <1>3, <2>3 DEF Atomic!Ask
<1>5. CASE Accept(c, r) /\ r.op = "AlterColumn"
  <2>1. call'[c] = [Idle EXCEPT !.request = r, !.pc = "read", !.plan = <<>>]
    BY <1>1, <1>5 DEF Accept
  <2>2. /\ call'[c].pc = "read" /\ call'[c].request = r
        /\ call'[c].plan = <<>> /\ call'[c].answer = Nil
    BY <2>1 DEF Idle
  <2>3. ChangeOf(c)' = Atomic!Stage("asked", r, <<>>, Nil, 0)
    BY <1>1, <2>2 DEF ChangeOf, PhaseAt, At, Atomic!Stage
  <2> QED BY <1>1, <1>2, <1>3, <2>3 DEF Atomic!Ask
<1>6. CASE Accept(c, r) /\ r.op # "AlterColumn"
  <2>1. PICK pc \in {"begin", "send"} :
          call'[c] = [Idle EXCEPT !.request = r, !.pc = pc, !.plan = PlanOf(r)]
    BY <1>1, <1>6 DEF Accept
  <2>2. /\ call'[c].pc = pc /\ call'[c].request = r
        /\ call'[c].plan = PlanOf(r) /\ call'[c].answer = Nil
    BY <2>1 DEF Idle
  <2>3. ChangeOf(c)' = Atomic!Stage("planned", r, PlanOf(r), Nil, 0)
    BY <1>1, <2>2 DEF ChangeOf, PhaseAt, At, Atomic!Stage
  <2>4. PlanOf(r) \in Plans(r, catalog)
    BY <1>6 DEF Plans
  <2> QED BY <1>1, <1>2, <1>3, <2>3, <2>4 DEF Atomic!Ask
<1> QED BY <1>4, <1>5, <1>6

\* The difference that AlterColumn plans is a plan on the catalog it read.
LEMMA PlanRefines ==
    ASSUME IInv, NEW c \in Calls, PlanAlteration(c)
    PROVE  Atomic!Plan(c)
<1>1. /\ call[c].pc = "read" /\ call[c].request.op = "AlterColumn" /\ call[c] \in CallState
      /\ call \in [Calls -> CallState] /\ applied' = applied /\ catalog' = catalog
  BY DEF IInv, TypeOK, PlanFits, Op, At, PlanAlteration
<1>2. PICK info \in CurrentInfo(catalog, call[c].request) :
          call' = [call EXCEPT ![c] = [@ EXCEPT
                !.pc = "begin", !.info = info, !.plan = AlterStatements(call[c].request, info)]]
  BY DEF PlanAlteration
<1> DEFINE plan == AlterStatements(call[c].request, info)
<1>3. plan \in Plans(call[c].request, catalog)
  BY <1>1, <1>2 DEF Plans
<1> HIDE DEF plan
<1>4. /\ call'[c].pc = "begin" /\ call'[c].request = call[c].request
      /\ call'[c].plan = plan /\ call'[c].answer = call[c].answer
  BY <1>1, <1>2 DEF CallState, plan
<1>5. /\ ChangeOf(c).phase = "asked" /\ ChangeOf(c).request = call[c].request
      /\ ChangeOf(c)' = Atomic!Stage("planned", call[c].request, plan, Nil, 0)
  <2>1. PhaseAt(call[c].pc) = "asked" /\ PhaseAt(call'[c].pc) = "planned"
    BY <1>1, <1>4 DEF PhaseAt, At
  <2>2. call[c].answer = Nil /\ applied[c] = 0
    BY <1>1 DEF IInv, AnswerFits, NothingYet, At
  <2> QED BY <1>1, <1>4, <2>1, <2>2 DEF ChangeOf, Atomic!Stage
<1>6. Atomic!Become(c, ChangeOf(c)')
  BY ChangeLift DEF IInv, Handler
<1> QED BY <1>1, <1>3, <1>5, <1>6 DEF Atomic!Plan

\* Whatever a method answers, AtomicChange lets it answer.
LEMMA AnswerRefines ==
    ASSUME IInv, NEW c \in Calls,
           \/ NothingToAlter(c) \/ RejectAlteration(c) \/ TableInfoFails(c) \/ BeginFails(c)
           \/ SendFails(c) \/ Abandon(c) \/ ReceiveRefusal(c) \/ ReceiveCommitted(c)
    PROVE  Atomic!Answer(c)
<1> DEFINE k == call[c]
<1>1. /\ k \in CallState /\ call \in [Calls -> CallState]
      /\ applied' = applied /\ catalog' = catalog
      /\ NothingYet(c) /\ PlanFits(c) /\ SessionFits(c) /\ AnswerFits(c)
  BY DEF IInv, TypeOK, NothingToAlter, RejectAlteration, TableInfoFails, BeginFails, SendFails,
     Abandon, ReceiveRefusal, ReceiveCommitted
<1>2. PICK a \in {"ok", "validation", "connection", "failed", "lost"} :
        /\ Answer(c, a)
        /\ a = "ok" => applied[c] = 1 \/ NothingToAlter(c)
        /\ a = "lost" => k.pc \in {"send", "wait"}
        /\ a \in {"validation", "connection", "failed"} => applied[c] = 0
  <2>1. CASE NothingToAlter(c)
    BY <2>1 DEF NothingToAlter
  <2>2. CASE RejectAlteration(c) \/ TableInfoFails(c) \/ BeginFails(c)
    BY <1>1, <2>2 DEF RejectAlteration, TableInfoFails, BeginFails, BeginError, NothingYet, At
  <2>3. CASE SendFails(c)
    BY <1>1, <2>3 DEF SendFails, AnswerFits, SessionFits, At
  <2>4. CASE Abandon(c)
    BY <1>1, <2>4 DEF Abandon, Interrupted, AnswerFits, SessionFits, At
  <2>5. CASE ReceiveRefusal(c)
    BY <1>1, <2>5 DEF ReceiveRefusal, AnswerFits, At
  <2>6. CASE ReceiveCommitted(c)
    BY <1>1, <2>6 DEF ReceiveCommitted, AnswerFits
  <2> QED BY <2>1, <2>2, <2>3, <2>4, <2>5, <2>6
<1>3. k.pc \in {"read", "begin", "send", "wait"}
  BY DEF NothingToAlter, RejectAlteration, TableInfoFails, BeginFails, SendFails,
     Abandon, ReceiveRefusal, ReceiveCommitted, At
<1>4. NothingToAlter(c) => ChangeOf(c).phase = "asked" /\ <<>> \in Plans(k.request, catalog)
  <2>1. SUFFICES ASSUME NothingToAlter(c)
                 PROVE  ChangeOf(c).phase = "asked" /\ <<>> \in Plans(k.request, catalog)
    OBVIOUS
  <2>2. PICK info \in CurrentInfo(catalog, k.request) : Unchanged(k.request, info)
    BY <2>1 DEF NothingToAlter
  <2>3. AlterStatements(k.request, info) = <<>>
    BY <2>2 DEF AlterStatements, Unchanged, When
  <2>4. k.request.op = "AlterColumn" /\ k.pc = "read"
    BY <1>1, <2>1 DEF NothingToAlter, PlanFits, Op, At
  <2> QED BY <2>2, <2>3, <2>4 DEF Plans, ChangeOf, PhaseAt, At
<1>5. /\ call'[c].pc = "done" /\ call'[c].request = k.request
      /\ call'[c].plan = k.plan /\ call'[c].answer = a
  BY <1>1, <1>2 DEF Answer, CallState
<1>6. /\ ChangeOf(c).phase \in {"asked", "planned"} /\ ChangeOf(c).request = k.request
      /\ ChangeOf(c).applied = applied[c]
      /\ k.pc \in {"send", "wait"} => ChangeOf(c).phase = "planned"
      /\ ChangeOf(c).plan = k.plan
      /\ ChangeOf(c)' = Atomic!Stage("answered", k.request, k.plan, a, applied[c])
  <2>1. /\ PhaseAt(call[c].pc) \in {"asked", "planned"} /\ PhaseAt(call'[c].pc) = "answered"
        /\ k.pc \in {"send", "wait"} => PhaseAt(call[c].pc) = "planned"
    BY <1>3, <1>5 DEF PhaseAt, At
  <2> QED BY <1>1, <1>5, <2>1 DEF ChangeOf, Atomic!Stage
<1>7. Atomic!Become(c, ChangeOf(c)')
  BY ChangeLift DEF IInv, Handler, Failure
<1>8. Atomic!MayAnswer(c, a)
  BY <1>2, <1>4, <1>6 DEF Atomic!MayAnswer, Atomic!NothingToDo
<1> QED BY <1>1, <1>2, <1>6, <1>7, <1>8 DEF Atomic!Answer

\* Replaying a log that is a naming of a plan gives an outcome of the plan.
LEMMA RunOutcome ==
    ASSUME NEW plan, NEW log, NEW cat, Len(log) = Len(plan), Len(plan) \in Nat,
           \A j \in 1..Len(plan) : log[j] \in Namings(plan[j])
    PROVE  RunAll(log, cat) \in Outcomes(plan, cat)
<1>1. ASSUME NEW k \in 1..4, NEW from, NEW cats, from \in cats
      PROVE  Replayed(k, log, from) \in After(k, plan, cats)
  <2>1. CASE k <= Len(plan)
    <3>1. log[k] \in Namings(plan[k])
      BY <2>1
    <3>2. Effect(log[k], from) \in {Effect(s, old) : s \in Namings(plan[k]), old \in cats}
      <4>1. \A s \in Namings(plan[k]), old \in cats :
              Effect(s, old) \in {Effect(t, o) : t \in Namings(plan[k]), o \in cats}
        OBVIOUS
      <4> QED BY <1>1, <3>1, <4>1
    <3>3. Replayed(k, log, from) = Effect(log[k], from)
      BY <2>1 DEF Replayed
    <3>4. After(k, plan, cats) = {Effect(s, old) : s \in Namings(plan[k]), old \in cats}
      BY <2>1 DEF After
    <3> QED BY <3>2, <3>3, <3>4
  <2>2. CASE ~ (k <= Len(plan))
    BY <1>1, <2>2 DEF Replayed, After
  <2> QED BY <2>1, <2>2
<1>2. cat \in {cat}
  OBVIOUS
<1> QED BY <1>1, <1>2 DEF RunAll, Outcomes

\* What a commit commits: the log of a transaction that has run its plan, or the
\* one statement of a call that has no transaction.
LEMMA CommitLog ==
    ASSUME IInv, NEW c \in Calls, RunAutocommit(c) \/ RunCommit(c)
    PROVE  \E log \in Seq(Executed) :
              /\ Commit(c, log)
              /\ \/ log = Log(c) /\ session[c].wire = "committing"
                 \/ Log(c) = <<>> /\ CanRun(c) /\ log = <<Ran(c)>>
              /\ Len(log) = Len(call[c].plan) /\ Len(log) \in 0..MaxLog
              /\ \A j \in 1..Len(call[c].plan) : log[j] \in Namings(call[c].plan[j])
<1> DEFINE k == call[c]
           s == session[c]
           n == Len(k.plan)
<1>1. /\ k \in CallState /\ s \in SessionState
      /\ NothingYet(c) /\ PlanFits(c) /\ SessionFits(c)
      /\ s.wire \in {"running", "committing"}
  BY DEF IInv, TypeOK, RunAutocommit, RunCommit, CanRun, Running
<1>2. k.pc \in {"wait", "done"}
  BY <1>1 DEF NothingYet, SessionFits, At, NoSession, CallState
<1>3. k.plan \in Seq(Planned) /\ n \in Nat /\ s.log \in Seq(Executed) /\ n <= MaxLog
  BY <1>1 DEF CallState, SessionState, PlanFits
<1>4. n \in 0..MaxLog
  <2> HIDE DEF n
  <2> QED BY <1>3 DEF MaxLog
<1>5. CASE RunCommit(c)
  BY <1>1, <1>3, <1>4, <1>5 DEF RunCommit, SessionFits, AllRan, Log
<1>6. CASE RunAutocommit(c)
  <2>1. Log(c) = <<>> /\ Len(k.plan) = 1
    <3>1. Log(c) = <<>> /\ Len(Log(c)) < n /\ n <= 1
      BY <1>1, <1>2, <1>6 DEF RunAutocommit, CanRun, Running, PlanFits, SessionFits, At
    <3>2. Len(Log(c)) = 0
      BY <3>1
    <3>3. n \in Nat /\ 0 < n /\ n <= 1
      BY <1>3, <3>1, <3>2
    <3> HIDE DEF n
    <3>4. n = 1
      BY <3>3
    <3> QED BY <3>1, <3>4 DEF n
  <2> DEFINE ran == Ran(c)
  <2>2. ran \in Namings(k.plan[1]) /\ ran \in Executed
    BY <1>1, <1>6, <2>1, SentType DEF RunAutocommit, Sent, IInv
  <2>3. Commit(c, <<ran>>) /\ CanRun(c)
    BY <1>6 DEF RunAutocommit
  <2> HIDE DEF ran
  <2>4. <<ran>> \in Seq(Executed) /\ Len(<<ran>>) = 1 /\ <<ran>>[1] = ran
    BY <2>2
  <2>5. \A j \in 1..Len(k.plan) : <<ran>>[j] \in Namings(k.plan[j])
    BY <2>1, <2>2, <2>4
  <2> QED BY <1>4, <2>1, <2>3, <2>4, <2>5 DEF ran
<1> QED BY <1>5, <1>6

\* A commit is the plan taking effect, and at a moment AtomicChange allows.
LEMMA CommitRefines ==
    ASSUME IInv, NEW c \in Calls, RunAutocommit(c) \/ RunCommit(c)
    PROVE  Atomic!TakeEffect(c)
<1> DEFINE k == call[c]
           s == session[c]
<1>1. /\ k \in CallState /\ call' = call /\ s \in SessionState
      /\ session \in [Calls -> SessionState] /\ applied \in [Calls -> Nat]
      /\ NothingYet(c) /\ PlanFits(c) /\ SessionFits(c) /\ AnswerFits(c)
      /\ s.wire \in {"running", "committing"}
  BY DEF IInv, TypeOK, RunAutocommit, RunCommit, CanRun, Running
<1>2. k.pc \in {"wait", "done"}
  BY <1>1 DEF NothingYet, SessionFits, At, NoSession, CallState
<1>3. /\ ChangeOf(c).phase = "planned" \/ ChangeOf(c).answer = "lost"
      /\ applied[c] = 0
  <2>1. k.pc = "done" => k.answer = "lost"
    BY <1>1 DEF AnswerFits, At, RunAutocommit, RunCommit, CanRun, Running
  <2>2. k.pc = "wait" => PhaseAt(call[c].pc) = "planned"
    BY DEF PhaseAt, At
  <2>3. applied[c] = 0
    BY <1>1, <1>2 DEF AnswerFits, SessionFits, NoSession
  <2> QED BY <1>2, <2>1, <2>2, <2>3 DEF ChangeOf
<1>4. PICK log \in Seq(Executed) :
        /\ Len(log) = Len(k.plan) /\ Commit(c, log)
        /\ \A j \in 1..Len(k.plan) : log[j] \in Namings(k.plan[j])
  BY CommitLog
<1>5. catalog' \in Outcomes(k.plan, catalog) /\ applied'[c] = 1
  BY <1>1, <1>3, <1>4, RunOutcome DEF Commit
<1>6. ChangeOf(c)' = [ChangeOf(c) EXCEPT !.applied = 1]
  <2>1. PhaseAt(call'[c].pc) = PhaseAt(call[c].pc)
    BY <1>1 DEF PhaseAt, At
  <2> QED BY <1>1, <1>5, <2>1 DEF ChangeOf
<1>7. Atomic!Become(c, ChangeOf(c)')
  BY ChangeLift DEF IInv, Server, Execute
<1>8. ChangeOf(c).plan = k.plan /\ ChangeOf(c).applied = applied[c]
  BY DEF ChangeOf
<1> QED BY <1>3, <1>5, <1>6, <1>7, <1>8 DEF Atomic!TakeEffect, Atomic!Open

\* Every other step, on the wire or among the locks, is invisible to
\* AtomicChange.
LEMMA StutterRefines ==
    ASSUME IInv, NEW c \in Calls,
           \/ BeginTx(c) \/ Send(c) \/ SendCommit(c) \/ ReceiveOk(c)
           \/ TakeLock(c) \/ RunInTx(c) \/ Refuse(c) \/ Reap(c) \/ Vanish(c)
    PROVE  UNCHANGED <<catalog, [d \in Calls |-> ChangeOf(d)]>>
<1>1. /\ call[c] \in CallState /\ call \in [Calls -> CallState]
      /\ applied' = applied /\ catalog' = catalog
  BY DEF IInv, TypeOK, BeginTx, Send, SendCommit, ReceiveOk, TakeLock, RunInTx, Refuse, Reap, Vanish
<1>2. /\ call'[c].plan = call[c].plan /\ call'[c].request = call[c].request
      /\ call'[c].answer = call[c].answer /\ PhaseAt(call'[c].pc) = PhaseAt(call[c].pc)
  <2>1. CASE call' = call
    BY <2>1 DEF PhaseAt, At
  <2>2. CASE BeginTx(c) \/ Send(c) \/ SendCommit(c) \/ ReceiveOk(c)
    <3>1. PICK pc \in {"send", "wait"} : Goto(c, pc) /\ call[c].pc \in {"begin", "send", "wait"}
      BY <2>2 DEF BeginTx, Send, SendCommit, ReceiveOk, At
    <3>2. /\ call'[c].plan = call[c].plan /\ call'[c].request = call[c].request
          /\ call'[c].answer = call[c].answer /\ call'[c].pc = pc
      BY <1>1, <3>1 DEF Goto, CallState
    <3> QED BY <3>1, <3>2 DEF PhaseAt, At
  <2> QED BY <2>1, <2>2 DEF TakeLock, RunInTx, Refuse, Reap, Vanish
<1>3. ChangeOf(c)' = ChangeOf(c)
  BY <1>1, <1>2 DEF ChangeOf
<1> QED BY <1>1, <1>3, ChangeLift DEF IInv, Handler, Failure, Server, Execute

\* The schema-changing methods implement AtomicChange: for any number of
\* concurrent calls and any requests, a plan takes effect whole or not at all,
\* at most once, and as the answer says.
THEOREM Refinement == Spec => ImplementsAtomicChange
<1>1. IInv /\ [Next]_vars => [Atomic!Next]_(Atomic!vars)
  <2> SUFFICES ASSUME IInv, [Next]_vars PROVE [Atomic!Next]_(Atomic!vars)
    OBVIOUS
  <2>1. CASE UNCHANGED vars
    <3>1. \A c \in Calls : ChangeOf(c)' = ChangeOf(c)
      BY <2>1 DEF vars, ChangeOf, PhaseAt, At
    <3> QED BY <2>1, <3>1 DEF vars, Atomic!vars
  <2>2. ASSUME NEW c \in Calls,
               (\E r \in Requests : Reject(c, r) \/ Accept(c, r))
                 \/ Handler(c) \/ Failure(c) \/ Server(c)
        PROVE  Atomic!Next \/ UNCHANGED <<catalog, [d \in Calls |-> ChangeOf(d)]>>
    <3>1. \A r \in Requests : Reject(c, r) \/ Accept(c, r) => Atomic!Ask(c, r)
      BY AskRefines
    <3>2. \/ \E r \in Requests : Atomic!Ask(c, r)
          \/ Atomic!Plan(c) \/ Atomic!TakeEffect(c) \/ Atomic!Answer(c)
          \/ UNCHANGED <<catalog, [d \in Calls |-> ChangeOf(d)]>>
      BY <2>2, <3>1, PlanRefines, AnswerRefines, CommitRefines, StutterRefines
         DEF Handler, Failure, Server, Execute
    <3> QED BY <3>2 DEF Atomic!Next
  <2> QED BY <2>1, <2>2 DEF Next, Atomic!vars
<1> QED BY <1>1, AtomicInit, Invariance, PTL DEF Spec, Atomic!Spec, ImplementsAtomicChange

(***************************************************************************)
(* Two-phase locking: every log is legal on the committed catalog, under   *)
(* locks that no other call conflicts with.  The second invariant, on top  *)
(* of IInv.                                                                *)
(***************************************************************************)
LogCovered(c) == session[c].wire # "committed" => Covered(Log(c), session[c].locks, catalog)

LocksApart(c) ==
    \A d \in Calls \ {c} : \A l \in session[c].locks, m \in session[d].locks : ~ Conflict(l, m)

\* What a connection is used for: the plan of a valid request.
PlanShape(c) ==
    LET r == call[c].request IN
    session[c] # NoSession \/ call[c].pc \in {"read", "begin", "send", "wait"} =>
        /\ r \in Request /\ Valid(r)
        /\ IF r.op # "AlterColumn" THEN call[c].plan = PlanOf(r)
           ELSE IF call[c].pc = "read" THEN TRUE
           ELSE call[c].info \in ColumnInfo /\ call[c].plan = AlterStatements(r, call[c].info)

ReplayInv == \A c \in Calls : LogCovered(c) /\ LocksApart(c) /\ PlanShape(c)

CatalogInv == WellNamed(catalog) /\ WellTyped(catalog)

\* A statement that runs is legal where it runs, and its locks are held.
LEMMA RanIsCovered ==
    ASSUME TypeOK, NEW c \in Calls, SessionFits(c), CanRun(c)
    PROVE  /\ Ran(c) \in Executed /\ View(c) \in Catalog
           /\ Legal(Ran(c), View(c)) /\ Locks(Ran(c), View(c)) \subseteq session[c].locks
<1>1. Sent(c) \in Planned /\ View(c) \in Catalog /\ Ran(c) \in Executed
  BY SentType DEF CanRun
<1>2. Legal(Sent(c), View(c))
  BY DEF CanRun
<1>3. Locks(Sent(c), View(c)) \subseteq session[c].locks
  BY DEF CanRun, Needed, Locks
<1> QED BY <1>1, <1>2, <1>3, NamedLegal DEF Ran

\* What a call commits is legal where it stands, under the locks it holds.
LEMMA CommitCovered ==
    ASSUME TypeOK, NEW c \in Calls, SessionFits(c), LogCovered(c), Len(Log(c)) <= MaxLog,
           NEW log \in Seq(Executed),
           \/ log = Log(c) /\ session[c].wire = "committing"
           \/ Log(c) = <<>> /\ CanRun(c) /\ log = <<Ran(c)>>
    PROVE  Len(log) <= MaxLog /\ Covered(log, session[c].locks, catalog)
<1> DEFINE locks == session[c].locks
<1>1. CASE log = Log(c) /\ session[c].wire = "committing"
  BY <1>1 DEF LogCovered
<1>2. CASE Log(c) = <<>> /\ CanRun(c) /\ log = <<Ran(c)>>
  <2> DEFINE ran == Ran(c)
  <2>1. ran \in Executed /\ Legal(ran, View(c)) /\ Locks(ran, View(c)) \subseteq locks
    BY <1>2, RanIsCovered
  <2>2. View(c) = RunAll(<<>>, catalog) /\ log = <<ran>> /\ catalog \in Catalog
    BY <1>2 DEF View, TypeOK
  <2> HIDE DEF ran, locks
  <2>3. <<>> \in Seq(Executed) /\ Len(<<>>) <= MaxLog /\ Append(<<>>, ran) = <<ran>>
    BY <2>1 DEF MaxLog
  <2>4. Covered(<<>>, locks, catalog)
    BY <2>2, <2>3, CoveredAppend
  <2>5. Covered(Append(<<>>, ran), locks, catalog)
    BY <2>1, <2>2, <2>3, <2>4, CoveredAppend
  <2>6. Len(log) <= MaxLog
    BY <2>2 DEF MaxLog
  <2> QED BY <2>2, <2>3, <2>5, <2>6 DEF locks
<1> QED BY <1>1, <1>2

(***************************************************************************)
(* The invariant survives every step.                                      *)
(***************************************************************************)
\* What a step of a call does to its session: it empties the log, or keeps it
\* and the locks, or takes a free lock, or runs a statement, or commits.
LEMMA SessionStep ==
    ASSUME IInv, NEW c \in Calls,
           (\E r \in Requests : Reject(c, r) \/ Accept(c, r))
             \/ Handler(c) \/ Failure(c) \/ Server(c)
    PROVE  LET s == session[c]
               t == session'[c]
           IN  \/ t.log = <<>> /\ t.locks = {} /\ catalog' = catalog
               \/ /\ t.log = s.log /\ t.locks = s.locks /\ catalog' = catalog
                  /\ s.wire = "committed" => t.wire = "committed"
               \/ /\ t.log = s.log /\ t.wire = s.wire /\ catalog' = catalog
                  /\ \E lock \in Lock : Free(c, lock) /\ t.locks = s.locks \cup {lock}
               \/ /\ CanRun(c) /\ t.log = Append(s.log, Ran(c)) /\ t.locks = s.locks
                  /\ catalog' = catalog
               \/ /\ t.wire = "committed" /\ t.locks = {}
                  /\ \E log \in Seq(Executed) :
                        /\ catalog' = RunAll(log, catalog)
                        /\ \/ log = s.log /\ s.wire = "committing"
                           \/ s.log = <<>> /\ CanRun(c) /\ log = <<Ran(c)>>
<1> DEFINE s == session[c]
           t == session'[c]
<1>1. /\ s \in SessionState /\ session \in [Calls -> SessionState] /\ TypeOK /\ SessionFits(c)
      /\ NothingYet(c) /\ PlanFits(c)
  BY DEF IInv, TypeOK
<1>2. /\ NoSession.log = <<>> /\ NoSession.locks = {}
      /\ NoSession.state = "none" /\ NoSession.wire = "idle"
  BY DEF NoSession
<1>3. ASSUME NEW new, Connection(c, new) PROVE t = new
  BY <1>1, <1>3 DEF Connection
<1>4. ASSUME Rollback(c)
      PROVE  \/ t.log = <<>> /\ t.locks = {}
             \/ t.log = s.log /\ t.locks = s.locks /\ t.wire = s.wire
  <2>1. CASE Connection(c, NoSession)
    BY <1>2, <1>3, <2>1
  <2>2. CASE Connection(c, [session[c] EXCEPT !.state = "orphan"])
    <3>1. t = [s EXCEPT !.state = "orphan"]
      BY <1>3, <2>2
    <3> QED BY <1>1, <3>1 DEF SessionState
  <2> QED BY <1>4, <2>1, <2>2 DEF Rollback
<1>5. CASE (\E r \in Requests : Reject(c, r) \/ Accept(c, r)) \/ PlanAlteration(c)
            \/ NothingToAlter(c) \/ RejectAlteration(c) \/ TableInfoFails(c) \/ BeginFails(c)
  <2>1. t = s /\ catalog' = catalog
    BY <1>5 DEF Reject, Accept, PlanAlteration, NothingToAlter, RejectAlteration, TableInfoFails, BeginFails
  <2> QED BY <2>1
<1>6. CASE BeginTx(c)
  <2>1. t = [NoSession EXCEPT !.state = "held"] /\ catalog' = catalog
    BY <1>3, <1>6 DEF BeginTx
  <2>2. t.log = <<>> /\ t.locks = {}
    BY <2>1 DEF NoSession
  <2> QED BY <2>1, <2>2
<1>7. CASE Send(c) \/ SendCommit(c) \/ ReceiveOk(c) \/ Abandon(c)
  <2>1. /\ catalog' = catalog
        /\ \/ t = [s EXCEPT !.state = "held", !.wire = "running"]
           \/ \E wire : t = [s EXCEPT !.wire = wire]
           \/ t = [s EXCEPT !.state = "orphan"]
    <3>1. CASE Send(c)
      BY <1>3, <3>1 DEF Send
    <3>2. CASE SendCommit(c)
      BY <1>3, <3>2 DEF SendCommit, Wire
    <3>3. CASE ReceiveOk(c)
      BY <1>3, <3>3 DEF ReceiveOk, Wire
    <3>4. CASE Abandon(c)
      BY <1>3, <3>4 DEF Abandon
    <3> QED BY <1>7, <3>1, <3>2, <3>3, <3>4
  <2>2. t.log = s.log /\ t.locks = s.locks /\ catalog' = catalog
    BY <1>1, <2>1 DEF SessionState
  <2>3. ~ Abandon(c) => s.wire # "committed"
    BY <1>1, <1>7 DEF Send, SendCommit, ReceiveOk, SessionFits
  <2>4. Abandon(c) => t.wire = s.wire
    BY <1>1, <1>3 DEF Abandon, SessionState
  <2> QED BY <2>2, <2>3, <2>4
<1>8. CASE SendFails(c) \/ ReceiveRefusal(c)
  BY <1>4, <1>8 DEF SendFails, ReceiveRefusal
<1>9. CASE ReceiveCommitted(c) \/ Reap(c) \/ Vanish(c)
  BY <1>2, <1>3, <1>9 DEF ReceiveCommitted, Reap, Vanish
<1>10. CASE TakeLock(c)
  <2>1. PICK lock \in Needed(c) : Free(c, lock) /\ Connection(c, [s EXCEPT !.locks = @ \cup {lock}])
    BY <1>10 DEF TakeLock
  <2>2. lock \in Lock
    BY <1>1, <1>10, SentType DEF TakeLock
  <2>3. t = [s EXCEPT !.locks = @ \cup {lock}]
    BY <1>3, <2>1
  <2>4. t.log = s.log /\ t.wire = s.wire /\ t.locks = s.locks \cup {lock}
    BY <1>1, <2>3 DEF SessionState
  <2> QED BY <1>10, <2>1, <2>2, <2>4 DEF TakeLock
<1>11. CASE RunInTx(c)
  <2> DEFINE ran == Ran(c)
  <2> HIDE DEF ran
  <2>1. t = [s EXCEPT !.wire = "ok", !.log = Append(@, ran)]
    BY <1>3, <1>11 DEF RunInTx, ran
  <2>2. t.log = Append(s.log, ran) /\ t.locks = s.locks
    BY <1>1, <2>1 DEF SessionState
  <2> QED BY <1>11, <2>2 DEF RunInTx, ran
<1>12. ASSUME NEW log, Commit(c, log)
       PROVE  t.wire = "committed" /\ t.locks = {} /\ catalog' = RunAll(log, catalog)
  <2>1. t = [s EXCEPT !.wire = "committed", !.locks = {}]
    BY <1>3, <1>12 DEF Commit
  <2> QED BY <1>1, <1>12, <2>1 DEF Commit, SessionState
<1>13. CASE RunAutocommit(c)
  <2>1. ~ At(c, "idle")
    BY <1>1, <1>13 DEF RunAutocommit, CanRun, Running, NothingYet, NoSession, At
  <2>2. s.log = <<>>
    BY <1>1, <1>13, <2>1 DEF RunAutocommit, SessionFits, Log
  <2>3. Ran(c) \in Executed /\ CanRun(c)
    BY <1>1, <1>13, SentType DEF RunAutocommit
  <2>4. <<Ran(c)>> \in Seq(Executed)
    BY <2>3
  <2>5. Commit(c, <<Ran(c)>>)
    BY <1>13 DEF RunAutocommit
  <2> QED BY <1>12, <2>2, <2>3, <2>4, <2>5
<1>14. CASE RunCommit(c)
  <2>1. s.log \in Seq(Executed) /\ Commit(c, s.log) /\ s.wire = "committing"
    BY <1>1, <1>14 DEF RunCommit, Log, SessionState
  <2> QED BY <1>12, <2>1
<1>15. CASE Refuse(c)
  <2>1. t = [s EXCEPT !.wire = "refused", !.log = <<>>, !.locks = {}] /\ catalog' = catalog
    BY <1>3, <1>15 DEF Refuse
  <2> QED BY <1>1, <2>1 DEF SessionState
<1> QED BY <1>5, <1>6, <1>7, <1>8, <1>9, <1>10, <1>11, <1>13, <1>14, <1>15
        DEF Handler, Failure, Server, Execute

\* Locks of different calls stay apart.
LEMMA ApartStep ==
    ASSUME IInv, \A c \in Calls : LocksApart(c), [Next]_vars
    PROVE  \A c \in Calls : LocksApart(c)'
<1>1. CASE UNCHANGED vars
  BY <1>1 DEF vars, LocksApart
<1>2. ASSUME NEW c \in Calls,
             (\E r \in Requests : Reject(c, r) \/ Accept(c, r))
               \/ Handler(c) \/ Failure(c) \/ Server(c)
      PROVE  \A d \in Calls : LocksApart(d)'
  <2> DEFINE t == session'[c]
  <2>1. \A d \in Calls \ {c} : session'[d] = session[d]
    BY <1>2, OthersAlone DEF IInv
  <2>2. \/ t.locks \subseteq session[c].locks
        \/ \E lock \in Lock : Free(c, lock) /\ t.locks = session[c].locks \cup {lock}
    BY <1>2, SessionStep
  <2>3. \A l, m : Conflict(l, m) <=> Conflict(m, l)
    BY DEF Conflict
  <2>4. ASSUME NEW d \in Calls \ {c}, NEW l \in t.locks, NEW m \in session[d].locks
        PROVE  ~ Conflict(l, m)
    BY <2>2 DEF Free, LocksApart
  <2> QED BY <2>1, <2>3, <2>4 DEF LocksApart
<1> QED BY <1>1, <1>2 DEF Next

\* What a log's statements need stays covered, whatever the step.
LEMMA CoveredStep ==
    ASSUME IInv, \A c \in Calls : LogCovered(c) /\ LocksApart(c), [Next]_vars
    PROVE  \A c \in Calls : LogCovered(c)'
<1>1. CASE UNCHANGED vars
  BY <1>1 DEF vars, LogCovered, Log
<1>2. ASSUME NEW c \in Calls,
             (\E r \in Requests : Reject(c, r) \/ Accept(c, r))
               \/ Handler(c) \/ Failure(c) \/ Server(c)
      PROVE  \A d \in Calls : LogCovered(d)'
  <2> DEFINE s == session[c]
             t == session'[c]
  <2>1. /\ TypeOK /\ catalog \in Catalog
        /\ \A d \in Calls : /\ Log(d) \in Seq(Executed) /\ Len(Log(d)) <= MaxLog
                            /\ session[d].locks \in SUBSET Lock
    <3>1. ASSUME NEW d \in Calls
          PROVE  /\ Log(d) \in Seq(Executed) /\ Len(Log(d)) <= MaxLog
                 /\ session[d].locks \in SUBSET Lock
      <4>1. /\ Log(d) \in Seq(Executed) /\ session[d].locks \in SUBSET Lock
            /\ call[d].plan \in Seq(Planned)
        BY DEF IInv, TypeOK, SessionState, CallState, Log
      <4>2. Len(Log(d)) <= Len(call[d].plan) /\ Len(call[d].plan) <= MaxLog
        BY DEF IInv, SessionFits, PlanFits
      <4>3. Len(Log(d)) \in Nat /\ Len(call[d].plan) \in Nat
        BY <4>1, LenProperties
      <4>4. Len(Log(d)) <= MaxLog
        <5> DEFINE m == Len(Log(d))
                   n == Len(call[d].plan)
        <5> HIDE DEF m, n
        <5> QED BY <4>2, <4>3 DEF MaxLog, m, n
      <4> QED BY <4>1, <4>4
    <3> QED BY <3>1 DEF IInv, TypeOK
  <2>2. /\ SessionFits(c)
        /\ \A d \in Calls \ {c} : session'[d] = session[d]
    BY <1>2, OthersAlone DEF IInv
  <2>3. CASE t.log = <<>> /\ t.locks = {} /\ catalog' = catalog
    <3>1. Covered(<<>>, t.locks, catalog)
      BY <2>1, CoveredAppend
    <3>2. LogCovered(c)'
      BY <2>3, <3>1 DEF LogCovered, Log
    <3>3. \A d \in Calls \ {c} : LogCovered(d)'
      BY <2>2, <2>3 DEF LogCovered, Log
    <3> QED BY <3>2, <3>3
  <2>4. CASE /\ t.log = s.log /\ t.locks = s.locks /\ catalog' = catalog
             /\ s.wire = "committed" => t.wire = "committed"
    BY <2>2, <2>4 DEF LogCovered, Log
  <2>5. CASE /\ t.log = s.log /\ t.wire = s.wire /\ catalog' = catalog
             /\ \E lock \in Lock : Free(c, lock) /\ t.locks = s.locks \cup {lock}
    <3>1. s.locks \subseteq t.locks
      BY <2>5
    <3>2. Covered(s.log, s.locks, catalog) => Covered(s.log, t.locks, catalog)
      BY <3>1 DEF Covered
    <3> QED BY <2>2, <2>5, <3>2 DEF LogCovered, Log
  <2>6. CASE CanRun(c) /\ t.log = Append(s.log, Ran(c)) /\ t.locks = s.locks /\ catalog' = catalog
    <3>1. /\ Ran(c) \in Executed /\ Legal(Ran(c), View(c))
          /\ Locks(Ran(c), View(c)) \subseteq s.locks
      BY <2>1, <2>2, <2>6, RanIsCovered
    <3>2. Covered(s.log, s.locks, catalog)
      BY <2>6 DEF CanRun, Running, LogCovered, Log
    <3>3. Covered(Append(s.log, Ran(c)), s.locks, catalog)
      BY <2>1, <3>1, <3>2, CoveredAppend DEF View, Log
    <3> QED BY <2>2, <2>6, <3>3 DEF LogCovered, Log
  <2>7. CASE /\ t.wire = "committed" /\ t.locks = {}
             /\ \E log \in Seq(Executed) :
                   /\ catalog' = RunAll(log, catalog)
                   /\ \/ log = s.log /\ s.wire = "committing"
                      \/ s.log = <<>> /\ CanRun(c) /\ log = <<Ran(c)>>
    <3>1. PICK log \in Seq(Executed) :
            /\ catalog' = RunAll(log, catalog)
            /\ \/ log = s.log /\ s.wire = "committing"
               \/ s.log = <<>> /\ CanRun(c) /\ log = <<Ran(c)>>
      BY <2>7
    <3>2. Len(log) <= MaxLog /\ Covered(log, s.locks, catalog)
      BY <2>1, <2>2, <3>1, CommitCovered DEF Log
    <3>3. ASSUME NEW d \in Calls \ {c} PROVE LogCovered(d)'
      <4>1. \A l \in session[d].locks, m \in s.locks : ~ Conflict(l, m)
        BY DEF LocksApart
      <4>2. Same(session[d].locks, catalog, catalog')
        BY <2>1, <3>1, <3>2, <4>1, ReplayApart
      <4>3. catalog' \in Catalog
        BY <2>1, <3>1, RunAllType
      <4>4. session[d].wire # "committed" => Covered(Log(d), session[d].locks, catalog')
        BY <2>1, <4>2, <4>3, ReplayAlike DEF LogCovered
      <4> QED BY <2>2, <4>4 DEF LogCovered, Log
    <3>4. LogCovered(c)'
      BY <2>7 DEF LogCovered
    <3> QED BY <3>3, <3>4
  <2> QED BY <1>2, <2>3, <2>4, <2>5, <2>6, <2>7, SessionStep
<1> QED BY <1>1, <1>2 DEF Next

\* A connection is used for the plan of a valid request, and nothing else.
LEMMA ShapeStep ==
    ASSUME IInv, \A c \in Calls : PlanShape(c), [Next]_vars
    PROVE  \A c \in Calls : PlanShape(c)'
<1>1. CASE UNCHANGED vars
  BY <1>1 DEF vars, PlanShape
<1>2. ASSUME NEW c \in Calls,
             (\E r \in Requests : Reject(c, r) \/ Accept(c, r))
               \/ Handler(c) \/ Failure(c) \/ Server(c)
      PROVE  \A d \in Calls : PlanShape(d)'
  <2> DEFINE k == call[c]
  <2>1. \A d \in Calls \ {c} : session'[d] = session[d] /\ call'[d] = call[d]
    BY <1>2, OthersAlone DEF IInv
  <2>2. /\ k \in CallState /\ call \in [Calls -> CallState] /\ TypeOK /\ catalog \in Catalog
        /\ session \in [Calls -> SessionState]
        /\ k.pc \in {"idle", "read", "begin"} => session[c] = NoSession
        /\ SessionFits(c) /\ PlanFits(c)
    BY DEF IInv, TypeOK, NothingYet
  <2>3. CASE \/ (\E r \in Requests : Reject(c, r))
             \/ NothingToAlter(c) \/ RejectAlteration(c) \/ TableInfoFails(c) \/ BeginFails(c)
    <3>1. k.pc \in {"idle", "read", "begin"} /\ session' = session
      BY <2>3 DEF Reject, NothingToAlter, RejectAlteration, TableInfoFails, BeginFails, At
    <3>2. call'[c].pc = "done"
      <4>1. ASSUME NEW a, Answer(c, a) PROVE call'[c].pc = "done"
        BY <2>2, <4>1 DEF Answer, CallState
      <4>2. ASSUME NEW r, Reject(c, r) PROVE call'[c].pc = "done"
        BY <2>2, <4>2 DEF Reject, CallState
      <4> QED BY <2>3, <4>1, <4>2 DEF NothingToAlter, RejectAlteration, TableInfoFails, BeginFails
    <3> QED BY <2>1, <2>2, <3>1, <3>2 DEF PlanShape
  <2>4. CASE \E r \in Requests : Accept(c, r)
    <3>1. PICK r \in Requests : Accept(c, r)
      BY <2>4
    <3>2. r \in Request /\ Valid(r) /\ session' = session /\ session[c] = NoSession
      BY <2>2, <3>1, CallsAssumption DEF Accept, At
    <3> DEFINE pc == IF r.op = "AlterColumn" THEN "read" ELSE IF UsesTx(r) THEN "begin" ELSE "send"
               plan == IF r.op = "AlterColumn" THEN <<>> ELSE PlanOf(r)
    <3>3. /\ r.op = "AlterColumn" => pc = "read"
          /\ r.op # "AlterColumn" => plan = PlanOf(r)
      OBVIOUS
    <3>4. call' = [call EXCEPT ![c] = [@ EXCEPT !.request = r, !.pc = pc, !.plan = plan]]
      BY <3>1 DEF Accept
    <3> HIDE DEF pc, plan
    <3>5. call'[c].pc = pc /\ call'[c].request = r /\ call'[c].plan = plan
      BY <2>2, <3>4 DEF CallState
    <3> QED BY <2>1, <3>2, <3>3, <3>5 DEF PlanShape
  <2>5. CASE PlanAlteration(c)
    <3>1. PICK info \in CurrentInfo(catalog, k.request) :
            call' = [call EXCEPT ![c] = [@ EXCEPT
                !.pc = "begin", !.info = info, !.plan = AlterStatements(k.request, info)]]
      BY <2>5 DEF PlanAlteration
    <3>2. k.pc = "read" /\ session' = session /\ info \in ColumnInfo
      BY <2>2, <2>5, <3>1, CurrentInfoType DEF PlanAlteration, At
    <3>3. k.request \in Request /\ Valid(k.request) /\ k.request.op = "AlterColumn"
      BY <2>2, <3>2 DEF PlanShape, PlanFits, Op, At
    <3> DEFINE plan == AlterStatements(k.request, info)
    <3> HIDE DEF plan
    <3>4. /\ call'[c].pc = "begin" /\ call'[c].request = k.request
          /\ call'[c].info = info /\ call'[c].plan = plan
      BY <2>2, <3>1 DEF CallState, plan
    <3> QED BY <2>1, <3>2, <3>3, <3>4 DEF PlanShape, plan
  <2>6. CASE \/ BeginTx(c) \/ Send(c) \/ SendCommit(c) \/ ReceiveOk(c) \/ ReceiveRefusal(c)
             \/ ReceiveCommitted(c) \/ SendFails(c) \/ Abandon(c) \/ Vanish(c) \/ Server(c)
    <3>1. k.pc \in {"begin", "send", "wait"} \/ session[c] # NoSession
      <4>1. CASE Server(c) \/ Vanish(c)
        BY <2>2, <4>1 DEF Server, Vanish, TakeLock, Execute, RunInTx, RunAutocommit, RunCommit, CanRun,
           Refuse, Reap, Running, NoSession
      <4> QED BY <2>6, <4>1 DEF BeginTx, Send, SendCommit, ReceiveOk, ReceiveRefusal,
                 ReceiveCommitted, SendFails, Abandon, At
    <3>2. /\ call'[c].request = k.request /\ call'[c].info = k.info /\ call'[c].plan = k.plan
          /\ call'[c].pc # "read" \/ call'[c].pc = k.pc
      <4>1. CASE BeginTx(c) \/ Send(c) \/ SendCommit(c) \/ ReceiveOk(c)
        BY <2>2, <4>1 DEF BeginTx, Send, SendCommit, ReceiveOk, Goto, CallState
      <4>2. CASE ReceiveRefusal(c) \/ ReceiveCommitted(c) \/ SendFails(c) \/ Abandon(c)
        <5>1. \E a : Answer(c, a)
          BY <4>2 DEF ReceiveRefusal, ReceiveCommitted, SendFails, Abandon
        <5> QED BY <2>2, <5>1 DEF Answer, CallState
      <4>3. CASE Server(c) \/ Vanish(c)
        BY <2>2, <4>3 DEF Server, Vanish, TakeLock, Execute, RunInTx, RunAutocommit, RunCommit,
           Refuse, Reap
      <4> QED BY <2>6, <4>1, <4>2, <4>3
    <3>3. k.pc # "read"
      <4>1. CASE session[c] # NoSession
        BY <2>2, <4>1
      <4> QED BY <3>1, <4>1
    <3> QED BY <2>1, <3>1, <3>2, <3>3 DEF PlanShape
  <2> QED BY <1>2, <2>3, <2>4, <2>5, <2>6 DEF Handler, Failure
<1> QED BY <1>1, <1>2 DEF Next

\* Logs are covered by locks that no other call conflicts with, and only plans
\* of valid requests are under way: always.
THEOREM ReplayInvariance == Spec => []ReplayInv
<1>1. Init => ReplayInv
  <2> SUFFICES ASSUME Init, NEW c \in Calls PROVE LogCovered(c) /\ LocksApart(c) /\ PlanShape(c)
    BY DEF ReplayInv
  <2>1. /\ Log(c) = <<>> /\ \A d \in Calls : session[d].locks = {}
        /\ session[c] = NoSession /\ call[c].pc = "idle"
    BY DEF Init, Log, NoSession, Idle
  <2>2. Len(<<>>) = 0 /\ 1..0 = {}
    OBVIOUS
  <2> QED BY <2>1, <2>2 DEF LogCovered, Covered, LocksApart, PlanShape
<1>2. IInv /\ ReplayInv /\ [Next]_vars => ReplayInv'
  BY ApartStep, CoveredStep, ShapeStep DEF ReplayInv
<1> QED BY <1>1, <1>2, Invariance, PTL DEF Spec

\* Two-phase locking pays: what a transaction ran stays legal, in its order, on
\* whatever others commit meanwhile.
THEOREM LogsStayLegal == Spec => []ReplayStaysLegal
<1>1. ReplayInv => ReplayStaysLegal
  BY DEF ReplayInv, LogCovered, Covered, ReplayStaysLegal, AllLegal
<1> QED BY <1>1, ReplayInvariance, PTL

(***************************************************************************)
(* What a commit makes of the catalog.                                     *)
(***************************************************************************)
\* A call's commit: the plan of its valid request, legal where it stands.
CommitOf(c, log) ==
    LET k == call[c] IN
    /\ catalog' = RunAll(log, catalog) /\ Covered(log, session[c].locks, catalog)
    /\ Len(log) = Len(k.plan) /\ Len(log) \in 0..MaxLog
    /\ \A j \in 1..Len(k.plan) : log[j] \in Namings(k.plan[j])
    /\ k.request \in Request /\ Valid(k.request)
    /\ k.plan \in Seq(Planned)
    /\ IF Op(c) = "AlterColumn"
       THEN k.info \in ColumnInfo /\ k.plan = AlterStatements(k.request, k.info)
       ELSE k.plan = PlanOf(k.request)

\* Only a commit changes the catalog, and it is such a commit.
LEMMA WhoCommits ==
    ASSUME IInv, ReplayInv, [Next]_vars
    PROVE  /\ \A c \in Calls : Committed(c) => \E log \in Seq(Executed) : CommitOf(c, log)
           /\ catalog' = catalog \/ \E c \in Calls : Committed(c)
<1>1. applied \in [Calls -> Nat] /\ catalog \in Catalog /\ TypeOK
  BY DEF IInv, TypeOK
<1>2. CASE UNCHANGED vars
  <2>1. \A c \in Calls : ~ Committed(c)
    BY <1>1, <1>2 DEF vars, Committed
  <2> QED BY <1>2, <2>1 DEF vars
<1>3. ASSUME NEW c \in Calls,
             (\E r \in Requests : Reject(c, r) \/ Accept(c, r))
               \/ Handler(c) \/ Failure(c) \/ Server(c)
      PROVE  /\ \A d \in Calls : Committed(d) => \E log \in Seq(Executed) : CommitOf(d, log)
             /\ catalog' = catalog \/ \E d \in Calls : Committed(d)
  <2>1. \A d \in Calls \ {c} : ~ Committed(d)
    BY <1>1, <1>3, OthersAlone DEF Committed
  <2>2. CASE RunAutocommit(c) \/ RunCommit(c)
    <3>1. PICK log \in Seq(Executed) :
            /\ Commit(c, log)
            /\ \/ log = Log(c) /\ session[c].wire = "committing"
               \/ Log(c) = <<>> /\ CanRun(c) /\ log = <<Ran(c)>>
            /\ Len(log) = Len(call[c].plan) /\ Len(log) \in 0..MaxLog
            /\ \A j \in 1..Len(call[c].plan) : log[j] \in Namings(call[c].plan[j])
      BY <2>2, CommitLog
    <3>2. /\ SessionFits(c) /\ LogCovered(c) /\ PlanShape(c) /\ NothingYet(c)
          /\ call[c] \in CallState /\ session[c].wire \in {"running", "committing"}
      BY <2>2 DEF IInv, TypeOK, ReplayInv, RunAutocommit, RunCommit, CanRun, Running
    <3>3. Len(Log(c)) <= MaxLog
      <4>1. CASE log = Log(c)
        <5> HIDE DEF CommitOf
        <5> DEFINE n == Len(log)
        <5>1. n \in 0..MaxLog
          BY <3>1
        <5> HIDE DEF n
        <5>2. n <= MaxLog
          BY <5>1 DEF MaxLog
        <5> QED BY <4>1, <5>2 DEF n
      <4>2. CASE Log(c) = <<>>
        BY <4>2 DEF MaxLog
      <4> QED BY <3>1, <4>1, <4>2
    <3>4. Covered(log, session[c].locks, catalog)
      BY <1>1, <3>1, <3>2, <3>3, CommitCovered
    <3>5. session[c] # NoSession /\ call[c].pc # "read"
      <4>1. session[c] # NoSession
        BY <3>2 DEF NoSession
      <4> QED BY <3>2, <4>1 DEF NothingYet
    <3>6. /\ call[c].request \in Request /\ Valid(call[c].request) /\ call[c].plan \in Seq(Planned)
          /\ IF Op(c) = "AlterColumn"
             THEN /\ call[c].info \in ColumnInfo
                  /\ call[c].plan = AlterStatements(call[c].request, call[c].info)
             ELSE call[c].plan = PlanOf(call[c].request)
      BY <3>2, <3>5 DEF PlanShape, Op, CallState
    <3>7. CommitOf(c, log)
      BY <3>1, <3>4, <3>6 DEF Commit, CommitOf
    <3>8. Committed(c)
      BY <1>1, <3>1 DEF Commit, Committed
    <3> QED BY <2>1, <3>7, <3>8
  <2>3. CASE ~ (RunAutocommit(c) \/ RunCommit(c))
    <3>1. applied' = applied /\ catalog' = catalog
      BY <1>3, <2>3 DEF Handler, Failure, Server, Execute, Reject, Accept, PlanAlteration,
         NothingToAlter, RejectAlteration, TableInfoFails, BeginTx, BeginFails, Send, SendCommit,
         SendFails, Abandon, ReceiveOk, ReceiveRefusal, ReceiveCommitted, TakeLock, RunInTx,
         Refuse, Reap, Vanish
    <3> QED BY <1>1, <3>1 DEF Committed
  <2> QED BY <2>2, <2>3
<1> QED BY <1>2, <1>3 DEF Next

\* Indexes keep unique names in their schemas, foreign keys on their tables,
\* and columns the types that format_type writes: what PostgreSQL guarantees.
THEOREM CatalogStaysWellFormed == Spec => []CatalogInv
<1>1. Init => CatalogInv
  BY InitialAssumption DEF Init, CatalogInv
<1>2. IInv /\ ReplayInv /\ CatalogInv /\ [Next]_vars => CatalogInv'
  <2> SUFFICES ASSUME IInv, ReplayInv, CatalogInv, [Next]_vars PROVE CatalogInv'
    OBVIOUS
  <2>1. CASE catalog' = catalog
    BY <2>1 DEF CatalogInv
  <2>2. CASE \E c \in Calls : Committed(c)
    <3>1. PICK c \in Calls : \E log \in Seq(Executed) : CommitOf(c, log)
      BY <2>2, WhoCommits
    <3>2. PICK log \in Seq(Executed) : CommitOf(c, log)
      BY <3>1
    <3> DEFINE n == Len(log)
    <3>3. n \in 0..MaxLog
      BY <3>2 DEF CommitOf
    <3> HIDE DEF n
    <3>4. n <= MaxLog
      BY <3>3 DEF MaxLog
    <3>5. Len(log) <= MaxLog
      BY <3>4 DEF n
    <3>6. catalog \in Catalog
      BY DEF IInv, TypeOK
    <3> QED BY <3>2, <3>5, <3>6, ReplayWellFormed DEF CommitOf, CatalogInv
  <2> QED BY <2>1, <2>2, WhoCommits
<1> QED BY <1>1, <1>2, Invariance, ReplayInvariance, PTL DEF Spec

\* A replacement's commit runs the plan's drop and then its create.
LEMMA ReplacementLog ==
    ASSUME NEW c \in Calls, NEW log \in Seq(Executed), CommitOf(c, log)
    PROVE  LET r == call[c].request IN
           /\ r.op = "DropIndex" => /\ Len(log) = 1
                                    /\ log[1] \in Namings(DropIndexStatement(r.table, r.name))
           /\ r.op = "ReplaceIndex" =>
                /\ Len(log) = 2
                /\ log[1] \in Namings(DropIndexStatement(r.table, r.previous))
                /\ log[2] \in Namings(CreateIndexStatement(r))
           /\ r.op = "ReplaceForeignKey" =>
                /\ Len(log) = 2
                /\ log[1] \in Namings(DropConstraintStatement(r.table, r.previous))
                /\ log[2] \in Namings(ForeignKeyStatement(r))
<1> DEFINE r == call[c].request
           plan == call[c].plan
<1>1. Len(log) = Len(plan) /\ \A j \in 1..Len(plan) : log[j] \in Namings(plan[j])
  BY DEF CommitOf
<1>2. r.op # "AlterColumn" => plan = PlanOf(r)
  BY DEF CommitOf, Op
<1> HIDE DEF plan
<1>3. ASSUME r.op = "DropIndex"
      PROVE  Len(log) = 1 /\ log[1] \in Namings(DropIndexStatement(r.table, r.name))
  <2> DEFINE drop == DropIndexStatement(r.table, r.name)
  <2>1. plan = <<drop>>
    BY <1>2, <1>3 DEF PlanOf
  <2> HIDE DEF drop
  <2> QED BY <1>1, <2>1 DEF drop
<1>4. ASSUME NEW drop, NEW create, plan = <<drop, create>>
      PROVE  Len(log) = 2 /\ log[1] \in Namings(drop) /\ log[2] \in Namings(create)
  BY <1>1, <1>4
<1>5. r.op = "ReplaceIndex" =>
        plan = <<DropIndexStatement(r.table, r.previous), CreateIndexStatement(r)>>
  BY <1>2 DEF PlanOf
<1>6. r.op = "ReplaceForeignKey" =>
        plan = <<DropConstraintStatement(r.table, r.previous), ForeignKeyStatement(r)>>
  BY <1>2 DEF PlanOf
<1> QED BY <1>3, <1>4, <1>5, <1>6, Zenon

\* DropIndex and ReplaceIndex take away exactly the index of that name in the
\* table's schema, and on that very table when the name ends in _pkey.
THEOREM DropsHitTheirNames == Spec => DropHitsItsName
<1> DEFINE Hits ==
        \A c \in Calls :
          Committed(c) /\ Op(c) \in {"DropIndex", "ReplaceIndex"} =>
            LET r == call[c].request
                name == IF r.op = "DropIndex" THEN r.name ELSE r.previous
            IN  \A i \in catalog.indexes \ catalog'.indexes :
                    /\ i.name = name /\ Schema(i.table) = Schema(TableParts(r.table))
                    /\ name \in PkeyTexts => i.table = TableParts(r.table)
<1>1. IInv /\ ReplayInv /\ CatalogInv /\ [Next]_vars => [Hits]_vars
  <2> SUFFICES ASSUME IInv, ReplayInv, CatalogInv, [Next]_vars,
                      NEW c \in Calls, Committed(c), Op(c) \in {"DropIndex", "ReplaceIndex"}
               PROVE  LET r == call[c].request
                          name == IF r.op = "DropIndex" THEN r.name ELSE r.previous
                      IN  \A i \in catalog.indexes \ catalog'.indexes :
                            /\ i.name = name /\ Schema(i.table) = Schema(TableParts(r.table))
                            /\ name \in PkeyTexts => i.table = TableParts(r.table)
    OBVIOUS
  <2> DEFINE r == call[c].request
  <2>1. PICK log \in Seq(Executed) : CommitOf(c, log)
    BY WhoCommits
  <2>2. /\ catalog \in Catalog /\ WellNamed(catalog) /\ r \in Request
        /\ catalog' = RunAll(log, catalog) /\ Covered(log, session[c].locks, catalog)
        /\ r.op \in {"DropIndex", "ReplaceIndex"}
    BY <2>1 DEF IInv, TypeOK, CatalogInv, CommitOf, Op
  <2>3. CASE r.op = "DropIndex"
    <3> DEFINE drop == DropIndexStatement(r.table, r.name)
    <3>1. r.table \in TableText /\ r.name \in Texts
      BY <2>2, <2>3 DEF Request, ColumnChange, ColumnDef, NamedDrop, IndexChange, ForeignKeyChange
    <3>2. Len(log) = 1 /\ log[1] \in Namings(drop)
      BY <2>1, <2>3, ReplacementLog
    <3>3. ~ AddsKey(drop)
      BY Zenon DEF AddsKey, DropIndexStatement, DropConstraintStatement
    <3>4. log[1] = drop
      BY <3>2, <3>3, NamingIsItself
    <3>5. catalog' = Effect(drop, catalog)
      BY <2>2, <3>2, <3>4, ShortLog
    <3> HIDE DEF r
    <3> QED BY <2>2, <2>3, <3>1, <3>5, DropTakesOne DEF r
  <2>4. CASE r.op = "ReplaceIndex"
    <3>1. /\ Len(log) = 2
          /\ log[1] \in Namings(DropIndexStatement(r.table, r.previous))
          /\ log[2] \in Namings(CreateIndexStatement(r))
      BY <2>1, <2>4, ReplacementLog
    <3>2. \A i \in catalog.indexes \ catalog'.indexes :
            /\ i.name = r.previous /\ Schema(i.table) = Schema(TableParts(r.table))
            /\ r.previous \in PkeyTexts => i.table = TableParts(r.table)
      BY <2>2, <2>4, <3>1, IndexReplaced
    <3> QED BY <2>4, <3>2
  <2> QED BY <2>2, <2>3, <2>4
<1> QED BY <1>1, Invariance, ReplayInvariance, CatalogStaysWellFormed, PTL
    DEF Spec, DropHitsItsName

\* A drop-and-create replacement is never seen half done: in no step does an
\* index or a foreign key leave the committed catalog unless the call asked for
\* a drop, or its replacement arrives in the same step.
THEOREM ReplacementsAreAtomic == Spec => ReplacementIsAtomic
<1> DEFINE Atomically ==
        /\ catalog'.indexes # catalog.indexes =>
             \E c \in Calls : Committed(c) /\
                (Op(c) = "ReplaceIndex" => catalog'.indexes \ catalog.indexes # {})
        /\ catalog'.fks # catalog.fks =>
             \E c \in Calls : Committed(c) /\
                (Op(c) = "ReplaceForeignKey" => catalog'.fks \ catalog.fks # {})
<1>1. IInv /\ ReplayInv /\ CatalogInv /\ [Next]_vars => [Atomically]_vars
  <2> SUFFICES ASSUME IInv, ReplayInv, CatalogInv, [Next]_vars, catalog' # catalog
               PROVE  Atomically
    OBVIOUS
  <2>1. PICK c \in Calls : Committed(c)
    BY WhoCommits
  <2>2. PICK log \in Seq(Executed) : CommitOf(c, log)
    BY <2>1, WhoCommits
  <2> DEFINE r == call[c].request
  <2>3. /\ catalog \in Catalog /\ WellNamed(catalog) /\ r \in Request /\ Op(c) = r.op
        /\ catalog' = RunAll(log, catalog) /\ Covered(log, session[c].locks, catalog)
    BY <2>2 DEF IInv, TypeOK, CatalogInv, CommitOf, Op
  <2>4. ASSUME r.op = "ReplaceIndex", catalog'.indexes # catalog.indexes
        PROVE  catalog'.indexes \ catalog.indexes # {}
    <3>1. /\ Len(log) = 2
          /\ log[1] \in Namings(DropIndexStatement(r.table, r.previous))
          /\ log[2] \in Namings(CreateIndexStatement(r))
      BY <2>2, <2>4, ReplacementLog
    <3> QED BY <2>3, <2>4, <3>1, IndexReplaced
  <2>5. ASSUME r.op = "ReplaceForeignKey", catalog'.fks # catalog.fks
        PROVE  catalog'.fks \ catalog.fks # {}
    <3>1. /\ Len(log) = 2
          /\ log[1] \in Namings(DropConstraintStatement(r.table, r.previous))
          /\ log[2] \in Namings(ForeignKeyStatement(r))
      BY <2>2, <2>5, ReplacementLog
    <3> QED BY <2>3, <2>5, <3>1, KeyReplaced
  <2> QED BY <2>1, <2>3, <2>4, <2>5
<1> QED BY <1>1, Invariance, ReplayInvariance, CatalogStaysWellFormed, PTL
    DEF Spec, ReplacementIsAtomic

\* An alteration's commit amends the one column and no other.
LEMMA AlterationCommit ==
    ASSUME IInv, NEW c \in Calls, NEW log \in Seq(Executed), CommitOf(c, log), Op(c) = "AlterColumn"
    PROVE  /\ call[c].request \in Request /\ Valid(call[c].request) /\ call[c].info \in ColumnInfo
           /\ catalog'.columns
                = {Amended(x, call[c].request, call[c].info) : x \in catalog.columns}
<1> DEFINE r == call[c].request
           info == call[c].info
<1>1. /\ r \in Request /\ r.op = "AlterColumn" /\ Valid(r) /\ info \in ColumnInfo
      /\ call[c].plan = AlterStatements(r, info) /\ Len(log) = Len(call[c].plan)
      /\ \A j \in 1..Len(call[c].plan) : log[j] \in Namings(call[c].plan[j])
      /\ catalog' = RunAll(log, catalog) /\ Covered(log, session[c].locks, catalog)
      /\ catalog \in Catalog
  BY DEF CommitOf, Op, IInv, TypeOK
<1> HIDE DEF r, info
<1>2. log = AlterStatements(r, info)
  BY <1>1, AlterRunsItsPlan
<1>3. catalog'.columns = {Amended(x, r, info) : x \in catalog.columns}
  BY <1>1, <1>2, AlterOutcome
<1> QED BY <1>1, <1>3 DEF r, info

\* What an alteration leaves of its column: all that the request did not differ
\* in.
LEMMA AmendedKeeps ==
    ASSUME NEW r, NEW info, NEW old \in Column,
           old.table = TableParts(r.table), old.name = r.previous
    PROVE  KeepsAllElse(old, Amended(old, r, info), r, info)
BY DEF Amended, KeepsAllElse, Column

\* However stale the information it went by, an alteration changes no other
\* column than the one that has the name when it commits, and nothing of that
\* one that the request did not differ in.
THEOREM AlterationsStayInTheirDiff == Spec => AlterStaysInItsDiff
<1> DEFINE Stays ==
        \A c \in Calls :
          Committed(c) /\ Op(c) = "AlterColumn" =>
            LET r == call[c].request IN
            \A old \in catalog.columns \ catalog'.columns :
                /\ old.table = TableParts(r.table) /\ old.name = r.previous
                /\ \E new \in catalog'.columns : KeepsAllElse(old, new, r, call[c].info)
<1>1. IInv /\ ReplayInv /\ [Next]_vars => [Stays]_vars
  <2> SUFFICES ASSUME IInv, ReplayInv, [Next]_vars, NEW c \in Calls, Committed(c),
                      Op(c) = "AlterColumn", NEW old \in catalog.columns \ catalog'.columns
               PROVE  LET r == call[c].request IN
                      /\ old.table = TableParts(r.table) /\ old.name = r.previous
                      /\ \E new \in catalog'.columns : KeepsAllElse(old, new, r, call[c].info)
    OBVIOUS
  <2> DEFINE r == call[c].request
             info == call[c].info
  <2>1. PICK log \in Seq(Executed) : CommitOf(c, log)
    BY WhoCommits
  <2>2. catalog'.columns = {Amended(x, r, info) : x \in catalog.columns}
    BY <2>1, AlterationCommit
  <2>3. old \in Column
    BY DEF IInv, TypeOK, Catalog
  <2> HIDE DEF r, info
  <2>4. Amended(old, r, info) \in catalog'.columns /\ Amended(old, r, info) # old
    BY <2>2
  <2>5. old.table = TableParts(r.table) /\ old.name = r.previous
    BY <2>4, Zenon DEF Amended
  <2>6. KeepsAllElse(old, Amended(old, r, info), r, info)
    BY <2>3, <2>5, AmendedKeeps
  <2> QED BY <2>4, <2>5, <2>6 DEF r, info
<1> QED BY <1>1, Invariance, ReplayInvariance, PTL DEF Spec, AlterStaysInItsDiff

\* When nobody changed the column between AlterColumn's read and its commit, the
\* column ends up as the request describes it, in every respect.
THEOREM FreshAlterationsAreExact == Spec => FreshAlterationIsExact
<1> DEFINE Exactly ==
        \A c \in Calls :
          /\ Committed(c) /\ Op(c) = "AlterColumn" /\ NoNamesake(c)
          /\ CurrentInfo(catalog, call[c].request) = {call[c].info}
          => \E column \in catalog'.columns :
                /\ column.table = TableParts(call[c].request.table)
                /\ column.num = call[c].info.num
                /\ IsAsAsked(column, call[c].request, call[c].info)
<1>1. IInv /\ ReplayInv /\ CatalogInv /\ [Next]_vars => [Exactly]_vars
  <2> SUFFICES ASSUME IInv, ReplayInv, CatalogInv, [Next]_vars, NEW c \in Calls, Committed(c),
                      Op(c) = "AlterColumn", NoNamesake(c),
                      CurrentInfo(catalog, call[c].request) = {call[c].info}
               PROVE  \E column \in catalog'.columns :
                        /\ column.table = TableParts(call[c].request.table)
                        /\ column.num = call[c].info.num
                        /\ IsAsAsked(column, call[c].request, call[c].info)
    OBVIOUS
  <2> DEFINE r == call[c].request
             info == call[c].info
  <2>1. PICK log \in Seq(Executed) : CommitOf(c, log)
    BY WhoCommits
  <2>2. /\ catalog'.columns = {Amended(x, r, info) : x \in catalog.columns}
        /\ r \in Request /\ Valid(r) /\ r.op = "AlterColumn"
    BY <2>1, AlterationCommit DEF Op
  <2>3. PICK x \in catalog.columns : x.table = TableParts(r.table) /\ info = Info(x) /\ info.name = r.previous
    BY DEF CurrentInfo, TableInfo
  <2>4. x.name = r.previous
    BY <2>3 DEF NoNamesake, Info
  <2>5. x \in Column /\ \E t \in Texts : x.type = FormatType[t]
    BY DEF IInv, TypeOK, Catalog, CatalogInv, WellTyped
  <2> DEFINE new == Amended(x, r, info)
  <2>6. new \in catalog'.columns
    BY <2>2
  <2>7. /\ new.table = x.table /\ new.num = x.num /\ new.name = r.name
        /\ new.type = IF typeChanged(r, info) THEN FormatType[Trimmed[r.type]] ELSE x.type
        /\ new.nullable = IF r.nullable # info.nullable THEN r.nullable ELSE x.nullable
        /\ new.default = IF defaultChanged(r, info)
                         THEN Stored(OptionalDefault(r.default)) ELSE x.default
    BY <2>3, <2>4, <2>5 DEF Amended, Column
  <2> HIDE DEF new, r, info
  <2>8. new.type = FormatType[Trimmed[r.type]]
    <3>1. CASE typeChanged(r, info)
      BY <2>7, <3>1
    <3>2. CASE ~ typeChanged(r, info)
      <4>1. PICK t \in Texts : x.type = FormatType[t]
        BY <2>5
      <4>2. r.type \in TypeTexts
        BY <2>2 DEF Valid, validateColumnChange, validateColumnDef, ValidType
      <4>3. EqualFold(Trimmed[r.type], Trimmed[Displayed[FormatType[t]]])
        BY <2>3, <3>2, <4>1 DEF typeChanged, Info
      <4> QED BY <2>7, <3>2, <4>1, <4>2, <4>3, TypesAssumption
    <3> QED BY <3>1, <3>2
  <2>9. new.nullable = r.nullable
    BY <2>3, <2>7 DEF Info
  <2>10. Info(new).default = r.default \/ new.default = Stored(OptionalDefault(r.default))
    <3>1. CASE defaultChanged(r, info)
      BY <2>7, <3>1
    <3>2. CASE ~ defaultChanged(r, info)
      <4>1. new.default = x.default /\ r.default = info.default
        BY <2>7, <3>2 DEF defaultChanged
      <4> QED BY <2>3, <4>1 DEF Info
    <3> QED BY <3>1, <3>2
  <2>11. new.table = TableParts(r.table) /\ new.num = info.num
    BY <2>3, <2>7 DEF Info
  <2> QED BY <2>6, <2>7, <2>8, <2>9, <2>10, <2>11 DEF IsAsAsked, r, info
<1> QED BY <1>1, Invariance, ReplayInvariance, CatalogStaysWellFormed, PTL
    DEF Spec, FreshAlterationIsExact
=============================================================================
