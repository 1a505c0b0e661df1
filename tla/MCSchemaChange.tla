--------------------------- MODULE MCSchemaChange ---------------------------
(***************************************************************************)
(* Instances of SchemaChange for TLC: the texts in play, two small tables  *)
(* and the requests of each run.                                           *)
(***************************************************************************)
EXTENDS SchemaChange, TLC

Plain == {"", "public", "t", "s", "u", "a", "b", "c", "d", "i", "j", "t_pkey", "t_pkey1", "u_pkey",
          "t_fkey", "t_fkey1", "integer", "text", "0", "x", "'x'::text", "NULL",
          "CASCADE", "NO ACTION", "BOGUS", "IDENTITY ALWAYS", "AS IDENTITY"}
\* "a^" stands for a name with a control character that displays as "a".
MCTexts == Plain \cup {" ", " a", "a^", "int4", "Integer", " Integer", "INTEGER", "text[]", "0;", "cascade"}

Given(f, default) == [t \in MCTexts |-> IF t \in DOMAIN f THEN f[t] ELSE default[t]]
Same == [t \in MCTexts |-> t]

MCTrimmed == Given(" " :> "" @@ " a" :> "a" @@ " Integer" :> "Integer", Same)
MCFolded == Given("integer" :> "INTEGER" @@ "Integer" :> "INTEGER" @@ "cascade" :> "CASCADE", Same)
MCDisplayed == Given("a^" :> "a", Same)
MCControlTexts == {"a^"}
MCSemicolonTexts == {"0;"}
MCTypeTexts == {"integer", "text", "int4", "Integer", " Integer", "INTEGER"}
MCLiteralTexts == {"0", "NULL"}
MCPkeyTexts == {"t_pkey", "u_pkey"}

T == <<"public", "t">>
U == <<"s", "u">>
MCTables == {T, U}
MCFormatType ==
    Given("int4" :> "integer" @@ "INTEGER" :> "integer" @@ "Integer" :> "integer"
        @@ " Integer" :> "integer", Same)
MCDefaultText ==
    [e \in [quoted : BOOLEAN, text : MCTexts] |->
        IF e.quoted /\ e.text = "x" THEN "'x'::text" ELSE e.text]
MCIdentityOf == Given("AS IDENTITY" :> "IDENTITY ALWAYS", [t \in MCTexts |-> ""])
MCPrimaryKeyNames(t) == IF t = T THEN <<"t_pkey", "t_pkey1">> ELSE <<"u_pkey">>
MCForeignKeyNames == <<"t_fkey", "t_fkey1">>

Col(table, num, name, type, nullable) ==
    [table |-> table, num |-> num, name |-> name, type |-> type, nullable |-> nullable,
     default |-> Nil, identity |-> ""]
Idx(table, name, columns, unique, primary) ==
    [table |-> table, name |-> name, columns |-> columns, unique |-> unique, primary |-> primary]

(***************************************************************************)
(* Columns: renames, types, defaults, namesakes, added and dropped columns *)
(***************************************************************************)
ColumnsCatalog ==
    [columns |-> {Col(T, 1, "a^", "text", TRUE), Col(T, 2, "a", "integer", FALSE),
                  [Col(T, 3, "b", "text", TRUE) EXCEPT
                        !.default = [quoted |-> TRUE, text |-> "x"]]},
     serial |-> 4, indexes |-> {Idx(T, "i", <<"b">>, FALSE, FALSE)}, fks |-> {}]

Alter(previous, name, type, nullable, default) ==
    [op |-> "AlterColumn", table |-> <<"t">>, previous |-> previous, name |-> name,
     type |-> type, nullable |-> nullable, default |-> default, attributes |-> Nil]
Add(name, type, nullable, default, attributes) ==
    [op |-> "AddColumn", table |-> T, name |-> name, type |-> type,
     nullable |-> nullable, default |-> default, attributes |-> attributes]
Drop(op, name) == [op |-> op, table |-> <<"t">>, name |-> name]
On(table, r) == [r EXCEPT !.table = table]

ColumnRequests ==
    {Alter("b", "c", "int4", FALSE, "0"),           \* everything at once
     Alter("b", "b", "text", TRUE, "'x'::text"),    \* nothing to do, at first
     Alter("b", "b", "INTEGER", TRUE, Nil),
     Alter("b", "b", "text", FALSE, "'x'::text"),
     Alter("a", "a", "text", TRUE, "x"),            \* "a^" is found first
     [Alter("b", "c", "text", FALSE, "'x'::text") EXCEPT !.attributes = "IDENTITY ALWAYS"],
     Alter("c", "b", "integer", FALSE, "0;"),       \* rejected
     Drop("DropColumn", "b"),
     Add("c", " Integer", TRUE, Nil, "AS IDENTITY"),
     Add("b", "text", FALSE, "NULL", Nil)}

(***************************************************************************)
(* Indexes and foreign keys                                                *)
(***************************************************************************)
KeysCatalog ==
    [columns |-> {Col(T, 1, "a", "integer", FALSE), Col(T, 2, "b", "integer", TRUE),
                  Col(U, 3, "a", "integer", FALSE)},
     serial |-> 4,
     indexes |-> {Idx(T, "t_pkey", <<"a">>, TRUE, TRUE), Idx(T, "i", <<"b">>, FALSE, FALSE),
                  Idx(U, "j", <<"a">>, TRUE, FALSE), Idx(U, "i", <<"a">>, FALSE, FALSE)},
     fks |-> {[table |-> T, name |-> "t_fkey", columns |-> <<"b">>, ref |-> U,
               refColumns |-> <<"a">>, index |-> "j"]}]

NewIndex(name, columns, unique, primaryKey) ==
    [op |-> "CreateIndex", table |-> <<"t">>, name |-> name, columns |-> columns,
     unique |-> unique, primaryKey |-> primaryKey]
Replace(new, op, previous) ==
    [f \in DOMAIN new \cup {"previous"} |->
        IF f = "op" THEN op ELSE IF f = "previous" THEN previous ELSE new[f]]
NewForeignKey(table, columns, refTable, refColumns, actions) ==
    [op |-> "CreateForeignKey", table |-> table, columns |-> columns,
     refTable |-> refTable, refColumns |-> refColumns, actions |-> actions]

IndexRequests ==
    {NewIndex("c", <<" a", "b">>, TRUE, FALSE),
     NewIndex("i", <<"b">>, FALSE, FALSE),
     NewIndex("", <<"a", " a">>, FALSE, TRUE),      \* rejected: a column repeated
     Replace(NewIndex("", <<"b">>, FALSE, TRUE), "ReplaceIndex", "t_pkey"),
     Replace(NewIndex("i", <<"a">>, TRUE, FALSE), "ReplaceIndex", "i"),
     Replace(NewIndex("c", <<"b">>, FALSE, FALSE), "ReplaceIndex", "t_pkey"),
     Drop("DropIndex", "i"), Drop("DropIndex", "t_pkey"), On(U, Drop("DropIndex", "i")),
     Drop("DropColumn", "b")}

ForeignKeyRequests ==
    {NewForeignKey(<<"t">>, <<"a">>, U, <<"a">>, <<"cascade", "NO ACTION">>),
     NewForeignKey(U, <<"a">>, T, <<"a">>, <<"CASCADE", "CASCADE">>),
     NewForeignKey(U, <<"a">>, T, <<"a">>, <<"CASCADE", "BOGUS">>),
     Replace(NewForeignKey(<<"t">>, <<"a">>, U, <<" a">>, <<"CASCADE", "CASCADE">>),
             "ReplaceForeignKey", "t_fkey"),
     Replace(NewForeignKey(<<"t">>, <<"b">>, T, <<"a">>, <<"CASCADE", "CASCADE">>),
             "ReplaceForeignKey", "t_fkey"),
     Drop("DropForeignKey", "t_fkey"),
     Drop("DropIndex", "t_pkey"), On(U, Drop("DropIndex", "j")),
     On(U, Alter("a", "c", "integer", FALSE, Nil))}

(***************************************************************************)
(* All of them together: a key of each kind on a table whose columns are   *)
(* altered                                                                 *)
(***************************************************************************)
CallsCatalog ==
    [columns |-> ColumnsCatalog.columns
                    \cup {Col(T, 4, "d", "integer", TRUE), Col(U, 5, "a", "integer", FALSE)},
     serial |-> 6,
     indexes |-> KeysCatalog.indexes,
     fks |-> {[k EXCEPT !.columns = <<"d">>] : k \in KeysCatalog.fks}]

CallRequests ==
    ColumnRequests \cup IndexRequests \cup
    {Replace(NewForeignKey(<<"t">>, <<"a">>, U, <<" a">>, <<"CASCADE", "CASCADE">>),
             "ReplaceForeignKey", "t_fkey"),
     Drop("DropForeignKey", "t_fkey"), On(U, Drop("DropIndex", "j"))}

(***************************************************************************)
(* Three calls at one column: names reused, information twice out of date  *)
(***************************************************************************)
RaceRequests ==
    {Alter("b", "c", "text", TRUE, "0"),
     Alter("b", "b", "integer", FALSE, "'x'::text"),
     Add("b", "text", TRUE, Nil, Nil),
     Drop("DropColumn", "b")}

CallSymmetry == Permutations(Calls)
=============================================================================
