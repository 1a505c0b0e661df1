----------------------------- MODULE MCListing -----------------------------
(***************************************************************************)
(* Instances of Listing for TLC: small databases of a few tables in a few  *)
(* schemas, and every listing of them.                                     *)
(***************************************************************************)
EXTENDS Listing, TLC

\* Names in the order of the collation.  A "^" in a name stands for a control
\* character, which is not displayed.
Collation == <<"", "^app", "^app.t", "^i", "NULL", "a", "app", "app.t", "app.t.u", "b", "f", "g",
               "i", "j", "pg_catalog", "public", "public.t", "public.u", "t", "t.u", "t_key",
               "t_pkey", "u", "x", "y">>
MCTexts == {Collation[k] : k \in DOMAIN Collation}
MCRank == [s \in MCTexts |-> CHOOSE k \in DOMAIN Collation : Collation[k] = s]
MCSame == [s \in MCTexts |-> s]
MCDisplayed == [MCSame EXCEPT !["^i"] = "i", !["^app"] = "app", !["^app.t"] = "app.t"]
MCControlTexts == {"^i", "^app", "^app.t"}

T == <<"public", "t">>
U == <<"public", "u">>
ControlT == <<"^app", "t">>
AppT == <<"app", "t">>
System == <<"pg_catalog", "t">>
AppTU == <<"app", "t.u">>
DottedU == <<"app.t", "u">>
MCQualified ==
    T :> "public.t" @@ U :> "public.u" @@ ControlT :> "^app.t" @@ AppT :> "app.t"
        @@ AppTU :> "app.t.u" @@ DottedU :> "app.t.u"

Idx(table, name, columns, unique, primary) ==
    [table |-> table, name |-> name, columns |-> columns, unique |-> unique, primary |-> primary]
Expression == Nil

\* Names repeat across tables and schemas, one table has two indexes whose
\* displayed names agree, one index is on an expression only, one on a mixture, and
\* two are in tables whose joined names agree.
Indexes ==
    {Idx(T, "i", <<"b", "a">>, FALSE, FALSE), Idx(T, "^i", <<"a">>, TRUE, FALSE),
     Idx(T, "j", <<"a", Expression, "b">>, FALSE, FALSE), Idx(AppT, "i", <<"b">>, TRUE, FALSE),
     Idx(U, "g", <<"x">>, FALSE, FALSE), Idx(AppT, "j", <<Expression>>, FALSE, FALSE),
     Idx(AppTU, "i", <<"x">>, FALSE, FALSE), Idx(DottedU, "i", <<"y">>, TRUE, FALSE)}
SystemIndex == Idx(System, "i", <<"a">>, TRUE, FALSE)

IndexCatalogs ==
    {[indexes |-> chosen \cup {SystemIndex}, keys |-> {}, fks |-> {}] : chosen \in SUBSET Indexes}

\* public.t (a, b) has a two-column primary key and a unique constraint on b;
\* app.t has a primary key of the same name.
Keys ==
    {[table |-> T, name |-> "t_pkey", columns |-> <<"a", "b">>],
     [table |-> T, name |-> "t_key", columns |-> <<"b">>],
     [table |-> AppT, name |-> "t_pkey", columns |-> <<"a">>]}
KeyIndex(k) == Idx(k.table, k.name, k.columns, TRUE, k.name = "t_pkey")

Fk(table, name, columns, ref, refColumns, rests, positions, rules) ==
    [table |-> table, name |-> name, columns |-> columns, ref |-> ref, refColumns |-> refColumns,
     rests |-> rests, positions |-> positions, rules |-> rules]
Rules == <<"CASCADE", "NO ACTION">>
Restrict2 == <<"RESTRICT", "SET NULL">>

\* One pairs its columns with the primary key's in the other order; two have
\* the same name in two tables of one schema, two in tables displayed alike; one
\* rests on a unique index.
ForeignKeys ==
    {Fk(U, "f", <<"x", "y">>, T, <<"b", "a">>, <<"public", "t_pkey">>, <<2, 1>>, Rules),
     Fk(U, "g", <<"y">>, T, <<"b">>, <<"public", "t_key">>, <<1>>, Restrict2),
     Fk(U, "^i", <<"x">>, T, <<"b">>, <<"public", "t_key">>, <<1>>, Rules),
     Fk(U, "i", <<"x">>, AppT, <<"a">>, <<"app", "t_pkey">>, <<1>>, Restrict2),
     Fk(ControlT, "f", <<"b">>, T, <<"b">>, <<"public", "t_key">>, <<1>>, Rules),
     Fk(AppT, "f", <<"b">>, T, <<"b">>, <<"public", "t_key">>, <<1>>, Rules),
     Fk(T, "f", <<"b">>, AppT, <<"a">>, <<"app", "t_pkey">>, <<1>>, Restrict2),
     Fk(AppT, "j", <<"a">>, U, <<"x">>, Nil, <<1>>, Rules)}
UniqueIndex == Idx(U, "i", <<"x">>, TRUE, FALSE)

ForeignKeyCatalogs ==
    {[indexes |-> {KeyIndex(k) : k \in Keys} \cup {UniqueIndex}, keys |-> Keys, fks |-> chosen] :
        chosen \in {s \in SUBSET ForeignKeys : Cardinality(s) <= 4}}

MCCatalogs == IndexCatalogs \cup ForeignKeyCatalogs

MCLists ==
    {[op |-> op, table |-> table] :
        op \in {"ListIndexes", "ListForeignKeys", "ListReferencingForeignKeys"},
        table \in {<<"t">>, <<"public", "u">>, <<"app", "t">>}}
    \cup {[op |-> "ListIndexesAll"], [op |-> "ListForeignKeysAll"]}
=============================================================================
