---------------------------- MODULE MCSchemaTree ----------------------------
(* SchemaTree with four catalogs that follow each other in any order: the      *)
(* databases, schemas and tables of each differ from those of the others.      *)
EXTENDS SchemaTree

\* In the order PostgreSQL sorts them.  "s!" and "s" are displayed alike, "!"
\* as nothing.
Sorted == <<"!", "app", "empty", "log", "new", "pg_toast", "public", "s", "s!", "view", "zoo">>

MCNames == {Sorted[k] : k \in DOMAIN Sorted}
MCRank == [n \in MCNames |-> CHOOSE k \in DOMAIN Sorted : Sorted[k] = n]
MCDisplayed == [n \in MCNames |-> CASE n = "!" -> "" [] n = "s!" -> "s" [] OTHER -> n]

Of(schema, kind, name, estimate) ==
    [schema |-> schema, kind |-> kind, name |-> name, estimate |-> estimate]

Log == Of("public", "BASE TABLE", "log", 7)
View == Of("public", "VIEW", "view", 0)

MCCatalogs ==
    { [databases |-> {"app", "zoo"}, schemas |-> {"public", "empty", "pg_toast"},
       tables |-> {Log, View, Of("pg_toast", "BASE TABLE", "log", 0)}],
      [databases |-> {"app", "new"}, schemas |-> {"public", "s", "zoo"},
       tables |-> {Log, Of("public", "BASE TABLE", "app", None), Of("s", "BASE TABLE", "log", 0),
                   Of("public", "FOREIGN", "zoo", 3)}],
      [databases |-> {"new"}, schemas |-> {"public"}, tables |-> {View}],
      [databases |-> {"app", "!"}, schemas |-> {"public", "!", "s", "s!"},
       tables |-> {Of("!", "BASE TABLE", "log", 1), Of("s", "BASE TABLE", "log", 0),
                   Of("s!", "VIEW", "view", 0), Log}] }
=============================================================================
