----------------------------- MODULE MCRowWrite -----------------------------
(***************************************************************************)
(* An instance of RowWrite for TLC: a table of two rows, one of them with  *)
(* NULL in its key column, and two calls at a time.                        *)
(***************************************************************************)
EXTENDS RowWrite, TLC

CONSTANTS c1, c2
CallSymmetry == Permutations({c1, c2})

MCColumns == {"k", "l", "v"}
MCStrings == {"x", "y"}
Make(k, l, v) == [column \in MCColumns |-> CASE column = "k" -> k [] column = "l" -> l [] column = "v" -> v]
MCDefaults == Make("y", NULL, "y")
MCInitialTable == (1 :> Make(NULL, "y", "x") @@ 2 :> Make("x", "y", "x"))

R(name, value) == [name |-> name, value |-> value]
Ask(op, key, values) == [op |-> op, key |-> key, values |-> values]

MCRequests ==
    {Ask("insert", <<>>, values) : values \in
        {<<>>, <<R("k", DEFAULT), R("v", "x")>>, <<R("v", "x"), R("l", DEFAULT), R("k", NULL)>>,
         <<R("v", TYPED)>>}}
    \cup {Ask("update", key, values) :
        key \in {<<R("k", NULL), R("l", "y")>>, <<R("l", "y"), R("k", "x")>>, <<R("k", DEFAULT)>>},
        values \in {<<R("v", "y"), R("l", "x")>>, <<R("l", NULL)>>, <<R("v", "x"), R("v", "y")>>}}
    \cup {Ask("update", <<>>, <<>>), Ask("update", <<>>, <<R("v", "y")>>),
          Ask("update", <<R("k", "x")>>, <<R("v", "y"), R("l", DEFAULT)>>),
          Ask("delete", <<>>, <<>>), Ask("delete", <<R("k", NULL)>>, <<>>),
          Ask("delete", <<R("v", "x"), R("k", "x")>>, <<>>), Ask("replace", <<>>, <<>>)}
=============================================================================
