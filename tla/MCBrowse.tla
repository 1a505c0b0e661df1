------------------------------ MODULE MCBrowse ------------------------------
(* Browse on tables of at most five rows with pages of one to three rows, and *)
(* collectRows stopping at three.                                             *)
EXTENDS Browse

\* In the order of the collation.  Two texts hold the wildcards of LIKE, one the
\* escape character; the last ones are patterns.
Collation ==
    << <<"a">>, <<"a", "%">>, <<"a", "b">>, <<"a", "_">>, <<"b", "a">>, <<"b", "\\">>,
       <<"a", "b", "b">>, <<"a", "%", "b">>,
       <<"a", "*">>, <<"*", "%">>, <<"a", "?">>, <<"?", "\\">>, <<"*", "b">> >>

MCValues == {Collation[k] : k \in DOMAIN Collation}

MCRank == [v \in MCValues \cup {NULL} |->
              IF v = NULL THEN Len(Collation) + 1
              ELSE CHOOSE k \in DOMAIN Collation : Collation[k] = v]

\* Texts of more than two characters are shortened.
MCDisplayed == [v \in MCValues |-> IF Len(v) > 2 THEN SubSeq(v, 1, 2) ELSE v]

Of(k, v) == [key |-> k, val |-> v]

MCColumns == {"key", "val"}

Small == {Of(<<"a">>, NULL), Of(<<"a", "b">>, <<"a">>), Of(<<"b", "a">>, <<"a", "b">>)}
Large == {Of(<<"a">>, <<"a", "%">>), Of(<<"a", "%">>, <<"a", "b", "b">>), Of(<<"a", "b">>, NULL),
          Of(<<"a", "_">>, <<"a", "_">>), Of(<<"b", "\\">>, <<"a", "%">>)}

MCTables == {Small, Large}

Is(column, operator, value) == [column |-> column, operator |-> operator, value |-> value]
By(column, descending) == [column |-> column, descending |-> descending]
Any == <<"a">>

FilterLists ==
    { <<>>,
      << Is("val", "PATTERN", <<"a", "*">>), Is("key", "<=", <<"b", "a">>) >>,
      << Is("val", "PATTERN", <<"*", "%">>) >>,
      << Is("val", "NOT PATTERN", <<"a", "?">>) >>,
      << Is("key", "PATTERN", <<"?", "\\">>) >>,
      << Is("val", "LIKE", <<"a", "%">>), Is("key", ">", <<"a">>) >>,
      << Is("val", "NOT LIKE", <<"a", "_">>), Is("key", "!=", <<"a", "b">>) >>,
      << Is("val", "IS NULL", Any), Is("key", ">=", <<"a">>), Is("key", "<", <<"b", "a">>) >>,
      << Is("key", "=", <<"a", "%">>), Is("val", "IS NOT NULL", Any) >>,
      << Is("key", "IN", Any) >>,
      << Is("none", "=", Any) >> }

SortLists ==
    { << By("key", FALSE) >>,
      << By("val", TRUE), By("key", TRUE) >>,
      << By("val", FALSE) >>,
      << By("none", FALSE), By("key", TRUE) >> }

MCRequests ==
    LET all == [offset : {-1, 0, 1}, limit : 1..3, columns : {MCColumns},
                filters : FilterLists, sorts : SortLists]
    IN  all
        \cup {[offset |-> 0, limit |-> n, columns |-> MCColumns, filters |-> <<>>,
               sorts |-> << By("key", FALSE) >>] : n \in {0, 4}}
        \cup {[offset |-> 0, limit |-> 2, columns |-> {"key"}, sorts |-> <<>>,
               filters |-> << Is("key", "PATTERN", <<"a", "?">>) >>],
              [offset |-> 0, limit |-> 2, columns |-> {"key", "gone"}, sorts |-> <<>>,
               filters |-> << Is("gone", "=", Any) >>]}
=============================================================================
