----------------------------- MODULE MCSessions -----------------------------
(* Sessions with three calls on two connections: one that writes, sets or      *)
(* begins, one whose write returns more rows than are taken, and one that ends *)
(* a transaction or comes to look.                                             *)
EXTENDS Sessions

MCCalls == 1..3
MCConns == 1..2

Asked(op, kind, rows) == [op |-> op, kind |-> kind, rows |-> rows, valid |-> TRUE]

MCRequests ==
    << {Asked("Execute", kind, FALSE) : kind \in {"write", "set", "begin"}},
       {Asked("Execute", "write", TRUE), Asked("ExecuteReadOnly", "write", TRUE)},
       {Asked("ExecuteReadOnly", "set", FALSE), Asked("ExecuteReadOnly", "begin", FALSE),
        Asked("ExecuteReadOnly", "commit", FALSE),
        Asked("Execute", "commit", FALSE), Asked("Execute", "rollback", FALSE),
        Asked("Validate", "write", FALSE),
        [Asked("Execute", "write", FALSE) EXCEPT !.valid = FALSE]} >>
=============================================================================
