------------------------------ MODULE Sessions ------------------------------
(***************************************************************************)
(* The life of a Service: Open, the calls that run a statement of the      *)
(* caller's (Execute, ExecuteReadOnly, Validate) and Close, on the pool of *)
(* connections that database/sql keeps for it.  Any number of calls run at *)
(* once, Close among them; each takes a connection of the pool, which      *)
(* keeps what the statements before have left on it.                       *)
(***************************************************************************)
EXTENDS Naturals, FiniteSets

CONSTANTS
    Calls,     \* bound: the calls that are ever made
    Conns,     \* bound: the connections that are open at a time
    Requests,  \* bound: what each call may ask for
    MaxRows,   \* maxRows
    None

\* Statements, by what they do to the database or to their session.
Kinds == {"read", "write", "set", "begin", "commit", "rollback"}

\* valid: validateStatement passes it.  rows: ReturnsRows says that it yields rows.
Request ==
    [op : {"Execute", "ExecuteReadOnly", "Validate"}, kind : Kinds,
     rows : BOOLEAN, valid : BOOLEAN]

ASSUME SessionsAssumption ==
    /\ Requests \in [Calls -> SUBSET Request]
    /\ MaxRows \in Nat
    /\ None \notin Calls \cup Conns \cup Request
    /\ None \notin {"ok", "validation", "connection", "failed", "lost"}

VARIABLES
    life,   \* of the Service: none, ping, version, open, closed or failed
    conns,  \* the connections, each with the session it has on the server
    kept,   \* history: how often each call's write became permanent
    calls   \* the calls under way

vars == <<life, conns, kept, calls>>

(***************************************************************************)
(* conn.status    none (not open), idle (in the pool) or used              *)
(* conn.tx        none, open or broken, which refuses all but its end      *)
(* conn.pending   calls whose writes the transaction holds                 *)
(* conn.settings  calls whose SET is in force, or was before it            *)
(***************************************************************************)
Gone == [status |-> "none", tx |-> "none", readOnly |-> FALSE, pending |-> {},
         settings |-> {}, before |-> {}]

Unasked == [pc |-> "idle", request |-> None, conn |-> None, fetched |-> 0,
            error |-> None, answer |-> None]

Init ==
    /\ life = "none"
    /\ conns = [k \in Conns |-> Gone]
    /\ kept = [c \in Calls |-> 0]
    /\ calls = [c \in Calls |-> Unasked]

(***************************************************************************)
(* PostgreSQL: what a statement does to a session                          *)
(***************************************************************************)
Begun(conn, readOnly) ==
    IF conn.tx = "none"
    THEN [conn EXCEPT !.tx = "open", !.readOnly = readOnly, !.before = conn.settings]
    ELSE [conn EXCEPT !.readOnly = @ \/ readOnly]

Ended(conn) == [conn EXCEPT !.tx = "none", !.readOnly = FALSE, !.pending = {}]

RolledBack(conn) ==
    IF conn.tx = "none" THEN conn ELSE [Ended(conn) EXCEPT !.settings = conn.before]

Committed(conn) == IF conn.tx = "broken" THEN RolledBack(conn) ELSE Ended(conn)

Allowed(conn, kind) ==
    /\ conn.tx = "broken" => kind \in {"commit", "rollback"}
    /\ kind = "write" => ~ conn.readOnly

After(conn, c, kind) ==
    CASE kind = "read" -> conn
      [] kind = "write" -> IF conn.tx = "none" THEN conn ELSE [conn EXCEPT !.pending = @ \cup {c}]
      [] kind = "set" -> [conn EXCEPT !.settings = @ \cup {c}]
      [] kind = "begin" -> Begun(conn, FALSE)
      [] kind = "commit" -> Committed(conn)
      [] kind = "rollback" -> RolledBack(conn)

\* The calls whose writes the statement makes permanent.
Permanent(conn, c, kind) ==
    CASE kind = "write" /\ conn.tx = "none" -> {c}
      [] kind = "commit" /\ conn.tx = "open" -> conn.pending
      [] OTHER -> {}

Keep(done) == kept' = [c \in Calls |-> IF c \in done THEN kept[c] + 1 ELSE kept[c]]

Broken(conn) == IF conn.tx = "none" THEN conn ELSE [conn EXCEPT !.tx = "broken"]

(***************************************************************************)
(* database/sql: the pool                                                  *)
(***************************************************************************)
\* A connection given back is closed if the pool is.
Released(conn) == IF life = "closed" THEN Gone ELSE [conn EXCEPT !.status = "idle"]

With(status) == {k \in Conns : conns[k].status = status}

\* An idle connection is taken before another is opened.
Takes(k) ==
    IF With("idle") # {} THEN k \in With("idle")
    ELSE With("none") # {} /\ k = CHOOSE i \in With("none") : TRUE

\* DB.Close closes the idle connections; those in use go when they come back.
IdleClosed == [k \in Conns |-> IF conns[k].status = "idle" THEN Gone ELSE conns[k]]

\* The server or the network ends an idle connection.  One whose session is in a
\* transaction may be closed by the driver when the pool is about to use it.
DropIdle(k) ==
    /\ conns[k].status = "idle"
    /\ conns' = [conns EXCEPT ![k] = Gone]
    /\ UNCHANGED <<life, kept, calls>>

(***************************************************************************)
(* Open and Close                                                          *)
(***************************************************************************)
OpenPool == life = "none" /\ life' = "ping" /\ UNCHANGED <<conns, kept, calls>>

Ping(k) ==
    /\ life = "ping" /\ Takes(k)
    /\ life' = "version"
    /\ conns' = [conns EXCEPT ![k].status = "idle"]
    /\ UNCHANGED <<kept, calls>>

ReadVersion(k) ==
    /\ life = "version" /\ Takes(k)
    /\ life' = "open"
    /\ conns' = [conns EXCEPT ![k].status = "idle"]
    /\ UNCHANGED <<kept, calls>>

\* Mutant: an Open that fails forgets its pool.
AfterFailedOpenForgotten == conns

AfterFailedOpen == IdleClosed

FailOpen ==
    /\ life \in {"ping", "version"}
    /\ life' = "failed"
    /\ conns' = AfterFailedOpen
    /\ UNCHANGED <<kept, calls>>

Close ==
    /\ life = "open"
    /\ life' = "closed"
    /\ conns' = IdleClosed
    /\ UNCHANGED <<kept, calls>>

(***************************************************************************)
(* The calls                                                               *)
(***************************************************************************)
At(c, pc) == calls[c].pc = pc
Op(c) == calls[c].request.op
Kind(c) == calls[c].request.kind
Conn(c) == conns[calls[c].conn]

Become(c, new) == calls' = [calls EXCEPT ![c] = new]
Go(c, pc) == Become(c, [calls[c] EXCEPT !.pc = pc])
GoWith(c, pc, error) == Become(c, [calls[c] EXCEPT !.pc = pc, !.error = error])
OnConn(c, conn) == conns' = [conns EXCEPT ![calls[c].conn] = conn]

Receive(c, r) ==
    /\ At(c, "idle") /\ life \in {"open", "closed"}
    /\ Become(c, IF r.valid THEN [Unasked EXCEPT !.pc = "acquire", !.request = r]
                 ELSE [Unasked EXCEPT !.pc = "done", !.request = r, !.answer = "validation"])
    /\ UNCHANGED <<life, conns, kept>>

FirstStep(c) ==
    CASE Op(c) = "Execute" -> "run"
      [] Op(c) = "ExecuteReadOnly" -> "begin"
      [] Op(c) = "Validate" -> "prepare"

Acquire(c, k) ==
    /\ At(c, "acquire") /\ life = "open" /\ Takes(k)
    /\ conns' = [conns EXCEPT ![k].status = "used"]
    /\ Become(c, [calls[c] EXCEPT !.pc = FirstStep(c), !.conn = k])
    /\ UNCHANGED <<life, kept>>

\* How a call classifies that it could not begin.
NotBegun(c) == IF Op(c) = "Validate" THEN "validation" ELSE "connection"

\* The pool is closed, the server does not answer, or the context has ended.
FailAcquire(c) ==
    /\ At(c, "acquire")
    /\ Become(c, [calls[c] EXCEPT !.pc = "done", !.answer = NotBegun(c)])
    /\ UNCHANGED <<life, conns, kept>>

BeginReadOnly(c) ==
    /\ At(c, "begin")
    /\ OnConn(c, Begun(Conn(c), TRUE)) /\ Go(c, "run")
    /\ UNCHANGED <<life, kept>>

\* Prepare and Close of the prepared statement run nothing.
Prepare(c) ==
    /\ At(c, "prepare")
    /\ Go(c, "return")
    /\ UNCHANGED <<life, conns, kept>>

RefusePrepare(c) ==
    /\ At(c, "prepare")
    /\ OnConn(c, Broken(Conn(c))) /\ GoWith(c, "return", "validation")
    /\ UNCHANGED <<life, kept>>

\* collectRows: one row more, one row too many, or one that cannot be read; the
\* last two leave the rest of the rows to rows.Close, which drains them.
FetchRow(c) ==
    /\ At(c, "run") /\ calls[c].request.rows /\ calls[c].fetched < MaxRows
    /\ Become(c, [calls[c] EXCEPT !.fetched = @ + 1])
    /\ UNCHANGED <<life, conns, kept>>

Truncate(c) ==
    /\ At(c, "run") /\ calls[c].fetched = MaxRows /\ calls[c].request.rows
    /\ Go(c, "drain")
    /\ UNCHANGED <<life, conns, kept>>

FailScan(c) ==
    /\ At(c, "run") /\ calls[c].request.rows /\ calls[c].fetched < MaxRows
    /\ GoWith(c, "drain", "failed")
    /\ UNCHANGED <<life, conns, kept>>

Running(c) == At(c, "run") \/ At(c, "drain")

LastStep(c) == IF Op(c) = "ExecuteReadOnly" THEN "rollback" ELSE "return"

Complete(c) ==
    /\ Running(c) /\ Allowed(Conn(c), Kind(c))
    /\ OnConn(c, After(Conn(c), c, Kind(c)))
    /\ Keep(Permanent(Conn(c), c, Kind(c)))
    /\ Go(c, LastStep(c)) /\ UNCHANGED life

\* Mutant: what rows.Close reports is not looked at.
RefusalUnseen(c) == IF At(c, "drain") THEN calls[c].error ELSE "failed"

Refusal(c) == "failed"

\* The statement fails, if need be after some of its rows have come.
Refuse(c) ==
    /\ Running(c)
    /\ OnConn(c, Broken(Conn(c))) /\ GoWith(c, LastStep(c), Refusal(c))
    /\ UNCHANGED <<life, kept>>

\* Mutant: the read-only transaction is committed.
EndReadOnlyCommitted(conn) == Committed(conn)

EndReadOnly(conn) == RolledBack(conn)

RollBack(c) ==
    /\ At(c, "rollback")
    /\ OnConn(c, EndReadOnly(Conn(c))) /\ Go(c, "return")
    /\ UNCHANGED <<life, kept>>

LostAs(c) == IF Running(c) \/ At(c, "rollback") THEN "lost" ELSE NotBegun(c)

\* The connection breaks, or the context ends and the driver closes it; a
\* statement under way may have been carried out all the same.
Lose(c) ==
    /\ Running(c) \/ At(c, "begin") \/ At(c, "prepare") \/ At(c, "rollback")
    /\ OnConn(c, Gone)
    /\ Become(c, [calls[c] EXCEPT !.pc = "return", !.conn = None, !.error = LostAs(c)])
    /\ \/ Keep({})
       \/ Running(c) /\ Allowed(Conn(c), Kind(c)) /\ Keep(Permanent(Conn(c), c, Kind(c)))
    /\ UNCHANGED life

\* Mutant: conn.Close is not called.
GivenBackNever(c) == Conn(c)

GivenBack(c) == Released(Conn(c))

\* The deferred conn.Close, and with it the answer.
Return(c) ==
    /\ At(c, "return")
    /\ IF calls[c].conn = None THEN UNCHANGED conns ELSE OnConn(c, GivenBack(c))
    /\ Become(c, [calls[c] EXCEPT !.pc = "done", !.conn = None,
                                  !.answer = IF calls[c].error = None THEN "ok"
                                             ELSE calls[c].error])
    /\ UNCHANGED <<life, kept>>

OpenStep == (\E k \in Conns : Ping(k) \/ ReadVersion(k)) \/ FailOpen

Step(c) ==
    \/ \E k \in Conns : Acquire(c, k)
    \/ FailAcquire(c)
    \/ BeginReadOnly(c) \/ Prepare(c) \/ RefusePrepare(c)
    \/ FetchRow(c) \/ Truncate(c) \/ FailScan(c) \/ Complete(c) \/ Refuse(c)
    \/ RollBack(c) \/ Lose(c) \/ Return(c)

Next ==
    \/ OpenPool \/ OpenStep \/ Close
    \/ \E k \in Conns : DropIdle(k)
    \/ \E c \in Calls : Step(c) \/ \E r \in Requests[c] : Receive(c, r)

Spec == Init /\ [][Next]_vars

\* A call's goroutine runs on, and what it waits for comes or is given up when
\* its context ends.
FairSpec == Spec /\ WF_vars(OpenStep) /\ \A c \in Calls : WF_vars(Step(c))

(***************************************************************************)
(* Properties                                                              *)
(***************************************************************************)
\* The places in a call where it may have a connection.
Holding == {"run", "begin", "prepare", "drain", "rollback", "return"}

\* Whatever way a call ends, its connection is back in the pool, closed, or
\* lost: a connection in use has one call under way that uses it.
ConnectionsAreReturned ==
    \A k \in Conns :
        LET users == {c \in Calls : calls[c].conn = k} IN
        /\ Cardinality(users) <= 1
        /\ \A c \in users : calls[c].pc \in Holding
        /\ conns[k].status = "used" => users # {}

\* After a Close, with calls still under way, or a failed Open, every connection
\* is closed in the end (Service.Close, Open).
CloseEndsAll ==
    life \in {"closed", "failed"} ~> \A k \in Conns : conns[k].status = "none"

\* Transactions that are meant to outlive the call that begins them.
Began == \E c \in Calls : calls[c].request # None /\ Op(c) = "Execute" /\ Kind(c) = "begin"

\* A statement that is only to be looked at, or to be run read-only, leaves
\* nothing behind: no write, no setting or open write on the connection that the
\* next call gets, and no transaction that no caller asked for by Execute.
LooksLeaveNoTrace ==
    /\ \A c \in Calls :
          calls[c].request # None /\ Op(c) # "Execute" =>
              /\ kept[c] = 0
              /\ calls[c].pc = "done" =>
                    \A k \in Conns : c \notin conns[k].settings \cup conns[k].pending
    /\ ~ Began => \A k \in Conns : conns[k].status = "idle" => conns[k].tx = "none"

\* No write is made twice, none is made for a call that was turned away or whose
\* statement was refused, and an ok for a write means that it is permanent: also
\* when the rows it returns are more than collectRows takes.  A transaction begun
\* by Execute and left open takes with it what runs on its connection.
OkIsKept ==
    \A c \in Calls :
        /\ kept[c] <= 1
        /\ calls[c].answer \in {"validation", "connection"} => kept[c] = 0
        /\ calls[c].answer = "failed" /\ ~ calls[c].request.rows => kept[c] = 0
        /\ calls[c].answer = "ok" /\ Op(c) = "Execute" /\ Kind(c) = "write" /\ ~ Began
              => kept[c] = 1
=============================================================================
