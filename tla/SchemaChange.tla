---------------------------- MODULE SchemaChange ----------------------------
(***************************************************************************)
(* The driver's schema-changing methods at work: concurrent calls of the   *)
(* plugin, each on a connection of its own, against one database whose     *)
(* sessions lock, run and commit statements at their own pace, while calls *)
(* are cancelled and connections lost.                                     *)
(*                                                                         *)
(* A session's uncommitted statements are kept as a log, not as a changed  *)
(* catalog: the transaction sees the committed catalog with its log        *)
(* replayed, and its COMMIT replays the log for good.  ReplayStaysLegal    *)
(* says that the locks make this right.                                    *)
(***************************************************************************)
EXTENDS SchemaRequests

CONSTANTS
    Calls,          \* the calls of the plugin, each made once
    Requests,       \* what they may ask for
    InitialCatalog

ASSUME CallsAssumption ==
    Requests \subseteq Request /\ InitialCatalog \in Catalog

ASSUME InitialAssumption == WellNamed(InitialCatalog) /\ WellTyped(InitialCatalog)

VARIABLES
    catalog,    \* the committed catalog
    call,       \* the driver's goroutine handling a call
    session,    \* the call's connection, with PostgreSQL's session behind it
    applied     \* history: how many times a call's work was committed

vars == <<catalog, call, session, applied>>

(***************************************************************************)
(* call[c].pc      where the method is: "read" before TableInfo, "begin"   *)
(*                 before BeginTx, "send" before a statement or COMMIT,    *)
(*                 "wait" for its reply, "done" once it has answered       *)
(* call[c].plan    the statements it is to send                            *)
(* call[c].info    the column information AlterColumn went by              *)
(* call[c].answer  "ok"; "validation" or "connection", the classified      *)
(*                 errors; "failed", an error of a statement PostgreSQL    *)
(*                 refused or of a step before the last; "lost", a context *)
(*                 or connection error of the autocommitted statement or   *)
(*                 of COMMIT, which does not tell whether it ran           *)
(***************************************************************************)
Idle == [pc |-> "idle", request |-> Nil, plan |-> <<>>, info |-> Nil, answer |-> Nil]

Answers == {"ok", "validation", "connection", "failed", "lost"}

ASSUME AnswersAssumption == Nil \notin Answers

CallState ==
    [pc : {"idle", "read", "begin", "send", "wait", "done"}, request : Request \cup {Nil},
     plan : Seq(Planned), info : ColumnInfo \cup {Nil}, answer : Answers \cup {Nil}]

(***************************************************************************)
(* session[c].state  "orphan" when the driver has dropped the connection   *)
(*                   and the server has yet to notice                      *)
(* session[c].wire   what is under way on it: a statement, a COMMIT, or a  *)
(*                   reply the driver has not read                         *)
(* session[c].log    the statements its transaction has run                *)
(* session[c].locks  the locks its transaction holds                       *)
(***************************************************************************)
NoSession == [state |-> "none", wire |-> "idle", log |-> <<>>, locks |-> {}]

SessionState ==
    [state : {"none", "held", "orphan"},
     wire : {"idle", "running", "committing", "ok", "refused", "committed"},
     log : Seq(Executed), locks : SUBSET Lock]

TypeOK ==
    /\ catalog \in Catalog
    /\ call \in [Calls -> CallState]
    /\ session \in [Calls -> SessionState]
    /\ applied \in [Calls -> Nat]

Init ==
    /\ catalog = InitialCatalog
    /\ call = [c \in Calls |-> Idle]
    /\ session = [c \in Calls |-> NoSession]
    /\ applied = [c \in Calls |-> 0]

At(c, pc) == call[c].pc = pc
InTx(c) == UsesTx(call[c].request)
Log(c) == session[c].log
View(c) == RunAll(Log(c), catalog)
Sent(c) == call[c].plan[Len(Log(c)) + 1]
Ran(c) == Named(Sent(c), View(c))
AllRan(c) == Len(Log(c)) = Len(call[c].plan)

Goto(c, pc) == call' = [call EXCEPT ![c] = [@ EXCEPT !.pc = pc]]
Answer(c, answer) == call' = [call EXCEPT ![c] = [@ EXCEPT !.pc = "done", !.answer = answer]]
Connection(c, new) == session' = [session EXCEPT ![c] = new]
Wire(c, wire) == Connection(c, [session[c] EXCEPT !.wire = wire])

(***************************************************************************)
(* The driver: validation and planning                                     *)
(***************************************************************************)
Reject(c, r) ==
    /\ At(c, "idle") /\ ~ Valid(r)
    /\ call' = [call EXCEPT ![c] =
            [@ EXCEPT !.pc = "done", !.request = r, !.answer = "validation"]]
    /\ UNCHANGED <<catalog, session, applied>>

Accept(c, r) ==
    /\ At(c, "idle") /\ Valid(r)
    /\ call' = [call EXCEPT ![c] = [@ EXCEPT
            !.request = r,
            !.pc = IF r.op = "AlterColumn" THEN "read" ELSE IF UsesTx(r) THEN "begin" ELSE "send",
            !.plan = IF r.op = "AlterColumn" THEN <<>> ELSE PlanOf(r)]]
    /\ UNCHANGED <<catalog, session, applied>>

\* AlterColumn reads the column outside any transaction.
PlanAlteration(c) ==
    /\ At(c, "read")
    /\ \E info \in CurrentInfo(catalog, call[c].request) :
          /\ ~ Unchanged(call[c].request, info)
          /\ AttributesKept(call[c].request, info)
          /\ call' = [call EXCEPT ![c] = [@ EXCEPT
                !.pc = "begin", !.info = info, !.plan = AlterStatements(call[c].request, info)]]
    /\ UNCHANGED <<catalog, session, applied>>

NothingToAlter(c) ==
    /\ At(c, "read")
    /\ \E info \in CurrentInfo(catalog, call[c].request) : Unchanged(call[c].request, info)
    /\ Answer(c, "ok")
    /\ UNCHANGED <<catalog, session, applied>>

RejectAlteration(c) ==
    /\ At(c, "read")
    /\ \A info \in CurrentInfo(catalog, call[c].request) :
          ~ AttributesKept(call[c].request, info)
    /\ Answer(c, "validation")
    /\ UNCHANGED <<catalog, session, applied>>

TableInfoFails(c) ==
    /\ At(c, "read")
    /\ Answer(c, "failed")
    /\ UNCHANGED <<catalog, session, applied>>

(***************************************************************************)
(* The driver: statements, replies and the deferred Rollback               *)
(***************************************************************************)
BeginTx(c) ==
    /\ At(c, "begin")
    /\ Goto(c, "send")
    /\ Connection(c, [NoSession EXCEPT !.state = "held"])
    /\ UNCHANGED <<catalog, applied>>

BeginFails(c) ==
    /\ At(c, "begin")
    /\ Answer(c, BeginError(call[c].request))
    /\ UNCHANGED <<catalog, session, applied>>

Send(c) ==
    /\ At(c, "send") /\ ~ AllRan(c)
    /\ Goto(c, "wait")
    /\ Connection(c, [session[c] EXCEPT !.state = "held", !.wire = "running"])
    /\ UNCHANGED <<catalog, applied>>

\* Mutant: the method returns without tx.Commit.
SendNoCommit(c) ==
    /\ At(c, "send") /\ AllRan(c)
    /\ Answer(c, "ok")
    /\ Connection(c, NoSession)
    /\ UNCHANGED <<catalog, applied>>

SendCommit(c) ==
    /\ At(c, "send") /\ AllRan(c)
    /\ Goto(c, "wait")
    /\ Wire(c, "committing")
    /\ UNCHANGED <<catalog, applied>>

\* Mutant: every interruption is taken for a failure.
InterruptedFailed(c) == "failed"

\* The error of the step that makes the change permanent leaves it open.
Interrupted(c) == IF InTx(c) /\ session[c].wire \notin {"committing", "committed"}
                  THEN "failed" ELSE "lost"

\* Mutants: Commit deferred in place of Rollback; no deferred Rollback.
RollbackCommits(c) ==
    IF InTx(c) THEN Connection(c, [session[c] EXCEPT !.state = "orphan", !.wire = "committing"])
    ELSE Connection(c, NoSession)
RollbackForgotten(c) == UNCHANGED session

\* tx.Rollback, deferred: PostgreSQL ends the transaction now, or when it
\* notices that the connection is gone.
Rollback(c) ==
    \/ Connection(c, NoSession)
    \/ InTx(c) /\ Connection(c, [session[c] EXCEPT !.state = "orphan"])

\* The context ends before the statement or COMMIT goes out, or the pool has
\* no connection for it.
SendFails(c) ==
    /\ At(c, "send")
    /\ Answer(c, IF InTx(c) /\ ~ AllRan(c) THEN "failed" ELSE "lost")
    /\ Rollback(c)
    /\ UNCHANGED <<catalog, applied>>

\* The context ends, or the connection breaks, while a reply is awaited.
Abandon(c) ==
    /\ At(c, "wait")
    /\ Answer(c, Interrupted(c))
    /\ Connection(c, [session[c] EXCEPT !.state = "orphan"])
    /\ UNCHANGED <<catalog, applied>>

ReceiveOk(c) ==
    /\ At(c, "wait") /\ session[c].wire = "ok"
    /\ Goto(c, "send")
    /\ Wire(c, "idle")
    /\ UNCHANGED <<catalog, applied>>

ReceiveRefusal(c) ==
    /\ At(c, "wait") /\ session[c].wire = "refused"
    /\ Answer(c, "failed")
    /\ Rollback(c)
    /\ UNCHANGED <<catalog, applied>>

ReceiveCommitted(c) ==
    /\ At(c, "wait") /\ session[c].wire = "committed"
    /\ Answer(c, "ok")
    /\ Connection(c, NoSession)
    /\ UNCHANGED <<catalog, applied>>

(***************************************************************************)
(* PostgreSQL: locks, statements, COMMIT                                   *)
(***************************************************************************)
Running(c) == session[c].wire = "running"

Needed(c) ==
    LET first == FirstLocks(Sent(c), View(c)) \ session[c].locks
    IN  IF first # {} THEN first ELSE OtherLocks(Sent(c), View(c)) \ session[c].locks

Free(c, lock) ==
    \A d \in Calls \ {c} : \A held \in session[d].locks : ~ Conflict(lock, held)

TakeLock(c) ==
    /\ Running(c)
    /\ \E lock \in Needed(c) :
          /\ Free(c, lock)
          /\ Connection(c, [session[c] EXCEPT !.locks = @ \cup {lock}])
    /\ UNCHANGED <<catalog, call, applied>>

CanRun(c) == Running(c) /\ Needed(c) = {} /\ Legal(Sent(c), View(c))

\* Mutant: a statement's locks last as long as the statement.
RunInTxUnlocking(c) ==
    /\ CanRun(c) /\ InTx(c)
    /\ Connection(c, [session[c] EXCEPT !.wire = "ok", !.log = Append(@, Ran(c)), !.locks = {}])
    /\ UNCHANGED <<catalog, call, applied>>

RunInTx(c) ==
    /\ CanRun(c) /\ InTx(c)
    /\ Connection(c, [session[c] EXCEPT !.wire = "ok", !.log = Append(@, Ran(c))])
    /\ UNCHANGED <<catalog, call, applied>>

\* A commit makes the work permanent and releases every lock.
Commit(c, log) ==
    /\ catalog' = RunAll(log, catalog)
    /\ applied' = [applied EXCEPT ![c] = @ + 1]
    /\ Connection(c, [session[c] EXCEPT !.wire = "committed", !.locks = {}])

RunAutocommit(c) ==
    /\ CanRun(c) /\ ~ InTx(c)
    /\ Commit(c, <<Ran(c)>>)
    /\ UNCHANGED call

RunCommit(c) ==
    /\ session[c].wire = "committing"
    /\ Commit(c, Log(c))
    /\ UNCHANGED call

\* A refused statement aborts its transaction.
Refuse(c) ==
    /\ Running(c)
    /\ Connection(c, [session[c] EXCEPT !.wire = "refused", !.log = <<>>, !.locks = {}])
    /\ UNCHANGED <<catalog, call, applied>>

Blocked(c) == Running(c) /\ Needed(c) # {} /\ \A lock \in Needed(c) : ~ Free(c, lock)

WaitsFor(c, d) ==
    c # d /\ \E lock \in Needed(c), held \in session[d].locks : Conflict(lock, held)

\* Mutant: nobody looks for deadlocks.
DeadlockUnnoticed(c) == FALSE

\* Every member of such a set waits, and only for members.
Deadlocked(c) ==
    \E S \in SUBSET Calls :
        /\ c \in S
        /\ \A d \in S : Blocked(d) /\ \E e \in S : WaitsFor(d, e)
        /\ \A d \in S : \E e \in S : WaitsFor(e, d)

\* Refusals PostgreSQL owes: an illegal statement, a deadlock's victim.
MustRefuse(c) ==
    Running(c) /\ \/ Needed(c) = {} /\ ~ Legal(Sent(c), View(c))
                  \/ Deadlocked(c)

\* The server ends a session whose client is gone, once nothing runs on it.
Reap(c) ==
    /\ session[c].state = "orphan" /\ session[c].wire \notin {"running", "committing"}
    /\ Connection(c, NoSession)
    /\ UNCHANGED <<catalog, call, applied>>

\* What was sent on a broken connection may never arrive.
Vanish(c) ==
    /\ session[c].state = "orphan" /\ session[c].wire \in {"running", "committing"}
    /\ Connection(c, NoSession)
    /\ UNCHANGED <<catalog, call, applied>>

(***************************************************************************)
(* The specification.  The driver's methods run on, the server serves each *)
(* session and settles deadlocks; nothing makes a caller submit, cancel or *)
(* lose its connection.                                                    *)
(***************************************************************************)
Handler(c) ==
    \/ PlanAlteration(c) \/ NothingToAlter(c) \/ RejectAlteration(c)
    \/ BeginTx(c) \/ Send(c) \/ SendCommit(c)
    \/ ReceiveOk(c) \/ ReceiveRefusal(c) \/ ReceiveCommitted(c)

Failure(c) ==
    TableInfoFails(c) \/ BeginFails(c) \/ SendFails(c) \/ Abandon(c) \/ Vanish(c)

Execute(c) == RunInTx(c) \/ RunAutocommit(c) \/ RunCommit(c)

Server(c) == TakeLock(c) \/ Execute(c) \/ Refuse(c) \/ Reap(c)

Next ==
    \E c \in Calls :
        (\E r \in Requests : Reject(c, r) \/ Accept(c, r)) \/ Handler(c) \/ Failure(c) \/ Server(c)

Spec == Init /\ [][Next]_vars

Fairness ==
    \A c \in Calls :
        /\ WF_vars(Handler(c))
        /\ WF_vars(TakeLock(c))
        /\ WF_vars(Execute(c))
        /\ WF_vars(MustRefuse(c) /\ Refuse(c))
        /\ WF_vars(Reap(c))

FairSpec == Spec /\ Fairness

(***************************************************************************)
(* Safety                                                                  *)
(***************************************************************************)
\* An error that names its cause leaves no trace, not even later: after a
\* validation or connection error, or a step that failed before the last one,
\* no statement of the call is ever committed (the deferred Rollback, and the
\* single statement outside a transaction).
ErrorLeavesNoTrace ==
    \A c \in Calls :
        call[c].answer \in {"validation", "connection", "failed"} => applied[c] = 0

\* A call's work is committed at most once, and an "ok" means it was, unless
\* AlterColumn found nothing to change.
OkAppliedOnce ==
    \A c \in Calls :
        /\ applied[c] <= 1
        /\ call[c].answer = "ok" => applied[c] = 1 \/ call[c].plan = <<>>

\* No method returns while it holds a connection: whatever path it leaves by,
\* the connection is back in the pool or given up for lost.
AnsweredHoldsNothing ==
    \A c \in Calls : At(c, "done") => session[c].state # "held"

\* Two-phase locking pays: what a transaction ran stays legal, in its order,
\* on whatever others commit meanwhile, up to its own COMMIT.
ReplayStaysLegal ==
    \A c \in Calls : session[c].wire # "committed" => AllLegal(Log(c), catalog)

Op(c) == call[c].request.op
Committed(c) == applied'[c] > applied[c]

\* A drop-and-create replacement is never seen half done: in no step does an
\* index or a foreign key leave the committed catalog unless the call asked
\* for a drop, or its replacement arrives in the same step.
ReplacementIsAtomic ==
    [][ /\ catalog'.indexes # catalog.indexes =>
             \E c \in Calls : Committed(c) /\
                (Op(c) = "ReplaceIndex" => catalog'.indexes \ catalog.indexes # {})
        /\ catalog'.fks # catalog.fks =>
             \E c \in Calls : Committed(c) /\
                (Op(c) = "ReplaceForeignKey" => catalog'.fks \ catalog.fks # {}) ]_vars

\* Two columns of a table may be displayed alike; AlterColumn then goes by the
\* first one's information and alters the one that really has the name.
NoNamesake(c) ==
    \A column \in catalog.columns :
        /\ column.table = TableParts(call[c].request.table)
        /\ Displayed[column.name] = call[c].request.previous
        => column.name = call[c].request.previous

\* What AlterColumn leaves of a column when it goes by `info'.
KeepsAllElse(old, new, r, info) ==
    /\ new.table = old.table /\ new.num = old.num /\ new.name = r.name
    /\ new.identity = old.identity
    /\ ~ typeChanged(r, info) => new.type = old.type
    /\ r.nullable = info.nullable => new.nullable = old.nullable
    /\ ~ defaultChanged(r, info) => new.default = old.default

\* However stale the information it went by, an alteration changes no other
\* column than the one that has the name when it commits, and nothing of that
\* one that the request did not differ in.
AlterStaysInItsDiff ==
    [][ \A c \in Calls :
          Committed(c) /\ Op(c) = "AlterColumn" =>
            LET r == call[c].request IN
            \A old \in catalog.columns \ catalog'.columns :
                /\ old.table = TableParts(r.table) /\ old.name = r.previous
                /\ \E new \in catalog'.columns : KeepsAllElse(old, new, r, call[c].info) ]_vars

IsAsAsked(column, r, info) ==
    /\ column.name = r.name
    /\ column.type = FormatType[Trimmed[r.type]]
    /\ column.nullable = r.nullable
    /\ Info(column).default = r.default \/ column.default = Stored(OptionalDefault(r.default))

\* When nobody changed the column between AlterColumn's read and its commit,
\* the column ends up as the request describes it, in every respect.
FreshAlterationIsExact ==
    [][ \A c \in Calls :
          /\ Committed(c) /\ Op(c) = "AlterColumn" /\ NoNamesake(c)
          /\ CurrentInfo(catalog, call[c].request) = {call[c].info}
          => \E column \in catalog'.columns :
                /\ column.table = TableParts(call[c].request.table)
                /\ column.num = call[c].info.num
                /\ IsAsAsked(column, call[c].request, call[c].info) ]_vars

\* DropIndex and ReplaceIndex take away exactly the index of that name in the
\* table's schema, and on that very table when the name ends in _pkey.
DropHitsItsName ==
    [][ \A c \in Calls :
          Committed(c) /\ Op(c) \in {"DropIndex", "ReplaceIndex"} =>
            LET r == call[c].request
                name == IF r.op = "DropIndex" THEN r.name ELSE r.previous
            IN  \A i \in catalog.indexes \ catalog'.indexes :
                    /\ i.name = name /\ Schema(i.table) = Schema(TableParts(r.table))
                    /\ name \in PkeyTexts => i.table = TableParts(r.table) ]_vars

(***************************************************************************)
(* The inductive invariant, one call at a time: what each place in the     *)
(* method, each state of its session and the history have to do with each  *)
(* other.                                                                  *)
(***************************************************************************)
\* Before a method has a connection nothing has happened.
NothingYet(c) ==
    call[c].pc \in {"idle", "read", "begin"} => session[c] = NoSession /\ applied[c] = 0

PlanFits(c) ==
    /\ At(c, "idle") => call[c] = Idle
    /\ ~ At(c, "idle") => call[c].request \in Requests
    /\ At(c, "read") => Op(c) = "AlterColumn" /\ call[c].plan = <<>>
    /\ At(c, "begin") => InTx(c)
    /\ call[c].pc \in {"begin", "send", "wait"} => Len(call[c].plan) > 0
    /\ Len(call[c].plan) <= MaxLog
    /\ ~ At(c, "idle") /\ ~ InTx(c) => Len(call[c].plan) <= 1

\* Who has the connection, and what may be under way on it.
SessionFits(c) ==
    /\ session[c].state = "none" => session[c] = NoSession
    /\ At(c, "send") => /\ session[c].wire = "idle"
                        /\ session[c].state = IF InTx(c) THEN "held" ELSE "none"
    /\ At(c, "wait") => session[c].state = "held" /\ session[c].wire # "idle"
    /\ At(c, "done") => session[c].state # "held"
    /\ ~ At(c, "idle") /\ ~ InTx(c) => Log(c) = <<>> /\ session[c].wire # "ok"
    /\ Len(Log(c)) <= Len(call[c].plan)
    /\ \A k \in 1..Len(Log(c)) : Log(c)[k] \in Namings(call[c].plan[k])
    /\ session[c].wire = "running" => Len(Log(c)) < Len(call[c].plan)
    /\ session[c].wire = "committing" => InTx(c) /\ AllRan(c)

\* When the work is committed, and what the answer says about it.
AnswerFits(c) ==
    /\ applied[c] <= 1
    /\ session[c].wire = "committed" => applied[c] = 1
    /\ ~ At(c, "done") /\ session[c].wire # "committed" => applied[c] = 0
    /\ session[c].state # "none" /\ session[c].wire # "committed" => applied[c] = 0
    /\ ~ At(c, "done") => call[c].answer = Nil
    /\ call[c].answer \in {"validation", "connection", "failed"} => applied[c] = 0
    /\ call[c].answer = "ok" =>
          session[c].state = "none" /\ (applied[c] = 1 \/ call[c].plan = <<>>)
    /\ At(c, "done") /\ (session[c].wire = "committing" \/ (Running(c) /\ ~ InTx(c)))
          => call[c].answer = "lost"

IInv ==
    /\ TypeOK
    /\ \A c \in Calls : NothingYet(c) /\ PlanFits(c) /\ SessionFits(c) /\ AnswerFits(c)

(***************************************************************************)
(* The methods implement AtomicChange.                                     *)
(***************************************************************************)
Plans(r, cat) ==
    IF r.op = "AlterColumn"
    THEN {AlterStatements(r, info) : info \in CurrentInfo(cat, r)}
    ELSE {PlanOf(r)}

\* What a plan may make of a catalog: PostgreSQL names the keys.
After(k, plan, cats) ==
    IF k <= Len(plan) THEN {Effect(s, cat) : s \in Namings(plan[k]), cat \in cats} ELSE cats

Outcomes(plan, cat) ==
    After(4, plan, After(3, plan, After(2, plan, After(1, plan, {cat}))))

PhaseAt(pc) ==
    IF pc = "idle" THEN "idle"
    ELSE IF pc = "read" THEN "asked"
    ELSE IF pc = "done" THEN "answered" ELSE "planned"

ChangeOf(c) ==
    [phase |-> PhaseAt(call[c].pc), request |-> call[c].request, plan |-> call[c].plan,
     answer |-> call[c].answer, applied |-> applied[c]]

Atomic == INSTANCE AtomicChange WITH change <- [c \in Calls |-> ChangeOf(c)]

\* Every behaviour of the methods, with its sessions, locks and messages, is
\* one of plans that take effect whole, at most once, and never after an
\* error other than "lost".
ImplementsAtomicChange == Atomic!Spec

(***************************************************************************)
(* Liveness                                                                *)
(***************************************************************************)
\* Every request is answered, even when calls lock the same tables in
\* opposite orders.
EveryCallAnswered == \A c \in Calls : ~ At(c, "idle") ~> At(c, "done")

\* The locks of an answered call are released in the end, cancelled or not.
LocksReleased == \A c \in Calls : At(c, "done") ~> session[c].locks = {}
=============================================================================
