---------------------------- MODULE AtomicChange ----------------------------
(***************************************************************************)
(* What a caller of the driver's schema-changing methods may rely on.  A   *)
(* request turns into a plan, a sequence of statements; which one may      *)
(* depend on the catalog at some moment after the request.  The plan takes *)
(* effect as a whole, on the catalog of that or a later moment, and at     *)
(* most once.  The answer tells how much is known:                         *)
(*   "ok"          it has taken effect, or there was nothing to do         *)
(*   "validation", "connection", "failed"                                  *)
(*                 it has not and never will                               *)
(*   "lost"        it may have, may not have, or may do so later           *)
(* Transactions, connections, locks and the order of the statements on the *)
(* wire do not exist here.                                                 *)
(***************************************************************************)
EXTENDS Naturals

CONSTANTS
    Calls, Requests, InitialCatalog, Nil,
    Plans(_, _),    \* the plans a request may turn into on a catalog
    Outcomes(_, _)  \* what a plan may make of a catalog

VARIABLES
    catalog,    \* the committed catalog
    change      \* per call: [phase, request, plan, answer, applied]

vars == <<catalog, change>>

Stage(phase, request, plan, answer, applied) ==
    [phase |-> phase, request |-> request, plan |-> plan, answer |-> answer, applied |-> applied]

NoChange == Stage("idle", Nil, <<>>, Nil, 0)

Init == catalog = InitialCatalog /\ change = [c \in Calls |-> NoChange]

Become(c, new) == change' = [change EXCEPT ![c] = new]

Ask(c, r) ==
    /\ change[c].phase = "idle"
    /\ \/ Become(c, Stage("asked", r, <<>>, Nil, 0))
       \/ Become(c, Stage("answered", r, <<>>, "validation", 0))
       \/ \E plan \in Plans(r, catalog) : Become(c, Stage("planned", r, plan, Nil, 0))
    /\ UNCHANGED catalog

Plan(c) ==
    /\ change[c].phase = "asked"
    /\ \E plan \in Plans(change[c].request, catalog) :
          Become(c, Stage("planned", change[c].request, plan, Nil, 0))
    /\ UNCHANGED catalog

\* A call whose answer leaves the outcome open is not over.
Open(c) == change[c].phase = "planned" \/ change[c].answer = "lost"

TakeEffect(c) ==
    /\ Open(c) /\ change[c].applied = 0
    /\ catalog' \in Outcomes(change[c].plan, catalog)
    /\ Become(c, [change[c] EXCEPT !.applied = 1])

NothingToDo(c) == change[c].phase = "asked" /\ <<>> \in Plans(change[c].request, catalog)

MayAnswer(c, answer) ==
    \/ answer = "ok" /\ (change[c].applied = 1 \/ NothingToDo(c))
    \/ answer = "lost" /\ change[c].phase = "planned"
    \/ answer \in {"validation", "connection", "failed"} /\ change[c].applied = 0

Answer(c) ==
    /\ change[c].phase \in {"asked", "planned"}
    /\ \E answer \in {"ok", "validation", "connection", "failed", "lost"} :
          /\ MayAnswer(c, answer)
          /\ Become(c, Stage("answered", change[c].request, change[c].plan, answer, change[c].applied))
    /\ UNCHANGED catalog

Next == \E c \in Calls :
    (\E r \in Requests : Ask(c, r)) \/ Plan(c) \/ TakeEffect(c) \/ Answer(c)

Spec == Init /\ [][Next]_vars
=============================================================================
