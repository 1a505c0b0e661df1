--------------------------- MODULE Sessions_proofs ---------------------------
(***************************************************************************)
(* For any number of calls and connections: no connection is leaked, what  *)
(* is only looked at leaves no trace, and an ok is kept.                   *)
(***************************************************************************)
EXTENDS Sessions, FiniteSetTheorems, TLAPS

Places == {"idle", "acquire", "begin", "prepare", "run", "drain", "rollback", "return", "done"}

CallType ==
    [pc : Places, request : Request \cup {None}, conn : Conns \cup {None}, fetched : Nat,
     error : {None, "failed", "lost", "validation", "connection"},
     answer : {None, "ok", "failed", "lost", "validation", "connection"}]

ConnType ==
    [status : {"none", "idle", "used"}, tx : {"none", "open", "broken"}, readOnly : BOOLEAN,
     pending : SUBSET Calls, settings : SUBSET Calls, before : SUBSET Calls]

TypeOK ==
    /\ conns \in [Conns -> ConnType]
    /\ kept \in [Calls -> Nat]
    /\ calls \in [Calls -> CallType]

Asks(call, op) == call.request # None /\ call.request.op = op

\* Where a call's operation comes to, with what errors, and where it has a
\* connection.
StagedCall(call) ==
    /\ call.pc = "idle" <=> call.request = None
    /\ call.pc \in {"begin", "rollback"} => Asks(call, "ExecuteReadOnly")
    /\ call.pc \in {"run", "drain"} => Asks(call, "Execute") \/ Asks(call, "ExecuteReadOnly")
    /\ call.pc = "prepare" => Asks(call, "Validate")
    /\ call.error \in {"validation", "connection"} => ~ Asks(call, "Execute")
    /\ call.pc # "done" => call.answer = None
    /\ call.pc = "drain" => call.request.rows
    /\ call.pc \in {"idle", "acquire", "begin", "prepare", "run"} => call.error = None
    /\ call.conn # None => call.pc \in Holding
    /\ call.pc \in Holding \ {"return"} => call.conn # None

Staged == \A c \in Calls : StagedCall(calls[c])

\* Each connection in use has its call, and each call at most one connection.
Owned ==
    /\ \A c \in Calls : calls[c].conn # None => conns[calls[c].conn].status = "used"
    /\ \A c, d \in Calls : calls[c].conn = calls[d].conn /\ calls[c].conn # None => c = d
    /\ \A k \in Conns : conns[k].status = "used" => \E c \in Calls : calls[c].conn = k

\* A read-only statement runs in a read-only transaction.
RunsReadOnly(call) == Asks(call, "ExecuteReadOnly") /\ call.pc \in {"run", "drain"}

ReadOnlyHolds ==
    \A c \in Calls : RunsReadOnly(calls[c]) =>
        conns[calls[c].conn].readOnly /\ conns[calls[c].conn].tx # "none"

\* The settings of a call that only reads are on its connection, until it is
\* rolled back, and nowhere else.
SettingsFit(c, call, k, conn) ==
    /\ c \in conn.before => Asks(call, "Execute")
    /\ c \in conn.settings =>
          \/ Asks(call, "Execute")
          \/ (call.pc = "rollback" /\ call.conn = k /\ conn.tx # "none")

SettingsPass == \A k \in Conns, c \in Calls : SettingsFit(c, calls[c], k, conns[k])

\* The calls whose writes may be permanent, now or later.
MayHaveWritten(call) ==
    /\ Asks(call, "Execute") /\ call.request.kind = "write"
    /\ call.pc \in {"return", "done"}
    /\ call.error = "failed" => call.request.rows
    /\ call.answer \notin {"validation", "connection"}
    /\ call.answer = "failed" => call.request.rows

WritesOnce ==
    /\ \A c \in Calls : kept[c] = 0 \/ (kept[c] = 1 /\ MayHaveWritten(calls[c]))
    /\ \A k \in Conns, c \in Calls :
          c \in conns[k].pending => kept[c] = 0 /\ MayHaveWritten(calls[c])
    /\ \A k, l \in Conns, c \in Calls : c \in conns[k].pending /\ c \in conns[l].pending => k = l

\* A transaction is one that some caller began, or a read-only call's own.
InReadOnly(call, k) ==
    call.conn = k /\ Asks(call, "ExecuteReadOnly") /\ call.pc \in {"run", "drain", "rollback"}

Transactions ==
    \A k \in Conns : conns[k].tx # "none" => Began \/ \E c \in Calls : InReadOnly(calls[c], k)

Succeeded(call) ==
    /\ Asks(call, "Execute") /\ call.request.kind = "write"
    /\ call.answer = "ok" \/ (call.pc = "return" /\ call.error = None)

OkWritten == \A c \in Calls : Succeeded(calls[c]) => kept[c] = 1 \/ Began

IInv ==
    /\ TypeOK /\ Staged /\ Owned /\ ReadOnlyHolds /\ SettingsPass /\ WritesOnce
    /\ Transactions /\ OkWritten

-----------------------------------------------------------------------------
(***************************************************************************)
(* What a step of a call changes: the call and at most one connection k,   *)
(* which no other call has.                                                *)
(***************************************************************************)
CallStep(c, new, k) ==
    /\ new \in CallType /\ calls' = [calls EXCEPT ![c] = new]
    /\ new.request = calls[c].request \/ calls[c].request = None
    /\ k \in Conns \cup {None} /\ calls[c].conn \in {k, None} /\ new.conn \in {k, None}
    /\ k # None => \A d \in Calls : d # c => calls[d].conn # k
    /\ conns' \in [Conns -> ConnType]
    /\ \A l \in Conns : l # k => conns'[l] = conns[l]

\* Such a step leaves the other calls as they are.
LEMMA Others ==
    ASSUME IInv, NEW c \in Calls, NEW new, NEW k, CallStep(c, new, k)
    PROVE  /\ calls' \in [Calls -> CallType]
           /\ calls'[c] = new
           /\ \A d \in Calls : d # c => calls'[d] = calls[d]
    BY DEF IInv, TypeOK, CallStep

\* A request, once made, stays.
LEMMA BeganStays ==
    ASSUME IInv, NEW c \in Calls, NEW new, NEW k, CallStep(c, new, k), Began
    PROVE  Began'
<1>1. PICK b \in Calls : calls[b].request # None /\ Op(b) = "Execute" /\ Kind(b) = "begin"
    BY DEF Began
<1>2. calls'[b].request = calls[b].request
    BY <1>1, Others DEF CallStep
<1>3. QED
    BY <1>1, <1>2 DEF Began, Op, Kind

\* One lemma for each part of the invariant follows: what a call and its
\* connection must come to for the part to hold after a step.
LEMMA StagedStays ==
    ASSUME IInv, NEW c \in Calls, NEW new, NEW k, CallStep(c, new, k), StagedCall(new)
    PROVE  Staged'
<1>1. \A d \in Calls : StagedCall(calls'[d])
    BY Others DEF IInv, Staged
<1>2. QED
    BY <1>1 DEF Staged, StagedCall, Asks

\* The connection of the step is in use if and only if the call has it.
LEMMA OwnedStays ==
    ASSUME IInv, NEW c \in Calls, NEW new, NEW k, CallStep(c, new, k),
           k # None => (conns'[k].status = "used" <=> new.conn = k)
    PROVE  Owned'
<1>1. \A d \in Calls : calls'[d].conn # None => conns'[calls'[d].conn].status = "used"
    <2>1. TAKE d \in Calls
    <2>2. CASE d = c
        BY <2>2, Others DEF CallStep
    <2>3. CASE d # c
        BY <2>3, Others DEF CallStep, IInv, TypeOK, Owned, CallType
    <2>4. QED
        BY <2>2, <2>3
<1>2. \A d, e \in Calls : calls'[d].conn = calls'[e].conn /\ calls'[d].conn # None => d = e
    <2>1. \A d \in Calls : d # c /\ calls'[d].conn = new.conn => new.conn = None
        BY Others DEF CallStep
    <2>2. QED
        BY <2>1, Others DEF IInv, Owned
<1>3. \A l \in Conns : conns'[l].status = "used" => \E d \in Calls : calls'[d].conn = l
    <2>1. TAKE l \in Conns
    <2>2. CASE l = k
        BY <2>2, Others, SessionsAssumption
    <2>3. CASE l # k
        <3>1. CASE conns[l].status = "used"
            <4>1. PICK d \in Calls : calls[d].conn = l
                BY <3>1 DEF IInv, Owned
            <4>2. l # None
                BY SessionsAssumption
            <4>3. d # c
                BY <4>1, <4>2, <2>3 DEF CallStep
            <4>4. QED
                BY <4>1, <4>3, Others
        <3>2. QED
            BY <3>1, <2>3 DEF CallStep
    <2>4. QED
        BY <2>2, <2>3
<1>4. QED
    BY <1>1, <1>2, <1>3 DEF Owned

\* A read-only call that runs has a read-only transaction.
LEMMA ReadOnlyStays ==
    ASSUME IInv, NEW c \in Calls, NEW new, NEW k, CallStep(c, new, k), StagedCall(new),
           RunsReadOnly(new) => conns'[k].readOnly /\ conns'[k].tx # "none"
    PROVE  ReadOnlyHolds'
<1>1. \A d \in Calls : RunsReadOnly(calls'[d]) =>
          conns'[calls'[d].conn].readOnly /\ conns'[calls'[d].conn].tx # "none"
    <2>1. TAKE d \in Calls
    <2>2. HAVE RunsReadOnly(calls'[d])
    <2>3. CASE d = c
        <3>1. new.conn = k
            BY <2>2, <2>3, Others DEF RunsReadOnly, StagedCall, Holding, CallStep
        <3>2. QED
            BY <3>1, <2>2, <2>3, Others
    <2>4. CASE d # c
        <3>1. calls'[d] = calls[d]
            BY <2>4, Others
        <3>2. calls[d].conn \in Conns
            BY <2>2, <3>1 DEF RunsReadOnly, IInv, TypeOK, Staged, StagedCall, Holding, CallType
        <3>3. conns'[calls[d].conn] = conns[calls[d].conn]
            BY <2>4, <3>2, SessionsAssumption DEF CallStep
        <3>4. QED
            BY <2>2, <3>1, <3>3 DEF IInv, ReadOnlyHolds
    <2>5. QED
        BY <2>3, <2>4
<1>2. QED
    BY <1>1 DEF ReadOnlyHolds, RunsReadOnly, Asks

\* The settings that calls other than c have left are in force for good.
LEMMA SettingsOfOthers ==
    ASSUME IInv, NEW c \in Calls, NEW new, NEW k \in Conns, CallStep(c, new, k)
    PROVE  \A d \in Calls : d # c /\ d \in conns[k].settings \cup conns[k].before =>
               Asks(calls[d], "Execute")
    BY SessionsAssumption DEF IInv, SettingsPass, SettingsFit, CallStep

\* Only the call of the step may have added its setting.
LEMMA SettingsStay ==
    ASSUME IInv, NEW c \in Calls, NEW new, NEW k, CallStep(c, new, k),
           k # None => /\ conns'[k].settings \cup conns'[k].before
                            \subseteq conns[k].settings \cup conns[k].before \cup {c}
                       /\ SettingsFit(c, new, k, conns'[k])
    PROVE  SettingsPass'
<1>1. \A l \in Conns, d \in Calls : SettingsFit(d, calls'[d], l, conns'[l])
    <2>1. TAKE l \in Conns, d \in Calls
    <2>2. CASE l # k /\ d # c
        BY <2>2, Others DEF CallStep, IInv, SettingsPass
    <2>3. CASE l # k /\ d = c
        <3>1. SettingsFit(c, calls[c], l, conns[l]) /\ calls[c].conn # l
            BY <2>3, SessionsAssumption DEF CallStep, IInv, SettingsPass
        <3>2. Asks(calls[c], "Execute") => Asks(new, "Execute")
            BY DEF CallStep, Asks
        <3>3. QED
            BY <2>3, <3>1, <3>2, Others DEF CallStep, SettingsFit
    <2>4. CASE l = k /\ d # c
        <3>1. d \in conns'[k].settings \cup conns'[k].before => Asks(calls[d], "Execute")
            BY <2>4, SettingsOfOthers, SessionsAssumption
        <3>2. QED
            BY <2>4, <3>1, Others DEF SettingsFit
    <2>5. CASE l = k /\ d = c
        BY <2>5, Others, SessionsAssumption
    <2>6. QED
        BY <2>2, <2>3, <2>4, <2>5
<1>2. QED
    BY <1>1 DEF SettingsPass, SettingsFit, Asks

\* A step that makes no write permanent.
LEMMA WritesStay ==
    ASSUME IInv, NEW c \in Calls, NEW new, NEW k, CallStep(c, new, k), kept' = kept,
           MayHaveWritten(calls[c]) => MayHaveWritten(new),
           k # None => \A d \in conns'[k].pending :
               d \in conns[k].pending \/ (d = c /\ kept[c] = 0 /\ MayHaveWritten(new)
                                            /\ \A l \in Conns : c \notin conns[l].pending)
    PROVE  WritesOnce'
<1>1. \A d \in Calls : MayHaveWritten(calls[d]) => MayHaveWritten(calls'[d])
    BY Others
<1>2. \A l \in Conns, d \in Calls :
          d \in conns'[l].pending =>
              \/ d \in conns[l].pending
              \/ (d = c /\ l = k /\ kept[c] = 0 /\ MayHaveWritten(calls'[c])
                        /\ \A m \in Conns : c \notin conns[m].pending)
    <2>1. TAKE l \in Conns, d \in Calls
    <2>2. CASE l = k
        BY <2>2, Others, SessionsAssumption
    <2>3. CASE l # k
        BY <2>3 DEF CallStep
    <2>4. QED
        BY <2>2, <2>3
<1>3. \A d \in Calls : kept'[d] = 0 \/ (kept'[d] = 1 /\ MayHaveWritten(calls'[d]))
    BY <1>1 DEF IInv, WritesOnce
<1>4. \A l \in Conns, d \in Calls :
          d \in conns'[l].pending => kept'[d] = 0 /\ MayHaveWritten(calls'[d])
    BY <1>1, <1>2 DEF IInv, WritesOnce
<1>5. \A l, m \in Conns, d \in Calls :
          d \in conns'[l].pending /\ d \in conns'[m].pending => l = m
    BY <1>2 DEF IInv, WritesOnce
<1>6. QED
    BY <1>3, <1>4, <1>5 DEF WritesOnce, MayHaveWritten, Asks

\* A transaction left on the connection is one that some caller began.
LEMMA TransactionsStay ==
    ASSUME IInv, NEW c \in Calls, NEW new, NEW k, CallStep(c, new, k),
           k # None /\ conns'[k].tx # "none" => Began' \/ InReadOnly(new, k)
    PROVE  Transactions'
<1>1. \A l \in Conns : conns'[l].tx # "none" => Began' \/ \E d \in Calls : InReadOnly(calls'[d], l)
    <2>1. TAKE l \in Conns
    <2>2. HAVE conns'[l].tx # "none"
    <2>3. CASE l = k
        BY <2>2, <2>3, Others, SessionsAssumption
    <2>4. CASE l # k
        <3>1. Began \/ \E d \in Calls : InReadOnly(calls[d], l)
            BY <2>2, <2>4 DEF CallStep, IInv, Transactions
        <3>2. CASE Began
            BY <3>2, BeganStays
        <3>3. ASSUME NEW d \in Calls, InReadOnly(calls[d], l)
              PROVE  InReadOnly(calls'[d], l)
            <4>1. d # c
                BY <2>4, <3>3, SessionsAssumption DEF InReadOnly, CallStep
            <4>2. QED
                BY <3>3, <4>1, Others
        <3>4. QED
            BY <3>1, <3>2, <3>3
    <2>5. QED
        BY <2>3, <2>4
<1>2. QED
    BY <1>1 DEF Transactions, InReadOnly, Asks

\* What was made permanent stays so.
LEMMA OkStays ==
    ASSUME IInv, NEW c \in Calls, NEW new, NEW k, CallStep(c, new, k),
           \A d \in Calls : kept[d] = 1 => kept'[d] = 1,
           Succeeded(new) => kept'[c] = 1 \/ Began'
    PROVE  OkWritten'
<1>1. \A d \in Calls : Succeeded(calls'[d]) => kept'[d] = 1 \/ Began'
    BY Others, BeganStays DEF IInv, OkWritten
<1>2. QED
    BY <1>1 DEF OkWritten, Succeeded, Asks

\* The types stay.
LEMMA TypeStays ==
    ASSUME IInv, NEW c \in Calls, NEW new, NEW k, CallStep(c, new, k), kept' \in [Calls -> Nat]
    PROVE  TypeOK'
    BY Others DEF TypeOK, CallStep, CallType, ConnType

-----------------------------------------------------------------------------
(***************************************************************************)
(* The steps of a call that leave its connection as it is                  *)
(***************************************************************************)
\* A call in the places that need a connection has one of its own.
LEMMA Has ==
    ASSUME IInv, NEW c \in Calls, calls[c].pc \in Holding \ {"return"} \/ calls[c].conn # None
    PROVE  /\ calls[c].conn \in Conns /\ calls[c].conn # None
           /\ conns[calls[c].conn] \in ConnType
           /\ conns[calls[c].conn].status = "used"
           /\ \A d \in Calls : d # c => calls[d].conn # calls[c].conn
<1>1. calls[c].conn # None
    BY DEF IInv, Staged, StagedCall
<1>2. QED
    BY <1>1 DEF IInv, TypeOK, CallType, Owned

\* Such a step keeps the invariant if the call goes on as it should.
LEMMA QuietStep ==
    ASSUME IInv, NEW c \in Calls, NEW new \in CallType, Become(c, new), UNCHANGED <<conns, kept>>,
           new.request = calls[c].request, new.conn = calls[c].conn, StagedCall(new),
           RunsReadOnly(new) => RunsReadOnly(calls[c]),
           calls[c].pc # "rollback",
           MayHaveWritten(calls[c]) => MayHaveWritten(new),
           \A k \in Conns : InReadOnly(calls[c], k) => InReadOnly(new, k),
           Succeeded(new) => Succeeded(calls[c])
    PROVE  IInv'
<1> DEFINE k == calls[c].conn
<1>1. k \in Conns \cup {None} /\ (k # None => \A d \in Calls : d # c => calls[d].conn # k)
    BY Has DEF IInv, TypeOK, CallType
<1>2. CallStep(c, new, k)
    BY <1>1 DEF CallStep, Become, IInv, TypeOK
<1> HIDE DEF k
<1>3. TypeOK' /\ Staged'
    BY <1>2, TypeStays, StagedStays DEF IInv, TypeOK
<1>4. Owned'
    <2>1. k # None => conns'[k].status = "used" /\ new.conn = k
        BY Has DEF k
    <2>2. QED
        BY <1>2, <2>1, OwnedStays
<1>5. ReadOnlyHolds'
    <2>1. RunsReadOnly(new) => conns'[k].readOnly /\ conns'[k].tx # "none"
        BY DEF IInv, ReadOnlyHolds, k
    <2>2. QED
        BY <1>2, <2>1, ReadOnlyStays
<1>6. SettingsPass'
    <2>1. k # None => SettingsFit(c, calls[c], k, conns[k])
        BY <1>1 DEF IInv, SettingsPass
    <2>2. k # None => SettingsFit(c, new, k, conns'[k])
        BY <2>1 DEF SettingsFit, Asks
    <2>3. QED
        BY <1>2, <2>2, SettingsStay
<1>7. WritesOnce'
    BY <1>2, WritesStay
<1>8. Transactions'
    <2>1. ASSUME k # None, conns'[k].tx # "none"
          PROVE  Began' \/ InReadOnly(new, k)
        <3>1. Began \/ \E d \in Calls : InReadOnly(calls[d], k)
            BY <1>1, <2>1 DEF IInv, Transactions
        <3>2. \A d \in Calls : InReadOnly(calls[d], k) => d = c
            BY <1>1, <2>1 DEF InReadOnly
        <3>3. QED
            BY <1>1, <1>2, <2>1, <3>1, <3>2, BeganStays
    <2>2. QED
        BY <1>2, <2>1, TransactionsStay
<1>9. OkWritten'
    <2>1. Succeeded(new) => kept'[c] = 1 \/ Began'
        BY <1>2, BeganStays DEF IInv, OkWritten
    <2>2. QED
        BY <1>2, <2>1, OkStays
<1>10. QED
    BY <1>3, <1>4, <1>5, <1>6, <1>7, <1>8, <1>9 DEF IInv

\* A call that gets no connection has done nothing.
LEMMA FailAcquireKeeps ==
    ASSUME IInv, NEW c \in Calls, FailAcquire(c)
    PROVE  IInv'
<1> DEFINE new == [calls[c] EXCEPT !.pc = "done", !.answer = NotBegun(c)]
<1>1. /\ Become(c, new) /\ UNCHANGED <<conns, kept>> /\ calls[c] \in CallType
      /\ NotBegun(c) \in {"validation", "connection"}
    BY DEF FailAcquire, NotBegun, IInv, TypeOK
<1>2. StagedCall(calls[c]) /\ calls[c].pc = "acquire"
    BY DEF FailAcquire, At, IInv, Staged
<1>3. /\ new \in CallType
      /\ new.request = calls[c].request /\ new.conn = calls[c].conn
    BY <1>1 DEF CallType, Places
<1>4. /\ StagedCall(new)
      /\ RunsReadOnly(new) => RunsReadOnly(calls[c])
      /\ MayHaveWritten(calls[c]) => MayHaveWritten(new)
      /\ \A k \in Conns : InReadOnly(calls[c], k) => InReadOnly(new, k)
      /\ Succeeded(new) => Succeeded(calls[c])
    BY <1>1, <1>2, SessionsAssumption
       DEF StagedCall, RunsReadOnly, MayHaveWritten, InReadOnly, Succeeded, Asks, CallType, Holding
<1>5. QED
    BY <1>1, <1>2, <1>3, <1>4, QuietStep

\* Preparing a statement runs nothing.
LEMMA PrepareKeeps ==
    ASSUME IInv, NEW c \in Calls, Prepare(c)
    PROVE  IInv'
<1> DEFINE new == [calls[c] EXCEPT !.pc = "return"]
<1>1. Become(c, new) /\ UNCHANGED <<conns, kept>> /\ calls[c] \in CallType
    BY DEF Prepare, Go, GoWith, IInv, TypeOK
<1>2. StagedCall(calls[c]) /\ calls[c].pc = "prepare"
    BY DEF Prepare, At, IInv, Staged
<1>3. /\ new \in CallType
      /\ new.request = calls[c].request /\ new.conn = calls[c].conn
    BY <1>1 DEF CallType, Places
<1>4. /\ StagedCall(new)
      /\ RunsReadOnly(new) => RunsReadOnly(calls[c])
      /\ MayHaveWritten(calls[c]) => MayHaveWritten(new)
      /\ \A k \in Conns : InReadOnly(calls[c], k) => InReadOnly(new, k)
      /\ Succeeded(new) => Succeeded(calls[c])
    BY <1>1, <1>2, SessionsAssumption
       DEF StagedCall, RunsReadOnly, MayHaveWritten, InReadOnly, Succeeded, Asks, CallType, Holding
<1>5. QED
    BY <1>1, <1>2, <1>3, <1>4, QuietStep

\* Nor do rows change a session.
LEMMA FetchRowKeeps ==
    ASSUME IInv, NEW c \in Calls, FetchRow(c)
    PROVE  IInv'
<1> DEFINE new == [calls[c] EXCEPT !.fetched = @ + 1]
<1>1. Become(c, new) /\ UNCHANGED <<conns, kept>> /\ calls[c] \in CallType
    BY DEF FetchRow, Go, GoWith, IInv, TypeOK
<1>2. StagedCall(calls[c]) /\ calls[c].pc = "run"
    BY DEF FetchRow, At, IInv, Staged
<1>3. /\ new \in CallType
      /\ new.request = calls[c].request /\ new.conn = calls[c].conn
    BY <1>1 DEF CallType, Places
<1>4. /\ StagedCall(new)
      /\ RunsReadOnly(new) => RunsReadOnly(calls[c])
      /\ MayHaveWritten(calls[c]) => MayHaveWritten(new)
      /\ \A k \in Conns : InReadOnly(calls[c], k) => InReadOnly(new, k)
      /\ Succeeded(new) => Succeeded(calls[c])
    BY <1>1, <1>2, SessionsAssumption
       DEF StagedCall, RunsReadOnly, MayHaveWritten, InReadOnly, Succeeded, Asks, CallType, Holding
<1>5. QED
    BY <1>1, <1>2, <1>3, <1>4, QuietStep

\* Nor does giving up on them.
LEMMA TruncateKeeps ==
    ASSUME IInv, NEW c \in Calls, Truncate(c)
    PROVE  IInv'
<1> DEFINE new == [calls[c] EXCEPT !.pc = "drain"]
<1>1. Become(c, new) /\ UNCHANGED <<conns, kept>> /\ calls[c] \in CallType
    BY DEF Truncate, Go, GoWith, IInv, TypeOK
<1>2. StagedCall(calls[c]) /\ calls[c].pc = "run" /\ calls[c].request.rows
    BY DEF Truncate, At, IInv, Staged
<1>3. /\ new \in CallType
      /\ new.request = calls[c].request /\ new.conn = calls[c].conn
    BY <1>1 DEF CallType, Places
<1>4. /\ StagedCall(new)
      /\ RunsReadOnly(new) => RunsReadOnly(calls[c])
      /\ MayHaveWritten(calls[c]) => MayHaveWritten(new)
      /\ \A k \in Conns : InReadOnly(calls[c], k) => InReadOnly(new, k)
      /\ Succeeded(new) => Succeeded(calls[c])
    BY <1>1, <1>2, SessionsAssumption
       DEF StagedCall, RunsReadOnly, MayHaveWritten, InReadOnly, Succeeded, Asks, CallType, Holding
<1>5. QED
    BY <1>1, <1>2, <1>3, <1>4, QuietStep

\* A row that cannot be read belongs to a statement that may have written.
LEMMA FailScanKeeps ==
    ASSUME IInv, NEW c \in Calls, FailScan(c)
    PROVE  IInv'
<1> DEFINE new == [calls[c] EXCEPT !.pc = "drain", !.error = "failed"]
<1>1. Become(c, new) /\ UNCHANGED <<conns, kept>> /\ calls[c] \in CallType
    BY DEF FailScan, Go, GoWith, IInv, TypeOK
<1>2. StagedCall(calls[c]) /\ calls[c].pc = "run" /\ calls[c].request.rows
    BY DEF FailScan, At, IInv, Staged
<1>3. /\ new \in CallType
      /\ new.request = calls[c].request /\ new.conn = calls[c].conn
    BY <1>1 DEF CallType, Places
<1>4. /\ StagedCall(new)
      /\ RunsReadOnly(new) => RunsReadOnly(calls[c])
      /\ MayHaveWritten(calls[c]) => MayHaveWritten(new)
      /\ \A k \in Conns : InReadOnly(calls[c], k) => InReadOnly(new, k)
      /\ Succeeded(new) => Succeeded(calls[c])
    BY <1>1, <1>2, SessionsAssumption
       DEF StagedCall, RunsReadOnly, MayHaveWritten, InReadOnly, Succeeded, Asks, CallType, Holding
<1>5. QED
    BY <1>1, <1>2, <1>3, <1>4, QuietStep

-----------------------------------------------------------------------------
(***************************************************************************)
(* The steps of a call that change its connection                          *)
(***************************************************************************)
\* Such a step is one of a call and its connection.
LEMMA ConnStep ==
    ASSUME IInv, NEW c \in Calls, calls[c].conn # None,
           NEW new \in CallType, NEW conn \in ConnType,
           Become(c, new), OnConn(c, conn),
           new.request = calls[c].request, new.conn \in {calls[c].conn, None}
    PROVE  CallStep(c, new, calls[c].conn) /\ conns'[calls[c].conn] = conn
<1>1. calls[c].conn \in Conns /\ \A d \in Calls : d # c => calls[d].conn # calls[c].conn
    BY Has
<1>2. QED
    BY <1>1 DEF CallStep, Become, OnConn, IInv, TypeOK

\* It keeps the invariant if what the call leaves on the connection is in order.
LEMMA HeldStep ==
    ASSUME IInv, NEW c \in Calls, calls[c].conn # None,
           NEW new \in CallType, NEW conn \in ConnType,
           Become(c, new), OnConn(c, conn),
           new.request = calls[c].request, new.conn \in {calls[c].conn, None},
           kept' \in [Calls -> Nat], \A d \in Calls : kept[d] = 1 => kept'[d] = 1,
           WritesOnce',
           StagedCall(new),
           conn.status = "used" <=> new.conn # None,
           RunsReadOnly(new) => conn.readOnly /\ conn.tx # "none",
           conn.settings \cup conn.before \subseteq Conn(c).settings \cup Conn(c).before \cup {c},
           SettingsFit(c, new, calls[c].conn, conn),
           conn.tx # "none" => Began \/ InReadOnly(new, calls[c].conn),
           Succeeded(new) => kept'[c] = 1 \/ Began
    PROVE  IInv'
<1> DEFINE k == calls[c].conn
<1>1. CallStep(c, new, k) /\ conns'[k] = conn /\ k # None
    BY ConnStep
<1>2. Began => Began'
    BY <1>1, BeganStays
<1>3. TypeOK' /\ Staged'
    BY <1>1, TypeStays, StagedStays
<1>4. Owned'
    <2>1. conns'[k].status = "used" <=> new.conn = k
        BY <1>1
    <2>2. QED
        BY <1>1, <2>1, OwnedStays
<1>5. ReadOnlyHolds'
    BY <1>1, ReadOnlyStays
<1>6. SettingsPass'
    <2>1. /\ conns'[k].settings \cup conns'[k].before
                  \subseteq conns[k].settings \cup conns[k].before \cup {c}
          /\ SettingsFit(c, new, k, conns'[k])
        BY <1>1 DEF Conn
    <2>2. QED
        BY <1>1, <2>1, SettingsStay
<1>7. Transactions'
    BY <1>1, <1>2, TransactionsStay
<1>8. OkWritten'
    BY <1>1, <1>2, OkStays
<1>9. QED
    BY <1>3, <1>4, <1>5, <1>6, <1>7, <1>8 DEF IInv

\* The transaction on the connection of a call is its own, or some caller's.
LEMMA WhoseTransaction ==
    ASSUME IInv, NEW c \in Calls, calls[c].conn # None, Conn(c).tx # "none"
    PROVE  Began \/ InReadOnly(calls[c], calls[c].conn)
<1>1. Began \/ \E d \in Calls : InReadOnly(calls[d], calls[c].conn)
    BY Has DEF IInv, Transactions, Conn
<1>2. \A d \in Calls : InReadOnly(calls[d], calls[c].conn) => d = c
    BY Has DEF InReadOnly
<1>3. QED
    BY <1>1, <1>2

\* What a call that has its connection finds on it.
LEMMA OnItsConnection ==
    ASSUME IInv, NEW c \in Calls, calls[c].conn # None
    PROVE  /\ Conn(c) \in ConnType /\ Conn(c).status = "used"
           /\ StagedCall(calls[c]) /\ calls[c] \in CallType
           /\ SettingsFit(c, calls[c], calls[c].conn, Conn(c))
           /\ RunsReadOnly(calls[c]) => Conn(c).readOnly /\ Conn(c).tx # "none"
<1>1. calls[c].conn \in Conns /\ Conn(c) \in ConnType /\ Conn(c).status = "used"
    BY Has DEF Conn
<1>2. QED
    BY <1>1 DEF IInv, TypeOK, Staged, SettingsPass, ReadOnlyHolds, Conn

\* Writes are counted as before when nothing becomes permanent.
LEMMA NoWrite ==
    ASSUME IInv, NEW c \in Calls, calls[c].conn # None,
           NEW new \in CallType, NEW conn \in ConnType,
           Become(c, new), OnConn(c, conn), kept' = kept,
           new.request = calls[c].request, new.conn \in {calls[c].conn, None},
           MayHaveWritten(calls[c]) => MayHaveWritten(new),
           conn.pending \subseteq Conn(c).pending
    PROVE  WritesOnce' /\ kept' \in [Calls -> Nat]
<1> DEFINE k == calls[c].conn
<1>1. CallStep(c, new, k) /\ conns'[k] = conn /\ conn.pending \subseteq conns[k].pending
    BY ConnStep DEF Conn
<1>2. WritesOnce'
    BY <1>1, WritesStay
<1>3. QED
    BY <1>2 DEF IInv, TypeOK

\* The read-only transaction begins.
LEMMA BeginReadOnlyKeeps ==
    ASSUME IInv, NEW c \in Calls, BeginReadOnly(c)
    PROVE  IInv'
<1> DEFINE new == [calls[c] EXCEPT !.pc = "run"]
           conn == Begun(Conn(c), TRUE)
<1>1. /\ calls[c].pc = "begin" /\ calls[c].conn # None
      /\ Become(c, new) /\ OnConn(c, conn) /\ kept' = kept
    BY Has DEF BeginReadOnly, At, Go, Holding
<1>2. /\ Conn(c) \in ConnType /\ Conn(c).status = "used"
      /\ StagedCall(calls[c]) /\ calls[c] \in CallType
      /\ SettingsFit(c, calls[c], calls[c].conn, Conn(c))
    BY <1>1, OnItsConnection
<1>3. /\ conn \in ConnType /\ conn.status = "used" /\ conn.tx # "none" /\ conn.readOnly
      /\ conn.pending = Conn(c).pending /\ conn.settings = Conn(c).settings
      /\ conn.before \subseteq Conn(c).before \cup Conn(c).settings
    BY <1>2 DEF Begun, ConnType
<1>4. /\ new \in CallType /\ new.request = calls[c].request /\ new.conn = calls[c].conn
    BY <1>2 DEF CallType, Places
<1>5. Asks(calls[c], "ExecuteReadOnly") /\ calls[c].error = None /\ calls[c].answer = None
    BY <1>1, <1>2 DEF StagedCall
<1>6. /\ StagedCall(new) /\ ~ MayHaveWritten(calls[c]) /\ ~ Succeeded(new)
      /\ InReadOnly(new, calls[c].conn)
    BY <1>1, <1>2, <1>5, SessionsAssumption
       DEF StagedCall, MayHaveWritten, Succeeded, InReadOnly, Asks, Holding, CallType
<1>7. SettingsFit(c, new, calls[c].conn, conn)
    BY <1>1, <1>2, <1>3, <1>5 DEF SettingsFit, Asks
<1>8. WritesOnce' /\ kept' \in [Calls -> Nat]
    <2>1. conn.pending \subseteq Conn(c).pending
        BY <1>3
    <2> HIDE DEF new, conn
    <2>2. QED
        BY <1>1, <1>3, <1>4, <1>6, <2>1, NoWrite
<1> HIDE DEF new, conn
<1>9. QED
    BY <1>1, <1>3, <1>4, <1>6, <1>7, <1>8, HeldStep

\* A refused statement may leave a transaction of others broken.
LEMMA RefusePrepareKeeps ==
    ASSUME IInv, NEW c \in Calls, RefusePrepare(c)
    PROVE  IInv'
<1> DEFINE new == [calls[c] EXCEPT !.pc = "return", !.error = "validation"]
           conn == Broken(Conn(c))
<1>1. /\ calls[c].pc = "prepare" /\ calls[c].conn # None
      /\ Become(c, new) /\ OnConn(c, conn) /\ kept' = kept
    BY Has DEF RefusePrepare, At, Running, Go, GoWith, Holding, EndReadOnly, Refusal
<1>2. /\ Conn(c) \in ConnType /\ Conn(c).status = "used"
      /\ StagedCall(calls[c]) /\ calls[c] \in CallType
      /\ SettingsFit(c, calls[c], calls[c].conn, Conn(c))
    BY <1>1, OnItsConnection
<1>3. /\ conn \in ConnType /\ conn.status = "used"
      /\ conn.pending = Conn(c).pending /\ conn.settings = Conn(c).settings
      /\ conn.before = Conn(c).before /\ (conn.tx = "none" <=> Conn(c).tx = "none")
    BY <1>2 DEF Broken, ConnType
<1>4. /\ new \in CallType /\ new.request = calls[c].request /\ new.conn = calls[c].conn
    BY <1>2 DEF CallType, Places, LastStep
<1>5. Asks(calls[c], "Validate") /\ calls[c].answer = None
    BY <1>1, <1>2 DEF StagedCall, Asks
<1>6. /\ StagedCall(new) /\ ~ MayHaveWritten(calls[c]) /\ ~ Succeeded(new)
      /\ ~ RunsReadOnly(new)
    BY <1>1, <1>2, <1>5, SessionsAssumption
       DEF StagedCall, MayHaveWritten, Succeeded, RunsReadOnly, Asks, Holding, CallType, LastStep, Op
<1>7. SettingsFit(c, new, calls[c].conn, conn)
    BY <1>1, <1>2, <1>3, <1>5 DEF SettingsFit, Asks, StagedCall, LastStep, Op
<1>8. WritesOnce' /\ kept' \in [Calls -> Nat]
    <2>1. conn.pending \subseteq Conn(c).pending
        BY <1>3
    <2> HIDE DEF new, conn
    <2>2. QED
        BY <1>1, <1>3, <1>4, <1>6, <2>1, NoWrite
<1>9. conn.tx # "none" => Began \/ InReadOnly(new, calls[c].conn)
    BY <1>1, <1>3, <1>5, WhoseTransaction DEF InReadOnly
<1> HIDE DEF new, conn
<1>10. QED
    BY <1>1, <1>3, <1>4, <1>6, <1>7, <1>8, <1>9, HeldStep

\* So may one that was run.
LEMMA RefuseKeeps ==
    ASSUME IInv, NEW c \in Calls, Refuse(c)
    PROVE  IInv'
<1> DEFINE new == [calls[c] EXCEPT !.pc = LastStep(c), !.error = "failed"]
           conn == Broken(Conn(c))
<1>1. /\ calls[c].pc \in {"run", "drain"} /\ calls[c].conn # None
      /\ Become(c, new) /\ OnConn(c, conn) /\ kept' = kept
    BY Has DEF Refuse, At, Running, Go, GoWith, Holding, EndReadOnly, Refusal
<1>2. /\ Conn(c) \in ConnType /\ Conn(c).status = "used"
      /\ StagedCall(calls[c]) /\ calls[c] \in CallType
      /\ SettingsFit(c, calls[c], calls[c].conn, Conn(c))
    BY <1>1, OnItsConnection
<1>3. /\ conn \in ConnType /\ conn.status = "used"
      /\ conn.pending = Conn(c).pending /\ conn.settings = Conn(c).settings
      /\ conn.before = Conn(c).before /\ (conn.tx = "none" <=> Conn(c).tx = "none")
    BY <1>2 DEF Broken, ConnType
<1>4. /\ new \in CallType /\ new.request = calls[c].request /\ new.conn = calls[c].conn
    BY <1>2 DEF CallType, Places, LastStep
<1>5. /\ Asks(calls[c], "Execute") \/ Asks(calls[c], "ExecuteReadOnly")
      /\ calls[c].answer = None
    BY <1>1, <1>2 DEF StagedCall, Asks
<1>6. /\ StagedCall(new) /\ ~ MayHaveWritten(calls[c]) /\ ~ Succeeded(new)
      /\ ~ RunsReadOnly(new)
    BY <1>1, <1>2, <1>5, SessionsAssumption
       DEF StagedCall, MayHaveWritten, Succeeded, RunsReadOnly, Asks, Holding, CallType, LastStep, Op
<1>7. SettingsFit(c, new, calls[c].conn, conn)
    BY <1>1, <1>2, <1>3, <1>5 DEF SettingsFit, Asks, StagedCall, LastStep, Op
<1>8. WritesOnce' /\ kept' \in [Calls -> Nat]
    <2>1. conn.pending \subseteq Conn(c).pending
        BY <1>3
    <2> HIDE DEF new, conn
    <2>2. QED
        BY <1>1, <1>3, <1>4, <1>6, <2>1, NoWrite
<1>9. conn.tx # "none" => Began \/ InReadOnly(new, calls[c].conn)
    BY <1>1, <1>3, <1>4, <1>5, WhoseTransaction DEF InReadOnly, Asks, LastStep, Op
<1> HIDE DEF new, conn
<1>10. QED
    BY <1>1, <1>3, <1>4, <1>6, <1>7, <1>8, <1>9, HeldStep

\* The read-only transaction ends, and with it the settings of its call.
LEMMA RollBackKeeps ==
    ASSUME IInv, NEW c \in Calls, RollBack(c)
    PROVE  IInv'
<1> DEFINE new == [calls[c] EXCEPT !.pc = "return"]
           conn == RolledBack(Conn(c))
<1>1. /\ calls[c].pc = "rollback" /\ calls[c].conn # None
      /\ Become(c, new) /\ OnConn(c, conn) /\ kept' = kept
    BY Has DEF RollBack, At, Running, Go, GoWith, Holding, EndReadOnly, Refusal
<1>2. /\ Conn(c) \in ConnType /\ Conn(c).status = "used"
      /\ StagedCall(calls[c]) /\ calls[c] \in CallType
      /\ SettingsFit(c, calls[c], calls[c].conn, Conn(c))
    BY <1>1, OnItsConnection
<1>3. /\ conn \in ConnType /\ conn.status = "used" /\ conn.tx = "none"
      /\ conn.pending \subseteq Conn(c).pending /\ conn.before = Conn(c).before
      /\ conn.settings = IF Conn(c).tx = "none" THEN Conn(c).settings ELSE Conn(c).before
    BY <1>2 DEF RolledBack, Ended, ConnType
<1>4. /\ new \in CallType /\ new.request = calls[c].request /\ new.conn = calls[c].conn
    BY <1>2 DEF CallType, Places, LastStep
<1>5. Asks(calls[c], "ExecuteReadOnly") /\ calls[c].answer = None
    BY <1>1, <1>2 DEF StagedCall, Asks
<1>6. /\ StagedCall(new) /\ ~ MayHaveWritten(calls[c]) /\ ~ Succeeded(new)
      /\ ~ RunsReadOnly(new)
    BY <1>1, <1>2, <1>5, SessionsAssumption
       DEF StagedCall, MayHaveWritten, Succeeded, RunsReadOnly, Asks, Holding, CallType, LastStep, Op
<1>7. SettingsFit(c, new, calls[c].conn, conn)
    BY <1>1, <1>2, <1>3, <1>5 DEF SettingsFit, Asks, StagedCall, LastStep, Op
<1>8. WritesOnce' /\ kept' \in [Calls -> Nat]
    <2>1. conn.pending \subseteq Conn(c).pending
        BY <1>3
    <2> HIDE DEF new, conn
    <2>2. QED
        BY <1>1, <1>3, <1>4, <1>6, <2>1, NoWrite
<1>9. conn.tx # "none" => Began \/ InReadOnly(new, calls[c].conn)
    BY <1>3
<1> HIDE DEF new, conn
<1>10. QED
    BY <1>1, <1>3, <1>4, <1>6, <1>7, <1>8, <1>9, HeldStep

\* A statement's session types, and the connection stays with who has it.
LEMMA AfterType ==
    ASSUME NEW conn \in ConnType, NEW c \in Calls, NEW kind \in Kinds
    PROVE  After(conn, c, kind) \in ConnType /\ After(conn, c, kind).status = conn.status
<1>1. Begun(conn, FALSE) \in ConnType /\ Begun(conn, FALSE).status = conn.status
    BY DEF Begun, ConnType
<1>2. /\ RolledBack(conn) \in ConnType /\ RolledBack(conn).status = conn.status
      /\ Ended(conn) \in ConnType /\ Ended(conn).status = conn.status
    BY DEF RolledBack, Ended, ConnType
<1>3. CASE kind \in {"begin", "commit", "rollback"}
    BY <1>1, <1>2, <1>3 DEF After, Committed
<1>4. CASE kind \in {"read", "write", "set"}
    BY <1>4 DEF After, ConnType
<1>5. QED
    BY <1>3, <1>4 DEF Kinds

\* What a statement leaves on its session of its own call, and of others.
LEMMA AfterEffect ==
    ASSUME NEW conn \in ConnType, NEW c \in Calls, NEW kind \in Kinds
    PROVE  LET new == After(conn, c, kind) IN
           /\ new.settings \subseteq conn.settings \cup conn.before \cup {c}
           /\ new.before \subseteq conn.settings \cup conn.before
           /\ c \in new.settings => c \in conn.settings \cup conn.before \/ kind = "set"
           /\ kind = "set" => new.tx = conn.tx
           /\ conn.tx = "none" => new.tx = "none" \/ kind = "begin"
           /\ new.pending \subseteq conn.pending \cup {c}
           /\ kind # "write" \/ conn.tx = "none" => new.pending \subseteq conn.pending
           /\ kind = "commit" /\ conn.tx = "open" => new.pending = {}
<1>1. CASE kind \in {"begin", "commit", "rollback"}
    BY <1>1 DEF After, Begun, Committed, RolledBack, Ended, ConnType
<1>2. CASE kind \in {"read", "write", "set"}
    BY <1>2 DEF After, ConnType
<1>3. QED
    BY <1>1, <1>2 DEF Kinds

\* What a statement makes permanent is counted once: its own write, or those
\* that its transaction held.
LEMMA KeepOnce ==
    ASSUME IInv, NEW c \in Calls, NEW new, NEW k \in Conns, CallStep(c, new, k),
           NEW kind \in Kinds, Keep(Permanent(conns[k], c, kind)),
           kind = "write" => MayHaveWritten(new),
           ~ MayHaveWritten(calls[c]),
           conns'[k].pending \subseteq After(conns[k], c, kind).pending
    PROVE  /\ WritesOnce' /\ kept' \in [Calls -> Nat]
           /\ \A d \in Calls : kept[d] = 1 => kept'[d] = 1
           /\ kind = "write" /\ conns[k].tx = "none" => kept'[c] = 1
<1>1. conns[k] \in ConnType /\ kept \in [Calls -> Nat] /\ k # None
    BY SessionsAssumption DEF IInv, TypeOK
<1>2. kept[c] = 0 /\ \A l \in Conns : c \notin conns[l].pending
    BY DEF IInv, WritesOnce
<1> DEFINE done == Permanent(conns[k], c, kind)
<1>3. \A d \in Calls : kept'[d] = IF d \in done THEN kept[d] + 1 ELSE kept[d]
    BY DEF Keep
<1>4. kept' \in [Calls -> Nat]
    BY <1>1 DEF Keep
<1>5. CASE done = {}
    <2>1. kept' = kept
        BY <1>1, <1>5 DEF Keep
    <2>2. \A d \in conns'[k].pending :
              d \in conns[k].pending \/ (d = c /\ kept[c] = 0 /\ MayHaveWritten(new)
                                            /\ \A l \in Conns : c \notin conns[l].pending)
        BY <1>1, <1>2, AfterEffect
    <2>3. WritesOnce'
        BY <2>1, <2>2, WritesStay
    <2>4. ~ (kind = "write" /\ conns[k].tx = "none")
        BY <1>5 DEF Permanent
    <2>5. QED
        BY <1>4, <2>1, <2>3, <2>4
<1>6. CASE kind = "write" /\ conns[k].tx = "none"
    <2>1. done = {c}
        BY <1>6 DEF Permanent
    <2>2. kept'[c] = 1 /\ \A d \in Calls : d # c => kept'[d] = kept[d]
        BY <1>2, <1>3, <2>1
    <2>3. \A l \in Conns : conns'[l].pending \subseteq conns[l].pending
        BY <1>1, <1>6, AfterEffect DEF CallStep
    <2>4. \A d \in Calls : kept'[d] = 0 \/ (kept'[d] = 1 /\ MayHaveWritten(calls'[d]))
        BY <1>6, <2>2, Others DEF IInv, WritesOnce
    <2>5. \A l \in Conns, d \in Calls :
              d \in conns'[l].pending => kept'[d] = 0 /\ MayHaveWritten(calls'[d])
        BY <1>2, <2>2, <2>3, Others DEF IInv, WritesOnce
    <2>6. \A l, m \in Conns, d \in Calls :
              d \in conns'[l].pending /\ d \in conns'[m].pending => l = m
        BY <2>3 DEF IInv, WritesOnce
    <2>7. WritesOnce'
        BY <2>4, <2>5, <2>6 DEF WritesOnce, MayHaveWritten, Asks
    <2>8. QED
        BY <1>2, <1>4, <2>2, <2>7
<1>7. CASE kind = "commit" /\ conns[k].tx = "open"
    <2>1. done = conns[k].pending
        BY <1>7 DEF Permanent
    <2>2. conns'[k].pending = {}
        BY <1>1, <1>7, AfterEffect
    <2>3. \A l \in Conns : l # k => conns'[l].pending = conns[l].pending
        BY DEF CallStep
    <2>4. \A d \in Calls : kept'[d] = 0 \/ (kept'[d] = 1 /\ MayHaveWritten(calls'[d]))
        BY <1>1, <1>2, <1>3, <2>1, Others DEF IInv, WritesOnce
    <2>5. \A l \in Conns, d \in Calls :
              d \in conns'[l].pending => kept'[d] = 0 /\ MayHaveWritten(calls'[d])
        <3>1. TAKE l \in Conns, d \in Calls
        <3>2. HAVE d \in conns'[l].pending
        <3>3. l # k /\ d \in conns[l].pending
            BY <2>2, <2>3, <3>2
        <3>4. d # c /\ d \notin conns[k].pending /\ kept[d] = 0 /\ MayHaveWritten(calls[d])
            BY <1>2, <3>3 DEF IInv, WritesOnce
        <3>5. QED
            BY <1>3, <2>1, <3>4, Others
    <2>6. \A l, m \in Conns, d \in Calls :
              d \in conns'[l].pending /\ d \in conns'[m].pending => l = m
        BY <2>2, <2>3 DEF IInv, WritesOnce
    <2>7. WritesOnce'
        BY <2>4, <2>5, <2>6 DEF WritesOnce, MayHaveWritten, Asks
    <2>8. \A d \in Calls : kept[d] = 1 => kept'[d] = 1
        BY <1>3, <2>1 DEF IInv, WritesOnce
    <2>9. QED
        BY <1>4, <1>7, <2>7, <2>8
<1>8. QED
    BY <1>5, <1>6, <1>7 DEF Permanent

\* A statement that is carried out.
LEMMA CompleteKeeps ==
    ASSUME IInv, NEW c \in Calls, Complete(c)
    PROVE  IInv'
<1> DEFINE new == [calls[c] EXCEPT !.pc = LastStep(c)]
           kind == Kind(c)
           conn == After(Conn(c), c, kind)
           k == calls[c].conn
<1>1. /\ calls[c].pc \in {"run", "drain"} /\ calls[c].conn # None
      /\ Allowed(Conn(c), kind)
      /\ Become(c, new) /\ OnConn(c, conn) /\ Keep(Permanent(Conn(c), c, kind))
    BY Has DEF Complete, At, Running, Go, Holding
<1>2. /\ Conn(c) \in ConnType /\ Conn(c).status = "used"
      /\ StagedCall(calls[c]) /\ calls[c] \in CallType
      /\ SettingsFit(c, calls[c], k, Conn(c))
      /\ RunsReadOnly(calls[c]) => Conn(c).readOnly /\ Conn(c).tx # "none"
    BY <1>1, OnItsConnection
<1>3. /\ \/ Asks(calls[c], "Execute") /\ LastStep(c) = "return"
         \/ Asks(calls[c], "ExecuteReadOnly") /\ RunsReadOnly(calls[c]) /\ LastStep(c) = "rollback"
      /\ calls[c].answer = None
      /\ kind \in Kinds
    <2>1. Asks(calls[c], "Execute") \/ Asks(calls[c], "ExecuteReadOnly")
        BY <1>1, <1>2 DEF StagedCall
    <2>2. calls[c].answer = None
        BY <1>1, <1>2 DEF StagedCall
    <2>3. calls[c].request \in Request
        BY <1>2, <2>1 DEF CallType, Asks
    <2>4. kind \in Kinds
        BY <2>3 DEF Request, Kind
    <2>5. Asks(calls[c], "Execute") => LastStep(c) = "return"
        BY DEF Asks, LastStep, Op
    <2>6. Asks(calls[c], "ExecuteReadOnly") => LastStep(c) = "rollback" /\ RunsReadOnly(calls[c])
        BY <1>1 DEF Asks, LastStep, Op, RunsReadOnly
    <2>7. QED
        BY <2>1, <2>2, <2>4, <2>5, <2>6
<1>4. /\ conn \in ConnType /\ conn.status = "used"
    BY <1>2, <1>3, AfterType
<1>5. /\ new \in CallType /\ new.request = calls[c].request /\ new.conn = calls[c].conn
      /\ new.pc = LastStep(c) /\ new.error = calls[c].error /\ new.answer = None
    BY <1>2, <1>3 DEF CallType, Places, LastStep
<1>6. StagedCall(new) /\ ~ RunsReadOnly(new) /\ ~ MayHaveWritten(calls[c])
    BY <1>1, <1>2, <1>3, <1>5, SessionsAssumption
       DEF StagedCall, RunsReadOnly, MayHaveWritten, Asks, Holding
<1>7. kind = "write" => /\ Asks(calls[c], "Execute") /\ MayHaveWritten(new)
    <2>1. SUFFICES ASSUME kind = "write"
                   PROVE  Asks(calls[c], "Execute") /\ MayHaveWritten(new)
        OBVIOUS
    <2>2. Asks(calls[c], "Execute") /\ LastStep(c) = "return"
        BY <1>1, <1>2, <1>3, <2>1 DEF Allowed
    <2>3. calls[c].error = "failed" => calls[c].request.rows
        BY <1>1, <1>2, SessionsAssumption DEF StagedCall
    <2>4. QED
        BY <1>5, <2>1, <2>2, <2>3, SessionsAssumption DEF MayHaveWritten, Asks, Kind
<1>8. SettingsFit(c, new, k, conn)
    BY <1>1, <1>2, <1>3, <1>5, AfterEffect DEF SettingsFit, Asks
<1>9. conn.tx # "none" => Began \/ InReadOnly(new, k)
    <2>1. CASE Asks(calls[c], "ExecuteReadOnly")
        BY <1>3, <1>5, <2>1 DEF InReadOnly, Asks
    <2>2. CASE Asks(calls[c], "Execute")
        <3>1. Conn(c).tx # "none" => Began
            BY <1>1, <2>2, WhoseTransaction DEF InReadOnly, Asks
        <3>2. kind = "begin" => Began
            BY <2>2 DEF Began, Asks, Op
        <3>3. QED
            BY <1>2, <1>3, <3>1, <3>2, AfterEffect
    <2>3. QED
        BY <1>3, <2>1, <2>2
<1>10. /\ WritesOnce' /\ kept' \in [Calls -> Nat]
       /\ \A d \in Calls : kept[d] = 1 => kept'[d] = 1
       /\ kind = "write" /\ Conn(c).tx = "none" => kept'[c] = 1
    <2> HIDE DEF new, conn, kind
    <2>1. CallStep(c, new, k) /\ conns'[k] = conn /\ k \in Conns
        BY <1>1, <1>4, <1>5, ConnStep, Has
    <2>2. /\ Keep(Permanent(conns[k], c, kind))
          /\ conns'[k].pending \subseteq After(conns[k], c, kind).pending
        BY <1>1, <2>1 DEF Conn, conn
    <2>3. QED
        BY <1>3, <1>6, <1>7, <2>1, <2>2, KeepOnce DEF Conn
<1>11. Succeeded(new) => kept'[c] = 1 \/ Began
    <2>1. SUFFICES ASSUME Succeeded(new)
                   PROVE  kept'[c] = 1 \/ Began
        OBVIOUS
    <2>2. kind = "write" /\ Asks(calls[c], "Execute")
        BY <1>5, <2>1 DEF Succeeded, Asks, Kind
    <2>3. Conn(c).tx # "none" => Began
        BY <1>1, <2>2, WhoseTransaction DEF InReadOnly, Asks
    <2>4. QED
        BY <1>10, <2>2, <2>3
<1>12. conn.settings \cup conn.before \subseteq Conn(c).settings \cup Conn(c).before \cup {c}
    BY <1>2, <1>3, AfterEffect
<1> HIDE DEF new, conn
<1>13. QED
    BY <1>1, <1>4, <1>5, <1>6, <1>8, <1>9, <1>10, <1>11, <1>12, HeldStep


\* A connection that is lost takes its session with it.
LEMMA GoneType ==
    Gone \in ConnType /\ Gone.status = "none" /\ Gone.tx = "none"
        /\ Gone.pending = {} /\ Gone.settings = {} /\ Gone.before = {}
    BY DEF Gone, ConnType

\* The connection breaks under a call.
LEMMA LoseKeeps ==
    ASSUME IInv, NEW c \in Calls, Lose(c)
    PROVE  IInv'
<1> DEFINE new == [calls[c] EXCEPT !.pc = "return", !.conn = None, !.error = LostAs(c)]
           k == calls[c].conn
<1>1. /\ calls[c].pc \in {"run", "drain", "begin", "prepare", "rollback"} /\ k # None
      /\ Become(c, new) /\ OnConn(c, Gone)
    BY Has DEF Lose, At, Running, Holding
<1>2. /\ Conn(c) \in ConnType /\ StagedCall(calls[c]) /\ calls[c] \in CallType
    BY <1>1, OnItsConnection
<1>3. /\ new \in CallType /\ new.request = calls[c].request /\ new.conn = None
      /\ new.pc = "return" /\ new.answer = None /\ new.error = LostAs(c)
      /\ LostAs(c) \in {"lost", "validation", "connection"}
      /\ Asks(calls[c], "Execute") => LostAs(c) = "lost"
    <2>1. LostAs(c) \in {"lost", "validation", "connection"}
        BY DEF LostAs, NotBegun
    <2>2. Asks(calls[c], "Execute") => Running(c)
        BY <1>1, <1>2 DEF StagedCall, Asks, Running, At
    <2>3. QED
        BY <1>1, <1>2, <2>1, <2>2 DEF LostAs, CallType, Places, StagedCall
<1>4. /\ StagedCall(new) /\ ~ RunsReadOnly(new) /\ ~ MayHaveWritten(calls[c]) /\ ~ Succeeded(new)
    BY <1>1, <1>2, <1>3, SessionsAssumption
       DEF StagedCall, RunsReadOnly, MayHaveWritten, Succeeded, Asks, Holding
<1>5. SettingsFit(c, new, k, Gone)
    BY GoneType DEF SettingsFit
<1>6. CallStep(c, new, k) /\ conns'[k] = Gone /\ k \in Conns
    <2> HIDE DEF new
    <2>1. QED
        BY <1>1, <1>3, ConnStep, Has, GoneType
<1>7. /\ WritesOnce' /\ kept' \in [Calls -> Nat]
      /\ \A d \in Calls : kept[d] = 1 => kept'[d] = 1
    <2> HIDE DEF new
    <2>1. CASE Keep({})
        <3>1. kept' = kept
            BY <2>1 DEF Keep, IInv, TypeOK
        <3>2. WritesOnce'
            BY <1>4, <1>6, <3>1, GoneType, WritesStay
        <3>3. QED
            BY <3>1, <3>2 DEF IInv, TypeOK
    <2>2. CASE Running(c) /\ Allowed(Conn(c), Kind(c)) /\ Keep(Permanent(Conn(c), c, Kind(c)))
        <3>1. calls[c].pc \in {"run", "drain"}
            BY <2>2 DEF Running, At
        <3>2. Asks(calls[c], "Execute") \/ Asks(calls[c], "ExecuteReadOnly")
            BY <1>2, <3>1 DEF StagedCall
        <3>3. Kind(c) \in Kinds
            BY <1>2, <3>2 DEF CallType, Asks, Request, Kind
        <3>4. Kind(c) = "write" => MayHaveWritten(new)
            <4>1. ASSUME Kind(c) = "write", Asks(calls[c], "ExecuteReadOnly")
                  PROVE  FALSE
                <5>1. Conn(c).readOnly
                    BY <1>1, <3>1, <4>1, OnItsConnection DEF RunsReadOnly
                <5>2. QED
                    BY <2>2, <4>1, <5>1 DEF Allowed
            <4>2. QED
                BY <1>3, <3>2, <4>1, SessionsAssumption DEF MayHaveWritten, Asks, Kind
        <3>5. /\ Keep(Permanent(conns[k], c, Kind(c)))
              /\ conns'[k].pending \subseteq After(conns[k], c, Kind(c)).pending
            BY <1>6, <2>2, GoneType DEF Conn
        <3>6. QED
            BY <1>4, <1>6, <3>3, <3>4, <3>5, KeepOnce
    <2>3. QED
        BY <2>1, <2>2 DEF Lose
<1> HIDE DEF new
<1>8. QED
    BY <1>1, <1>3, <1>4, <1>5, <1>7, GoneType, HeldStep

\* A connection that is given back is idle or closed.
LEMMA ReleasedType ==
    ASSUME NEW conn \in ConnType
    PROVE  /\ Released(conn) \in ConnType /\ Released(conn).status # "used"
           /\ Released(conn).tx = conn.tx \/ Released(conn).tx = "none"
           /\ Released(conn).pending \subseteq conn.pending
           /\ Released(conn).settings \subseteq conn.settings
           /\ Released(conn).before \subseteq conn.before
<1>1. CASE life = "closed"
    BY <1>1, GoneType DEF Released, ConnType
<1>2. CASE life # "closed"
    BY <1>2 DEF Released, ConnType
<1>3. QED
    BY <1>1, <1>2

\* The call ends, and its connection goes back.
LEMMA ReturnKeeps ==
    ASSUME IInv, NEW c \in Calls, Return(c)
    PROVE  IInv'
<1> DEFINE answer == IF calls[c].error = None THEN "ok" ELSE calls[c].error
           new == [calls[c] EXCEPT !.pc = "done", !.conn = None, !.answer = answer]
           k == calls[c].conn
<1>1. calls[c].pc = "return" /\ Become(c, new) /\ kept' = kept
    BY DEF Return, At
<1>2. StagedCall(calls[c]) /\ calls[c] \in CallType
    BY DEF IInv, TypeOK, Staged
<1>3. /\ new \in CallType /\ new.request = calls[c].request /\ new.conn = None
      /\ new.pc = "done" /\ new.error = calls[c].error /\ new.answer = answer
    BY <1>2 DEF CallType, Places
<1>4. /\ StagedCall(new) /\ ~ RunsReadOnly(new)
      /\ MayHaveWritten(calls[c]) => MayHaveWritten(new)
      /\ Succeeded(new) => Succeeded(calls[c])
    <2>1. answer \in {"ok", "failed", "lost", "validation", "connection"} /\ answer # None
        BY <1>2, SessionsAssumption DEF CallType
    <2>2. StagedCall(new) /\ ~ RunsReadOnly(new)
        BY <1>1, <1>2, <1>3 DEF StagedCall, RunsReadOnly, Asks, Holding
    <2>3. answer = "ok" => calls[c].error = None
        BY <1>2, SessionsAssumption DEF CallType
    <2>4. Succeeded(new) => Succeeded(calls[c])
        BY <1>1, <1>3, <2>3 DEF Succeeded, Asks
    <2>5. answer \in {"failed", "validation", "connection"} => calls[c].error = answer
        OBVIOUS
    <2>6. ASSUME MayHaveWritten(calls[c])
          PROVE  MayHaveWritten(new)
        <3>1. Asks(calls[c], "Execute") /\ calls[c].error \notin {"validation", "connection"}
            BY <1>2, <2>6 DEF MayHaveWritten, StagedCall
        <3>2. QED
            BY <1>1, <1>3, <2>1, <2>5, <2>6, <3>1 DEF MayHaveWritten, Asks
    <2>7. QED
        BY <2>2, <2>4, <2>6
<1>5. \A l \in Conns : ~ InReadOnly(calls[c], l)
    BY <1>1 DEF InReadOnly
<1>6. CASE k = None
    <2>1. UNCHANGED <<conns, kept>>
        BY <1>1, <1>6 DEF Return
    <2> HIDE DEF new
    <2>2. QED
        BY <1>1, <1>3, <1>4, <1>5, <1>6, <2>1, QuietStep
<1>7. CASE k # None
    <2> DEFINE conn == Released(Conn(c))
    <2>1. OnConn(c, conn)
        BY <1>7 DEF Return, GivenBack
    <2>2. Conn(c) \in ConnType /\ SettingsFit(c, calls[c], k, Conn(c))
        BY <1>7, OnItsConnection
    <2>3. /\ conn \in ConnType /\ conn.status # "used"
          /\ conn.tx = Conn(c).tx \/ conn.tx = "none"
          /\ conn.pending \subseteq Conn(c).pending
          /\ conn.settings \subseteq Conn(c).settings
          /\ conn.before \subseteq Conn(c).before
        BY <2>2, ReleasedType
    <2> HIDE DEF new, conn
    <2>4. WritesOnce' /\ kept' \in [Calls -> Nat]
        BY <1>1, <1>3, <1>4, <1>7, <2>1, <2>3, NoWrite
    <2>5. SettingsFit(c, new, k, conn)
        BY <1>1, <1>3, <2>2, <2>3 DEF SettingsFit, Asks
    <2>6. conn.tx # "none" => Began \/ InReadOnly(new, k)
        BY <1>5, <1>7, <2>3, WhoseTransaction, Has
    <2>7. Succeeded(new) => kept'[c] = 1 \/ Began
        BY <1>1, <1>4 DEF IInv, OkWritten
    <2>8. conn.settings \cup conn.before \subseteq Conn(c).settings \cup Conn(c).before \cup {c}
        BY <2>3
    <2>9. QED
        BY <1>1, <1>3, <1>4, <1>7, <2>1, <2>3, <2>4, <2>5, <2>6, <2>7, <2>8, HeldStep
<1>8. QED
    BY <1>6, <1>7

-----------------------------------------------------------------------------
(***************************************************************************)
(* The steps that begin a call                                             *)
(***************************************************************************)
\* The pool takes a connection that nobody has.
LEMMA AcquireKeeps ==
    ASSUME IInv, NEW c \in Calls, NEW k \in Conns, Acquire(c, k)
    PROVE  IInv'
<1> DEFINE new == [calls[c] EXCEPT !.pc = FirstStep(c), !.conn = k]
           conn == [conns[k] EXCEPT !.status = "used"]
<1>1. /\ calls[c].pc = "acquire" /\ Become(c, new) /\ kept' = kept
      /\ conns' = [conns EXCEPT ![k] = conn]
    BY DEF Acquire, At
<1>2. /\ StagedCall(calls[c]) /\ calls[c] \in CallType /\ conns[k] \in ConnType /\ k # None
      /\ calls[c].conn = None /\ calls[c].error = None /\ calls[c].answer = None
    BY <1>1, SessionsAssumption DEF IInv, TypeOK, Staged, StagedCall, Holding
<1>3. conns[k].status # "used" /\ \A d \in Calls : calls[d].conn # k
    <2>1. conns[k].status # "used"
        BY DEF Acquire, Takes, With
    <2>2. QED
        BY <1>2, <2>1 DEF IInv, Owned
<1>4. calls[c].request \in Request /\ calls[c].request # None
    BY <1>1, <1>2 DEF StagedCall, CallType
<1>5. \/ FirstStep(c) = "run" /\ Asks(calls[c], "Execute")
      \/ FirstStep(c) = "begin" /\ Asks(calls[c], "ExecuteReadOnly")
      \/ FirstStep(c) = "prepare" /\ Asks(calls[c], "Validate")
    <2>1. Op(c) \in {"Execute", "ExecuteReadOnly", "Validate"}
        BY <1>4 DEF Request, Op
    <2>2. QED
        BY <1>4, <2>1 DEF FirstStep, Asks, Op
<1>6. /\ new \in CallType /\ new.request = calls[c].request /\ new.conn = k
      /\ new.pc = FirstStep(c) /\ new.error = None /\ new.answer = None
    BY <1>2, <1>5 DEF CallType, Places
<1>7. /\ StagedCall(new) /\ ~ RunsReadOnly(new) /\ ~ MayHaveWritten(calls[c]) /\ ~ Succeeded(new)
    BY <1>1, <1>2, <1>4, <1>5, <1>6, SessionsAssumption
       DEF StagedCall, RunsReadOnly, MayHaveWritten, Succeeded, Asks, Holding
<1>8. /\ conn \in ConnType /\ conn.status = "used" /\ conn.tx = conns[k].tx
      /\ conn.pending = conns[k].pending /\ conn.settings = conns[k].settings
      /\ conn.before = conns[k].before
    BY <1>2 DEF ConnType
<1>9. conns'[k] = conn /\ conns' \in [Conns -> ConnType]
    BY <1>1, <1>8 DEF IInv, TypeOK
<1>10. CallStep(c, new, k)
    BY <1>1, <1>2, <1>3, <1>6, <1>9 DEF CallStep, Become, IInv, TypeOK
<1> HIDE DEF new, conn
<1>11. TypeOK' /\ Staged'
    BY <1>1, <1>7, <1>10, TypeStays, StagedStays DEF IInv, TypeOK
<1>12. Owned' /\ ReadOnlyHolds'
    BY <1>6, <1>7, <1>8, <1>9, <1>10, OwnedStays, ReadOnlyStays
<1>13. SettingsPass'
    <2>1. SettingsFit(c, calls[c], k, conns[k])
        BY DEF IInv, SettingsPass
    <2>2. SettingsFit(c, new, k, conns'[k])
        BY <1>1, <1>6, <1>8, <1>9, <2>1 DEF SettingsFit, Asks
    <2>3. QED
        BY <1>8, <1>9, <1>10, <2>2, SettingsStay
<1>14. WritesOnce'
    BY <1>1, <1>7, <1>8, <1>9, <1>10, WritesStay
<1>15. Transactions'
    <2>1. conns'[k].tx # "none" => Began
        BY <1>3, <1>8, <1>9 DEF IInv, Transactions, InReadOnly
    <2>2. QED
        BY <1>10, <2>1, BeganStays, TransactionsStay
<1>16. OkWritten'
    BY <1>1, <1>7, <1>10, OkStays
<1>17. QED
    BY <1>11, <1>12, <1>13, <1>14, <1>15, <1>16 DEF IInv

\* A call that is made has left nothing yet.
LEMMA ReceiveKeeps ==
    ASSUME IInv, NEW c \in Calls, NEW r \in Requests[c], Receive(c, r)
    PROVE  IInv'
<1> DEFINE new == IF r.valid THEN [Unasked EXCEPT !.pc = "acquire", !.request = r]
                  ELSE [Unasked EXCEPT !.pc = "done", !.request = r, !.answer = "validation"]
<1>1. calls[c].pc = "idle" /\ Become(c, new) /\ kept' = kept /\ conns' = conns
    BY DEF Receive, At
<1>2. /\ StagedCall(calls[c]) /\ calls[c].request = None /\ calls[c].conn = None
    BY <1>1 DEF IInv, Staged, StagedCall, Holding
<1>3. r \in Request /\ r # None
    BY SessionsAssumption
<1>4. /\ new \in CallType /\ new.request = r /\ new.conn = None /\ new.error = None
      /\ \/ new.pc = "acquire" /\ new.answer = None
         \/ new.pc = "done" /\ new.answer = "validation"
    BY <1>3 DEF CallType, Places, Unasked
<1>5. /\ StagedCall(new) /\ ~ RunsReadOnly(new) /\ ~ MayHaveWritten(calls[c]) /\ ~ Succeeded(new)
    BY <1>2, <1>3, <1>4, SessionsAssumption
       DEF StagedCall, RunsReadOnly, MayHaveWritten, Succeeded, Asks, Holding
<1>6. CallStep(c, new, None)
    BY <1>1, <1>2, <1>4 DEF CallStep, Become, IInv, TypeOK
<1> HIDE DEF new
<1>7. TypeOK' /\ Staged'
    BY <1>1, <1>5, <1>6, TypeStays, StagedStays DEF IInv, TypeOK
<1>8. Owned' /\ ReadOnlyHolds' /\ SettingsPass'
    BY <1>5, <1>6, OwnedStays, ReadOnlyStays, SettingsStay
<1>9. WritesOnce' /\ Transactions' /\ OkWritten'
    BY <1>1, <1>5, <1>6, WritesStay, TransactionsStay, OkStays
<1>10. QED
    BY <1>7, <1>8, <1>9 DEF IInv

-----------------------------------------------------------------------------
(***************************************************************************)
(* The steps of the pool                                                   *)
(***************************************************************************)
\* Connections that nobody has are opened, or closed with their sessions.
LEMMA PoolStep ==
    ASSUME IInv, UNCHANGED <<calls, kept>>, conns' \in [Conns -> ConnType],
           \A k \in Conns : \/ conns'[k] = conns[k]
                            \/ /\ conns[k].status # "used"
                               /\ conns'[k] \in {[conns[k] EXCEPT !.status = "idle"], Gone}
    PROVE  IInv'
<1>1. \A k \in Conns :
          /\ conns'[k].status = "used" <=> conns[k].status = "used"
          /\ conns[k].status = "used" => conns'[k] = conns[k]
          /\ conns'[k].tx # "none" => conns'[k].tx = conns[k].tx
          /\ conns'[k].pending \subseteq conns[k].pending
          /\ conns'[k].settings \subseteq conns[k].settings
          /\ conns'[k].before \subseteq conns[k].before
    <2>1. TAKE k \in Conns
    <2>2. CASE conns'[k] = conns[k]
        BY <2>2
    <2>3. CASE conns[k].status # "used" /\ conns'[k] = [conns[k] EXCEPT !.status = "idle"]
        BY <2>3 DEF IInv, TypeOK, ConnType
    <2>4. CASE conns[k].status # "used" /\ conns'[k] = Gone
        BY <2>4, GoneType
    <2>5. QED
        BY <2>2, <2>3, <2>4
<1>2. TypeOK' /\ Staged'
    BY DEF IInv, TypeOK, Staged, CallType, StagedCall, Asks
<1>3. Owned'
    BY <1>1 DEF IInv, TypeOK, CallType, Owned
<1>4. ReadOnlyHolds'
    <2>1. \A c \in Calls : RunsReadOnly(calls[c]) => conns'[calls[c].conn] = conns[calls[c].conn]
        BY <1>1, Has DEF RunsReadOnly, Holding
    <2>2. \A c \in Calls : RunsReadOnly(calls[c]) =>
              conns'[calls[c].conn].readOnly /\ conns'[calls[c].conn].tx # "none"
        BY <2>1 DEF IInv, ReadOnlyHolds
    <2>3. QED
        BY <2>2 DEF ReadOnlyHolds, RunsReadOnly, Asks
<1>5. SettingsPass'
    <2>1. \A k \in Conns, c \in Calls : SettingsFit(c, calls[c], k, conns'[k])
        <3>1. TAKE k \in Conns, c \in Calls
        <3>2. SettingsFit(c, calls[c], k, conns[k])
            BY DEF IInv, SettingsPass
        <3>3. calls[c].pc = "rollback" /\ calls[c].conn = k => conns'[k] = conns[k]
            BY <1>1, Has DEF Holding
        <3>4. QED
            BY <1>1, <3>2, <3>3 DEF SettingsFit
    <2>2. QED
        BY <2>1 DEF SettingsPass, SettingsFit, Asks
<1>6. WritesOnce'
    <2>1. /\ \A c \in Calls : kept'[c] = 0 \/ (kept'[c] = 1 /\ MayHaveWritten(calls[c]))
          /\ \A k \in Conns, c \in Calls :
                c \in conns'[k].pending => kept'[c] = 0 /\ MayHaveWritten(calls[c])
          /\ \A k, l \in Conns, c \in Calls :
                c \in conns'[k].pending /\ c \in conns'[l].pending => k = l
        BY <1>1 DEF IInv, WritesOnce
    <2>2. QED
        BY <2>1 DEF WritesOnce, MayHaveWritten, Asks
<1>7. Transactions'
    BY <1>1 DEF IInv, Transactions, Began, Op, Kind, InReadOnly, Asks
<1>8. OkWritten'
    BY DEF IInv, OkWritten, Succeeded, Asks, Began, Op, Kind
<1>9. QED
    BY <1>2, <1>3, <1>4, <1>5, <1>6, <1>7, <1>8 DEF IInv

\* A connection that is closed is none that a call has.
LEMMA ClosedKeeps ==
    ASSUME IInv, UNCHANGED <<calls, kept>>, conns' = IdleClosed
    PROVE  IInv'
<1>1. conns' \in [Conns -> ConnType]
    BY GoneType DEF IdleClosed, IInv, TypeOK
<1>2. \A k \in Conns : conns'[k] = conns[k] \/ (conns[k].status # "used" /\ conns'[k] = Gone)
    BY DEF IdleClosed
<1>3. QED
    BY <1>1, <1>2, PoolStep

\* A connection that the pool opens or takes is none that a call has.
LEMMA TakenKeeps ==
    ASSUME IInv, UNCHANGED <<calls, kept>>, NEW k \in Conns, Takes(k),
           conns' = [conns EXCEPT ![k].status = "idle"]
    PROVE  IInv'
<1>1. conns[k].status # "used"
    BY DEF Takes, With
<1>2. [conns[k] EXCEPT !.status = "idle"] \in ConnType
    BY DEF IInv, TypeOK, ConnType
<1>3. conns' \in [Conns -> ConnType]
    BY <1>2 DEF IInv, TypeOK
<1>4. conns'[k] = [conns[k] EXCEPT !.status = "idle"] /\ \A l \in Conns : l # k => conns'[l] = conns[l]
    BY DEF IInv, TypeOK
<1>5. QED
    BY <1>1, <1>3, <1>4, PoolStep

\* An idle connection ends.
LEMMA DropIdleKeeps ==
    ASSUME IInv, NEW k \in Conns, DropIdle(k)
    PROVE  IInv'
<1>1. conns' \in [Conns -> ConnType] /\ conns'[k] = Gone
      /\ \A l \in Conns : l # k => conns'[l] = conns[l]
    BY GoneType DEF DropIdle, IInv, TypeOK
<1>2. conns[k].status # "used" /\ UNCHANGED <<calls, kept>>
    BY DEF DropIdle
<1>3. QED
    BY <1>1, <1>2, PoolStep

-----------------------------------------------------------------------------
(***************************************************************************)
(* The invariant                                                           *)
(***************************************************************************)
\* At first there are no calls and no connections.
LEMMA InitIInv == Init => IInv
<1> SUFFICES ASSUME Init PROVE IInv
    OBVIOUS
<1>1. /\ \A c \in Calls : calls[c] = Unasked /\ kept[c] = 0
      /\ \A k \in Conns : conns[k] = Gone
    BY DEF Init
<1>2. TypeOK
    BY GoneType DEF Init, TypeOK, CallType, Places, Unasked
<1>3. Staged
    BY <1>1, SessionsAssumption DEF Staged, StagedCall, Unasked, Asks, Holding
<1>4. Owned /\ ReadOnlyHolds
    BY <1>1, GoneType DEF Owned, ReadOnlyHolds, RunsReadOnly, Unasked
<1>5. SettingsPass /\ Transactions
    BY <1>1, GoneType DEF SettingsPass, SettingsFit, Transactions
<1>6. WritesOnce /\ OkWritten
    BY <1>1, GoneType DEF WritesOnce, OkWritten, Succeeded, Asks, Unasked
<1>7. QED
    BY <1>2, <1>3, <1>4, <1>5, <1>6 DEF IInv

\* One case for each action.
LEMMA NextKeeps == IInv /\ [Next]_vars => IInv'
<1> SUFFICES ASSUME IInv, [Next]_vars PROVE IInv'
    OBVIOUS
<1>1. ASSUME NEW c \in Calls, Step(c)
      PROVE  IInv'
    <2>1. CASE \E k \in Conns : Acquire(c, k)
        BY <2>1, AcquireKeeps
    <2>2. CASE FailAcquire(c) \/ Prepare(c) \/ FetchRow(c) \/ Truncate(c) \/ FailScan(c)
        BY <2>2, FailAcquireKeeps, PrepareKeeps, FetchRowKeeps, TruncateKeeps, FailScanKeeps
    <2>3. CASE BeginReadOnly(c) \/ RefusePrepare(c) \/ Refuse(c) \/ RollBack(c)
        BY <2>3, BeginReadOnlyKeeps, RefusePrepareKeeps, RefuseKeeps, RollBackKeeps
    <2>4. CASE Complete(c) \/ Lose(c) \/ Return(c)
        BY <2>4, CompleteKeeps, LoseKeeps, ReturnKeeps
    <2>5. QED
        BY <1>1, <2>1, <2>2, <2>3, <2>4 DEF Step
<1>2. ASSUME NEW k \in Conns, Ping(k) \/ ReadVersion(k)
      PROVE  IInv'
    BY <1>2, TakenKeeps DEF Ping, ReadVersion
<1>3. CASE OpenPool \/ UNCHANGED vars
    <2>1. UNCHANGED <<calls, kept, conns>>
        BY <1>3 DEF OpenPool, vars
    <2>2. QED
        BY <2>1, PoolStep DEF IInv, TypeOK
<1>4. CASE FailOpen \/ Close
    BY <1>4, ClosedKeeps DEF FailOpen, Close, AfterFailedOpen
<1>5. QED
    BY <1>1, <1>2, <1>3, <1>4, DropIdleKeeps, ReceiveKeeps DEF Next, OpenStep

\* The inductive invariant holds in every state.
THEOREM Invariance == Spec => []IInv
<1>1. QED
    BY InitIInv, NextKeeps, PTL DEF Spec

\* Whatever way a call ends, and however many run at once on however many
\* connections, a connection in use has exactly one call under way that uses it
\* (the deferred conn.Close of Execute, ExecuteReadOnly and Validate).
THEOREM ConnectionsReturned == Spec => []ConnectionsAreReturned
<1>1. IInv => ConnectionsAreReturned
    <2> SUFFICES ASSUME IInv, NEW k \in Conns
                 PROVE  LET users == {c \in Calls : calls[c].conn = k} IN
                        /\ Cardinality(users) <= 1
                        /\ \A c \in users : calls[c].pc \in Holding
                        /\ conns[k].status = "used" => users # {}
        BY DEF ConnectionsAreReturned
    <2> DEFINE users == {c \in Calls : calls[c].conn = k}
    <2>2. k # None
        BY SessionsAssumption
    <2>3. \A c, d \in users : c = d
        BY <2>2 DEF IInv, Owned
    <2>4. Cardinality(users) <= 1
        <3>1. CASE users = {}
            BY <3>1, FS_EmptySet
        <3>2. CASE users # {}
            <4>1. PICK c \in users : TRUE
                BY <3>2
            <4>2. users = {c}
                BY <2>3, <4>1
            <4>3. Cardinality({c}) = 1
                BY FS_Singleton
            <4>4. QED
                BY <4>2, <4>3
        <3>3. QED
            BY <3>1, <3>2
    <2>5. \A c \in users : calls[c].pc \in Holding
        BY <2>2 DEF IInv, Staged, StagedCall
    <2>6. conns[k].status = "used" => users # {}
        BY DEF IInv, Owned
    <2>7. QED
        BY <2>4, <2>5, <2>6
<1>2. QED
    BY <1>1, Invariance, PTL

\* A statement that is only looked at or run read-only leaves no write, and no
\* setting or transaction for the next call that gets its connection
\* (ExecuteReadOnly's rollback, Validate's Prepare).
THEOREM LooksTraceless == Spec => []LooksLeaveNoTrace
<1>1. IInv => LooksLeaveNoTrace
    <2> SUFFICES ASSUME IInv PROVE LooksLeaveNoTrace
        OBVIOUS
    <2>1. ASSUME NEW c \in Calls, calls[c].request # None, Op(c) # "Execute"
          PROVE  /\ kept[c] = 0
                 /\ calls[c].pc = "done" =>
                       \A k \in Conns : c \notin conns[k].settings \cup conns[k].pending
        <3>1. ~ Asks(calls[c], "Execute")
            BY <2>1 DEF Asks, Op
        <3>2. kept[c] = 0 /\ \A k \in Conns : c \notin conns[k].pending
            BY <3>1 DEF IInv, WritesOnce, MayHaveWritten
        <3>3. \A k \in Conns : c \in conns[k].settings => calls[c].pc = "rollback"
            BY <3>1 DEF IInv, SettingsPass, SettingsFit
        <3>4. QED
            BY <3>2, <3>3
    <2>2. ASSUME ~ Began, NEW k \in Conns, conns[k].status = "idle"
          PROVE  conns[k].tx = "none"
        <3>1. \A c \in Calls : calls[c].conn # k
            BY <2>2, SessionsAssumption DEF IInv, Owned
        <3>2. QED
            BY <2>2, <3>1 DEF IInv, Transactions, InReadOnly
    <2>3. QED
        BY <2>1, <2>2 DEF LooksLeaveNoTrace
<1>2. QED
    BY <1>1, Invariance, PTL

\* No write is made twice, none for a call that was turned away or refused, and
\* an ok for a write means that it is permanent (Execute, collectRows).
THEOREM OkKept == Spec => []OkIsKept
<1>1. IInv => OkIsKept
    <2> SUFFICES ASSUME IInv, NEW c \in Calls
                 PROVE  /\ kept[c] <= 1
                        /\ calls[c].answer \in {"validation", "connection"} => kept[c] = 0
                        /\ calls[c].answer = "failed" /\ ~ calls[c].request.rows => kept[c] = 0
                        /\ calls[c].answer = "ok" /\ Op(c) = "Execute" /\ Kind(c) = "write" /\ ~ Began
                              => kept[c] = 1
        BY DEF OkIsKept
    <2>1. kept[c] = 0 \/ (kept[c] = 1 /\ MayHaveWritten(calls[c]))
        BY DEF IInv, WritesOnce
    <2>2. calls[c].answer # None => calls[c].pc = "done"
        BY DEF IInv, Staged, StagedCall
    <2>3. calls[c].answer = "ok" => calls[c].request # None
        BY <2>2, SessionsAssumption DEF IInv, Staged, StagedCall
    <2>4. calls[c].answer = "ok" /\ Op(c) = "Execute" /\ Kind(c) = "write" => Succeeded(calls[c])
        BY <2>3 DEF Succeeded, Asks, Op, Kind
    <2>5. QED
        BY <2>1, <2>4 DEF IInv, OkWritten, MayHaveWritten
<1>2. QED
    BY <1>1, Invariance, PTL
=============================================================================
