# Verification of the PostgreSQL driver for Perk Workbench

The repository is a driver plugin: a process that answers a database workbench's
requests (list, browse, run, change schema, write rows) by sending SQL to one
PostgreSQL database. All of its logic is in `src/postgres` (about 1,800 lines of
Go). This directory has TLA+ modules that model that logic, TLC configurations
that check them on small instances, and proofs, checked by TLAPS, of the results
that hold for every instance.

## 1. Inventory

The driver keeps almost no state of its own: a pool of connections (`*sql.DB`)
and, inside each call, local variables. The state that matters is the database's,
which several calls read and change at a time, and other clients too. The plugin
SDK's server, an external library started by `cmd/perk-postgres/main.go`, reads
requests from standard input, runs them concurrently and cancels a call's context
when it is told to. So the hard parts are interleaving, cancellation, replies that
never arrive, information that is out of date when it is used, and the assembly of
statements and results from parts.

| Component | Source | State | Operations | What makes it correct |
|---|---|---|---|---|
| Schema changes: columns | `service.go:430-565`, `contracts.go:361-409, 468-473` | a call's plan and transaction | AlterColumn, AddColumn, DropColumn | an error leaves no trace; an alteration stays in the diff it was planned from, however old that is |
| Schema changes: indexes | `index.go:95-155`, `contracts.go:411-433` | as above | CreateIndex, ReplaceIndex, DropIndex | a replacement is atomic; a drop hits what it names |
| Schema changes: foreign keys | `foreign_key.go:160-200`, `contracts.go:435-466` | as above | CreateForeignKey, ReplaceForeignKey, DropForeignKey | the same; deadlocks are settled and every call is answered |
| Listings | `index.go:11-93`, `foreign_key.go:11-158` | rows to scan, the entry under way | ListIndexes, ListIndexesAll, ListForeignKeys, ListReferencingForeignKeys, ListForeignKeysAll | no entry lost, split or merged; columns paired rightly |
| Row writes | `row_write.go` | lists gone through, placeholders, arguments | InsertRow, UpdateRow, DeleteRow | values and keys reach their own columns, NULL and DEFAULT included; honest answers |
| Dispatch | `session.go`, `factory.go` | the open service | delegation, RowWrite's switch | each request reaches its method |
| Column information | `service.go:374-429` | none | TableInfo | what AlterColumn goes by |
| Browsing, result collection | `service.go:302-372`, `contracts.go:106-171` | rows collected | BrowseTable, collectRows, closeRows | pages fit together; the caps are reported |
| Free statements | `service.go:161-243` | a pooled connection | Execute, ExecuteReadOnly, Validate | a read-only statement changes nothing; the connection goes back |
| Statement screening | `contracts.go:173-359`, `service.go:268-300` | the scan's | validateStatement, ReturnsRows | one statement is told from two |
| Display, patterns, defaults | `contracts.go:34-104, 475-492`, `service.go:528-565` | the scan's | sanitizeDisplay, globToLike, postgresDefault | no control characters; bounded length; a pattern or default means in SQL what its text means |
| Schema tree | `service.go:50-159` | grouping under way | ListSchema | databases, schemas and tables each once, each under its own; all of the time of the call |
| Opening, closing | `service.go:20-46`, `factory.go`, `target.go` | the pool | Open, Close, BuildTarget | no pool left behind by a failed Open, nor by a Close with calls under way |
| Plugin process | `cmd/perk-postgres/main.go` | none | main | external server |
| Packaging, fixtures | `scripts/`, `testdata/`, workflows | none | | |

How they interact: the server calls the methods of `sessionService`, which pass
the request on to `Service`; AlterColumn calls TableInfo before it begins its
transaction; each method takes a connection from the pool for one statement or
for one transaction. Calls never talk to each other: they meet in the database.
`PROJECT.json` lists the hazards of the code, each at its line.

## 2. The modules

`Texts` — the strings of the program as members of a small set, with the tests and
conversions the driver makes of them (TrimSpace, EqualFold, the display form, which
texts look like numbers or types) as sets and functions that an instance gives. A
table's name is written as the parts its first dot separates
(`postgresTableParts`). `DisplayAssumption` is all that is used of `sanitizeDisplay`.

`PgCatalog` — external: the part of PostgreSQL's catalog that the driver reads and
changes (columns, indexes, primary and foreign keys), what the driver's DDL
statements need to be legal and what they do, and the locks they take, in order. A key
is added without a name; PostgreSQL picks one when it runs the statement (`KeyName`,
`Named`), and a statement that has run (`Executed`) has it.

`SchemaRequests` — what the driver computes about a schema-changing request without
the database: the validators, AlterColumn's comparison with what TableInfo said, the
statements a request turns into (`PlanOf`, `AlterStatements`), and whether they go in
a transaction.

`SchemaChange` — the schema-changing methods at work. `call[c]` is a goroutine: `pc`
says where in the method it is, `plan` what it is to send, `info` what AlterColumn
read. `session[c]` is its connection with PostgreSQL's session behind it: what is on
the wire, the log of the statements its transaction has run, its locks. Actions:

| Code | Actions |
|---|---|
| validation and its early return | `Reject`, `Accept` |
| AlterColumn's TableInfo, the no-op return, attributes that differ, errors | `PlanAlteration`, `NothingToAlter`, `RejectAlteration`, `TableInfoFails` |
| `db.BeginTx` | `BeginTx`, `BeginFails` |
| `tx.ExecContext` / `db.ExecContext`, `tx.Commit` | `Send`, `SendCommit`, `SendFails` |
| the reply, or the end of the context while it is awaited | `ReceiveOk`, `ReceiveRefusal`, `ReceiveCommitted`, `Abandon` |
| `defer tx.Rollback()` | `Rollback`, part of every action by which a method returns early |
| PostgreSQL (external) | `TakeLock`, `RunInTx`, `RunAutocommit`, `RunCommit`, `Refuse`, `Reap`, `Vanish` |

A call abandoned while a statement or COMMIT is under way leaves its session an
"orphan": what was sent may still be carried out, or never arrive. A commit whose
context is over before COMMIT goes out returns an error without sending it;
`SendFails` gives that the answer "lost" too, because the caller cannot tell the
two apart. The answers keep the classes an error has in the code ("validation",
"connection", others "failed"), plus "lost" for an error of the step that makes the
change permanent. `database/sql` repeats a statement on another connection only
when the first attempt did not reach the server, so there is one effective attempt.

A transaction's uncommitted statements are kept as a log, each as it was run
(`Ran`), a key with the name it got: the transaction sees the committed catalog with
its log replayed (`View`), and COMMIT replays the log for good. That is right only as
long as nobody changes what the log rests on, which is what `ReplayStaysLegal` says and
its proof shows.

`AtomicChange` — the abstract specification: a request becomes a plan (for
AlterColumn one that depends on the catalog at some moment after the request), the
plan takes effect whole, at most once, with one of the outcomes it can have
(`Outcomes`, as PostgreSQL names the keys); "ok" says it has, other errors say it never
will, "lost" leaves it open. No transactions, locks or messages.
`ImplementsAtomicChange` is the refinement.

`Listing` — the five listings. A query's answer is a set of rows with an order;
scanning takes one row at a time in any order ORDER BY allows (`Before`), and builds
the entries with the one row of memory the code has. A listing can fail at any row
(`Fail`). The whole answer comes from one snapshot, as one query's does. Columns that
are expressions are `Nil`; INCLUDE columns, which `pg_index.indkey` also holds, are
left out.

`RowWrite` — the three row writes. Every row of a request's lists is a step:
`SkipDefault`, `BindColumn`, `SetColumn`, `RejectValue`, `BindKey`, `RejectKey`;
`EndOfValues` and `EndOfKey` the returns between the loops; `Send`, `ReceiveAnswer`,
`GiveUp` the statement. `Run` is PostgreSQL binding the arguments to the placeholders
by number and carrying the statement out. Typed values are abstracted to strings and
one value of an unusable kind; RowsAffected is passed through and not modelled.

`Patterns` — globToLike, PostgreSQL's LIKE (external), and what a pattern of the
caller's means (`Glob`), which is the reference for the two.

`Browse` — BrowseTable with collectRows, and the caller who turns the pages. Each
filter is a step (`BindValue`, `BindPattern`, `TestNull`, `RejectFilter`) that adds a
term, and an argument for those with a placeholder; `Send` adds LIMIT and OFFSET as the
last two arguments; `Query` is PostgreSQL looking arguments up by number, filtering,
sorting (rows that ORDER BY does not tell apart come in any order) and cutting out
LIMIT and OFFSET; `CollectRow`, `Finish` and `Fail` are collectRows and the page made
of its result. `Write` replaces the table at any time; one query sees one table.
`TurnPage` asks for the page after one that has more, and `walk` is the history of what
has been got.

`Display` — sanitizeDisplay, one action for each branch of its loop; ansiSequenceLen is
`AnsiSequenceEnd`. A byte stands for its kind, and there are whole and broken two-byte
characters. The reference cuts the text into its parts (`Remainder`, `Folded`).

`StatementScanner` — validateStatement, one action for each branch of its loop, with
consumeToken's steps towards CREATE TRIGGER (`Follow`), and ReturnsRows as an operator
(`KeywordAt` is its loop, `EndsKeyword` where it takes the word to end). The reference cuts
a statement into comments, quotations and symbols (`Pieces`) and counts its semicolons and
words. White space is what unicode.IsSpace takes for it, in four kinds, because the two
scanners do not treat it alike: a newline, a carriage return ("cr"), a blank or tab, and
any other ("ff": form feed, no-break space and so on). Both line ends end a line comment for
validateStatement (`contracts.go:246`), only the newline does for ReturnsRows
(`service.go:273`), and the fourth kind does not end ReturnsRows' keyword
(`service.go:289`). A word without a meaning for either, which FETCH, CALL and EXECUTE are
too, is "x".

`Defaults` — postgresDefault, with a step for each turn of numericDefault's loop, and
what PostgreSQL reads the result as.

`Sessions` — Open, Execute, ExecuteReadOnly, Validate and Close on the pool that
database/sql keeps. `conns[k]` is a connection with the session behind it: its
transaction, the writes that it holds, the settings in force and those a rollback
brings back. `calls[c]` is a call: `Receive` is the validation, `Acquire` and
`FailAcquire` the pool's answer, an error of the class that the method gives it
(`NotBegun`: "validation" for Validate, `service.go:240`, "connection" for the others),
`FetchRow`, `Truncate` and `FailScan` collectRows,
`Complete` and `Refuse` the end of the statement (for one with rows what rows.Err or
rows.Close tells), `RollBack` and `Return` the deferred functions. `Lose` breaks a
connection under a call, also after its statement was carried out, with the class the
error has at that place (`LostAs`); `DropIdle` ends one
in the pool, at any time: whether database/sql uses a connection whose session is
still in a transaction again or discards it is left open.

`SchemaTree` — ListSchema. `AskCurrent`, `AskChildren` and `AskDatabases` are the three
queries, `ScanChild` and `ScanDatabase` the turns of the two loops, `Change` what other
sessions create and drop in between.

`MCSchemaChange`, `MCListing`, `MCRowWrite`, `MCBrowse`, `MCScanners`, `MCSessions`,
`MCSchemaTree` — the instances for TLC. MCScanners puts Display, StatementScanner and
Defaults side by side; they share no state.
`SchemaChange_proofs`, `Listing_proofs`, `RowWrite_proofs`, `Sessions_proofs`,
`Browse_proofs`, `SchemaTree_proofs`, `Scanners_proofs` (of Display, StatementScanner and
Defaults) — the proofs; `Recursion` has the induction they share.

Operators marked "Mutant:" are what a plausible bug would make of the definition
that follows them; `PROJECT.json` pairs each property with one that breaks it. They
are not part of the model.

## 3. The runs

All runs set `CHECK_DEADLOCK FALSE`: each call is made once, so a behaviour ends when
every call is answered (or, in `Scanners`, every text read). That calls do not hang is
`EveryCallAnswered`, `CloseEndsAll` and `ScannersEnd`.

| Run | What it asks | Bounds | Distinct states |
|---|---|---|---|
| `SchemaCalls` | errors leave no trace; at most one commit, no connection kept; alterations stay in their diff and, when nobody interferes, are exact; replacements are atomic, drops hit their name; AtomicChange is implemented | 2 calls, 22 requests, 2 tables in 2 schemas | 130,000 |
| `SchemaForeignKeys` | the log stays legal; under fairness every call is answered and every lock released | 2 calls, 9 requests | 20,000 |
| `SchemaRace` | three calls at one column | 3 calls (symmetric), 4 requests | 72,000 |
| `Listing` | listings are exact | 256 sets of indexes, 163 sets of at most 4 foreign keys, 11 listings | 33,000 |
| `RowWrite` | writes are exact, answers honest, placeholders fit | 2 calls (symmetric), 3 columns, at most 3 rows | 16,000 |
| `Browse` | filters mean what they say, pages are exact, "more" is told, a walk over a table at rest is complete | 2 tables of 3 and 5 rows, 11 lists of filters, 4 of sorts, limits 0 to 4 of which collectRows takes 3 | 19,000 |
| `Scanners` | the three scanners against their references, and that they end | every text of 3 bytes, statement of 3 symbols and default of 4 characters; 1,728 longer texts of escape sequences, 17,576 statements of phrases and 729 that may create triggers; limits 0, 1, 3 | 310,000 |
| `Sessions` | no connection leaks, looking leaves no trace, an ok is kept; after Close or a failed Open every connection is closed | 3 calls, 2 connections, rows up to 1 | 390,000 |
| `SchemaTree` | the tree is of the call's time and in order | 4 catalogs in any sequence | 2,200 |
| `ListingEveryIndex`, `ListingEveryForeignKey` | two doc comments: see Findings | as `Listing` | |
| `ScannersTriggers` | an error message's promise: see Findings | the statements of `Scanners` | |

Why the bounds suffice. Two concurrent calls meet in every pair of places; a deadlock
needs two. In `SchemaCalls` every kind of change meets every other on one table with an
index, a primary key and a foreign key; the dearer liveness is asked in `SchemaForeignKeys`,
whose calls are those that lock two tables. The one property that relates a read to a commit with something in between
gets a third call (`SchemaRace`), so that the information can be two commits out of
date and a name be given up and taken again. Requests are chosen for the cases the
code tells apart: everything changed at once, nothing changed, one thing changed,
namesakes in display, attributes, rejected ones; primary keys by suffix and by
statement, replaced by an index and the reverse, the same index name in two schemas; keys in
both directions between two tables, and a replacement that needs an index another
call drops. `MaxLog` = 4 is not a bound on the code: an alteration has at most four
statements, which `PlanFits`, a part of `IInv`, says and `TypeCorrectness` states
(`PlansAreShort`); `TypeOK` alone does not bound them. `RowIds` bounds the rows of the
table; an INSERT into a full table waits. The calls are interchangeable and the
symmetric runs check no liveness, so the symmetry is sound.

In `Browse`, collectRows takes three rows where the code takes 500 (`maxRows`): pages
below, at and beyond that limit occur, and the larger table fills more than one of
each. The filters use every operator, wildcards of both kinds and the escape
character in patterns and in cells; NULLs, ties under the sorts, unknown columns and
operators and every refused range occur. In `Sessions`, one call writes, sets or begins;
one writes and returns more rows than are taken, by Execute or read-only; the third only
looks, ends a transaction, or is turned away: so a call has to wait for one of the two
connections, finds on it what another has left, and Close meets two calls under way.
`Scanners` reads every short text over an
alphabet with one member for each case of the code, which covers every way two signs
meet; the texts made of phrases are long enough for whole comments, quotations, escape
sequences and CREATE OR REPLACE TEMP TRIGGER. `SchemaTree` has schemas without tables,
hidden ones and some displayed as nothing or alike, foreign tables, and a catalog that changes between any
two of the three queries.

Fairness (`FairSpec`): a method that can go on does (`Handler`, the Go scheduler);
PostgreSQL grants a lock that stays free, carries out a statement that can run,
refuses one it must (illegal, or a deadlock's victim) and ends sessions whose client
is gone. Nothing is assumed of callers, who need not submit or cancel, and nothing of
failures, which need not happen. Without deadlock detection, which the code relies on,
`EveryCallAnswered` fails. In `Sessions`, an Open or a call that can go on does, and
what a call awaits comes or is given up: a context that ends makes database/sql return
(`FailAcquire`, `Lose`). The scanners are each one goroutine's loop, which runs on.

What the main properties say:

* `ErrorLeavesNoTrace` — after an error that is not "lost", nothing of the call is
  ever committed, not even later by an orphaned session.
* `OkAppliedOnce` — no call commits twice; "ok" means it has, or had nothing to do.
* `AlterStaysInItsDiff` — however stale TableInfo's answer was, the commit changes
  only the column that has the name then, and of it only what the request differed in.
* `FreshAlterationIsExact` — without interference, and without a namesake in display,
  the column ends up as asked in every respect.
* `ReplacementIsAtomic`, `DropHitsItsName`, `AnsweredHoldsNothing`, `LocksReleased`.
  `DropHitsItsName` is stated for the schema, not the table: `DROP INDEX
  schema.name` does remove another table's index of that name when asked to drop it
  from this one (`index.go:154`); only `_pkey` names are tied to the table.
* `IndexListingIsExact`, `ForeignKeyListingIsExact` — the listing equals one defined
  directly on the catalog. ListIndexes, ListForeignKeys and ListReferencingForeignKeys
  promise it only for names without control characters, because they compare a
  displayed name with a raw one (`index.go:33`, `foreign_key.go:41, 87`); the foreign
  key listings only where a constraint's schema and name identify it (`NamesIdentify`),
  because the queries join on those, and PostgreSQL keeps constraint names apart only
  within a table. The two listings of the whole database tell tables apart by schema and
  name joined with a dot (`index.go:77`, `foreign_key.go:141`), which `a."b.c"` and
  `"a.b".c` share: they promise it where no two such tables have an index or key of
  one name (`ApartWhenJoined`); ListReferencingForeignKeys, which compares displayed
  tables (`foreign_key.go:86`), where no two tables displayed alike have
  (`ApartWhenDisplayed`). Each of the four conditions is needed: without it TLC finds a
  listing that splits or merges entries.
* `StatementsFit`, `InsertIsExact`, `UpdateIsExact`, `DeleteIsExact`,
  `WriteAnswersAreHonest`.
* `ConnectionsAreReturned`, `CloseEndsAll` — no path keeps a connection; those in use
  at Close are closed as they come back.
* `LooksLeaveNoTrace` — Validate and ExecuteReadOnly leave no write, setting or
  transaction, even if the statement itself is a SET, BEGIN, COMMIT or ROLLBACK. Execute leaves what it is told to: a setting or
  an open transaction stays on the connection, and the next call may find it. The
  property says so by its exception (`Began`).
* `OkIsKept` — an ok for a write is a permanent one, also when its RETURNING rows are
  more than collectRows takes and the refusal, if any, comes from rows.Close.
* `PageIsExact`, `MoreIsTold`, `FiltersKeepTheirMeaning` — as named. With a limit of
  `maxRows` the row in excess is not collected, so `HasMore` stays false and only
  `Truncated` tells (`service.go:366`, `contracts.go:146`).
* `WalkIsComplete` — turning pages finds every row once, if the table is at rest, the
  sorts leave no ties, and the limit is below `maxRows`; without any of the three it
  need not.
* `DisplayIsExact`, `DisplayKeepsItsPromise` — a text as long as the limit or longer
  gets the mark, also one of exactly that length. The second property is what
  `DisplayAssumption` of `Texts` rests on.
* `OneStatementPasses`, `TriggersAreRefused`, `RowsAreFetched` — relative to what
  `Pieces` takes for a quotation.
  `TriggersAreRefused` says which statements that create a trigger are refused, and that
  nothing else is refused as one. Those that pass are named in it (`Overlooked`): CREATE
  [OR REPLACE] CONSTRAINT TRIGGER, and a trigger behind another CREATE, as in CREATE SCHEMA s
  CREATE TRIGGER ..., because consumeToken's search is over with the first CREATE. The words
  count wherever they stand and whatever signs are in between, so "SELECT 1 AS create,
  trigger" is refused as a trigger.
  `RowsAreFetched` leaves out, as its condition `plain`, the texts that ReturnsRows
  misjudges: "SELECT;" and "SELECT*" (the word must end with a blank, tab, line end or
  parenthesis), "SELECT\f1" (a form feed, or another white space character, does not end
  it), a parenthesis after a space, a line comment before the word that ends at a carriage
  return alone ("-- x\rSELECT 1" is one statement to validateStatement and all comment to
  ReturnsRows), and RETURNING inside a quotation or a longer word. Such a statement is run
  without fetching its rows, or its rows are asked for where there are none.
* `DefaultsKeepTheirMeaning` — a default becomes a literal of its text, a keyword or a
  number; "1.2.3", "-" or "." go unquoted and are refused by PostgreSQL.
* `TreeIsOfItsTime`, `TreeIsInOrder` — the tree of three queries without a transaction
  shows nothing that was never there during the call, and misses nothing that was there
  throughout. Schemas that are displayed alike merge when they come one after another,
  and the tables of the connected database go with its root: if that is not listed, nor
  are they.

### Findings

* `ListingEveryIndex`: ListIndexesAll "returns every index in the connected database"
  (`index.go:47`), but the query joins `pg_attribute` on the key's attribute number
  (`index.go:57`), and an expression has none: an index on expressions only is not
  listed.
* `ListingEveryForeignKey`: ListForeignKeysAll "returns every foreign key in the
  connected database" (`foreign_key.go:102`), but the query finds the referenced
  columns by the unique constraint's name (`foreign_key.go:119`), which is NULL for a
  key that rests on a unique index that is no constraint: that key is not listed.

* `ScannersTriggers`: validateStatement answers a CREATE TRIGGER that "trigger statements
  are not supported" (`contracts.go:201`), but behind CREATE it takes any word it does not
  know for the end of its search (`contracts.go:208`): CREATE CONSTRAINT TRIGGER passes and
  is run.

## 4. The proofs

Every statement below is proved for all values of the constants: any number of calls,
any requests, any catalog, from the assumptions the modules name
(`TextsAssumption`, `DisplayAssumption`, `TypesAssumption`, `CatalogAssumption`, the
`OrderAssumption`, `ListsAssumption` and `CatalogsAssumption` of Listing,
`CallsAssumption`, `InitialAssumption`, `AnswersAssumption`; `RowWriteAssumption`;
`SessionsAssumption`; `BrowseAssumption`; Display's own `DisplayAssumption`,
`ScannerAssumption` and `DefaultsAssumption`, which only say that texts are sequences over
the module's alphabet; `SchemaTreeAssumption`). TLC evaluates them on every instance. Those about a catalog are
what PostgreSQL's own unique indexes enforce: `InitialAssumption` has the first catalog
well-formed (`WellNamed`: no two indexes of a schema and no two keys of a table with one
name; `WellTyped`), `CatalogsAssumption` has a table's indexes told apart by name and the
constraint that a foreign key rests on among the catalog's, `SchemaTreeAssumption` has its tables told apart by
schema and name. `TypesAssumption` says that texts that EqualFold takes for one are one
type to PostgreSQL.

**Schema changes** (`SchemaChange_proofs`). Lemmas: every
legal effect of a statement keeps the catalog well-formed (`Replayed` four times), and
every plan is a sequence of at most four statements. The safety properties are not
inductive: nothing in "an error leaves no trace" says that a session abandoned at
COMMIT belongs to a call that answered "lost". `IInv` adds, per call, what each place
in the method has to do with its session (`NothingYet`, `PlanFits`, `SessionFits`) and
the state of the session with history and answer (`AnswerFits`). One lemma per action;
`Invariance` puts them together, and from it follow `TypeCorrectness`,
`ErrorsLeaveNoTrace`, `OkMeansAppliedOnce` and `NoConnectionLeaks`. `Refinement`
(`Spec => ImplementsAtomicChange`) maps every action to a step of AtomicChange or a
stutter; the two commits map to `TakeEffect`, and `IInv` gives that the log at COMMIT
is the whole plan.

**What locks protect** (`SchemaChange_proofs`). A transaction's statements were legal in its view when they ran;
by the time it commits, others may have committed. A lock shows a part of the catalog
(`Within`: any lock a table's column names, an exclusive one its indexes, the keys from
and to it, and whose index has that name), and two catalogs can look alike under a set
of locks (`Same`). `Undisturbed` says that a statement leaves alone what locks show that
none of its own conflicts with; `StepAlike` that on two catalogs that look alike under
the locks it needs, a statement is legal on both or on neither, needs the same locks
and leaves the two alike. `ReplayApart` and `ReplayAlike` are the same for the logs of
whole transactions. `ReplayStaysLegal` alone is not inductive: it does not say which locks are held. `ReplayInv`
adds that a session's locks cover every statement of its log where it stands
(`LogCovered`), that no two sessions' locks conflict (`LocksApart`), and what a plan looks
like (`PlanShape`, which bounds the log). TLC checked `ReplayInv` and `CatalogInv` as
invariants of the instances of the Schema runs.

The attempt found a fault of an earlier form of this model, in which COMMIT picked the
names of new keys a second time: with three calls the name could be another then, and
`ReplayStaysLegal` was false, which two calls do not show. PostgreSQL picks a name once,
when the statement runs, and the log now keeps it.

**What commits do** (`SchemaChange_proofs`). Only two actions commit
(`WhoCommits`, `CommitOf`), and what they commit is a replay of a request's plan:
by `CatalogStaysWellFormed` a name means one index of a schema and one key of a
table, so `DropsHitTheirNames` and `ReplacementsAreAtomic` follow from the plan's one or
two statements, and `AlterationsStayInTheirDiff` from what each of at most four
statements does to the column (`AlterOutcome`, `Amended`), whose name alone ties it to
what TableInfo said. `FreshAlterationsAreExact` adds that nobody came in between, so the
diff was against the column that is altered.

**Listings** (`Listing_proofs`). The reference puts the entries in the order of the number of
others that come before each; a thing that all others come before is last in it, so
an entry appended is in its place (`ListedGrows`, `TabledGrows`). `IndexQueryIs` and
`KeyQueryIs` say that the rows of a query are those of the things the listing is of, one
for each column shown; for foreign keys this is where `NamesIdentify` and the positions of the
columns in the referenced constraint are used (`JoinedAre`). `ListingInv` then says that
there is a thing under way and a column up to which it has been scanned (`UnderWay`): the
rows to come are its later ones and those of the things behind it, the entries made are those
of the things before it and its own part. Finding the properties' conditions was part
of the proof: the step in which a row of another table meets the entry under way needs
that the two are told apart, which led to `ApartWhenJoined` and `ApartWhenDisplayed`, and to
tables in the run's databases that violate them. TLC checked `ListingInv` on that instance.

**Row writes** (`RowWrite_proofs`). `IInv` says of a statement under construction what
has been gone through of each list: `InsertScanned` (every argument is a row of the
request in its own column, every row that is not DEFAULT has one), `SetsScanned` (the
k-th term has placeholder k and the k-th value), `KeyScanned` (a NULL has no
placeholder, any other row one after those of SET, with its value there). Then
`AssignedValues`, `KeyTerms`, `WrittenIsOnTop` and `HitIsMeant` say what PostgreSQL
makes of a complete statement, and the theorems follow: `PlaceholdersFit`,
`HonestAnswers`, `InsertsAreExact`, `UpdatesAreExact`, `DeletesAreExact`.

**Sessions** (`Sessions_proofs`). None of the three properties is inductive: that an ok
for a write is permanent rests on who may have begun the transaction it ran in. `IInv`
has a part for each thing that calls and connections have to do with each other:
`Staged` (what is true at each place of a method), `Owned` (connections and their
calls), `ReadOnlyHolds` (a read-only statement runs in a read-only transaction, which is
why it cannot write), `SettingsPass` (whose settings may be in force), `WritesOnce`
(a write is pending on one connection, or permanent once, never both), `Transactions`
(a transaction is some Execute's, or the read-only call's own) and `OkWritten`. A step of
a call changes that call and one connection nobody else has (`CallStep`); for each part
of `IInv` a lemma says what of the call and connection the part depends on, and each
action is then an instance (`QuietStep`, `HeldStep`, `PoolStep`). `KeepOnce` is the heart:
what a statement makes permanent was pending here and nowhere else.

**Browsing** (`Browse_proofs`). `Knows` and `Collected` say what holds on the way: LIMIT
and OFFSET are the last two arguments however many filters bind one, and the rows
collected are the first of those served. `CountTells` is the arithmetic of the row in
excess against the cap.

`GlobsBecomeLikes` is the fact behind the filters: for every pattern and every text,
LIKE matches with `globToLike(pattern)` exactly if the pattern, read as a glob, means
the text. Both sides are recursive. `Recursion` proves, from the well-foundedness of the
numbers, induction for a set of numbers (`SetInduction`) and that a recursion over a
rank defines a function (`RecursiveFunction`); both speak of sets and functions only, so
the provers can use them. `LikeParts` and `LikeBegins` unfold the two recursions,
`BeginsPiece` is the step for one character of the pattern. Then `Understood` says that
each filter gone through has a term that encodes it and an argument where the term's
place says, and `FiltersMean` follows. For `WalksComplete`, `Progress` says that what a
walk has got is the slice of the one order from its first offset up to the page to
come; slices join (`SlicesJoin`).

**Display** (`Scanners_proofs`). For `DisplayPromiseKept`, `OutIsPlain` and `PlainSoFar`: what
is written so far is visible and below the limit, and of a short plain text it is the
part up to the index. For `DisplaysExactly` the reference is a recursion along the text
(`Remainder`, what stays of it without escape sequences and control characters) and
another along that (`Folded`). `RestsRemain` and `RestCases` unfold the first,
`FoldedNext` the second, with the facts of `Recursion` about texts joined out of parts;
`SequenceEndFound` says that the loop that looks for a sequence's end finds the one of the
definition. Then `ExactSoFar`: the remainder is what has been read and the remainder of the
text behind the index, and the output is the fold of what has been read.

**Statements** (`Scanners_proofs`). `OneStatement` speaks of the places where the text outside
of comments and quotations has a piece (`Pieces`, a recursion along the text). `ScanInv`
says that these are the places read and those still to come, be the scan outside or
inside of something (`Coming`), and what the two flags say of those read (`Judged`).
A turn inside moves neither (`InsideKeeps`, by `EndStays`), one outside reads one piece or
a separator (`OutsideKeeps`), and the answers follow (`AnswersKeep`, `SeveralIsRight`).

For `TriggersDoNotPass`, what the reference takes for the words of a statement is joined
out of what each place adds (`WordsGoOn`). The code looks for triggers without CONSTRAINT
behind the first CREATE (`FirstCreate`, `CompletesPlainly`), and the reference's triggers
that it does not look for are those `Overlooked`. `Heading` says what each state of
consumeToken knows of the words so far: behind the first CREATE stand whole options
(`Tiled`), then perhaps the beginning of another, or TEMP; or no word to come can complete
such a trigger. There is one way to divide words into options (`TilesGoOn`: no option's
first or middle word ends another), so each word leads to the next state or rules a
trigger out (`HeadingOn`). `WordsInv` ties that to the scan, which has the symbols of a word
under way and not its place (`WordUnderWay`).

`RowsAreFetchedRightly` is about complete texts that meet the conditions
(`PlainStatement`): `KeywordAt`, another recursion along the text, skips whole pieces up to
the first token (`KeywordIsFirst`, by `RunLeads` and `CommentLeads`; a comment that ends at
a carriage return is such a piece for it only with the newline behind), the first word is
the first token (`FirstWord`), ends where `EndsKeyword` says (`KeywordEnds`), and RETURNING
is among the words if it stands behind it (`ReturningIs`).

**Defaults** (`Scanners_proofs`). `QuotedIsRead`: a quoted text is read back as itself and as
nothing else, by induction from its end (`ReadAs` recurs over the statement, `Quoted` over
the text). `NumberSoFar` says that all characters up to the index may stand in a number;
`NumberIsAmongDigits` that a number has no others. `DefaultsMean` follows.

**Schema tree** (`SchemaTree_proofs`). ORDER BY is a choice of a sorted sequence, and there
is one: a row's place is the number of those before it (`OrderExists`), and a sequence
as long as the set, without repetition, has every row (`OrderIsWhole`). So the answers
of the queries are right (`ChildRowsAreRight`, `DatabaseRowsAreRight`). The properties speak
of the answer alone; `IInv` says what is listed after any part of the rows: of which
catalog of the call's time (`ChildrenOf`, `Gathered`), that a table comes behind its schema
with no other in between (`Kids`, `Heads`), that the schema remembered is the last one
listed (`Latest`), that a schema is not listed anew because its rows come together
(`SchemasComeOnce`), and that what is no database stands, in order, right behind the root of
the connected one (`Placed`). TLC checked it on the run's instance first.

Every safety and action property of the passing runs is stated by one of these
theorems. Only model-checked: liveness (out of this prover's reach, as is ENABLED), that
is `EveryCallAnswered`, `LocksReleased`, `ScannersEnd` and `CloseEndsAll`.

## 5. Abstractions to keep in mind

Identity and generated attributes are one text. A default is the text it was set to
and how PostgreSQL shows it again. On-delete and on-update rules are validated in
`SchemaRequests` and not stored. Types that Unicode folds alike and PostgreSQL, which
folds ASCII letters only in an unquoted name, does not are left out (`TypesAssumption`). A schema or table name with a dot in it, which the
code cannot tell from a qualified name, occurs in `Listing` only. Each statement of a row write
commits by itself. Any statement may be refused by PostgreSQL at any time, for reasons
outside the model. Other clients of the database are there only as
far as they do what a call of the driver can do, as further calls.

PostgreSQL's own lexical rules are not the driver's: backticks and brackets are quotes
to validateStatement, dollar quotes, nested comments and E-strings are unknown to it.
`StatementScanner` is checked against the rules the code follows. A statement of a call
in `Sessions` is of one kind; what it does to sequences and advisory locks, which no
rollback takes back, is left out, and so are savepoints. `Browse` has tables whose rows
differ; in `Patterns` a LIKE pattern that ends in a lone escape character matches
nothing, where PostgreSQL refuses it. The tables of one
`SchemaTree` query come in an order without ties, and the filter `LIKE 'pg_temp%'`, whose
`_` is a wildcard, is given to the instance as the set of schemas it hides.

## 6. What is left

Every component of `src/postgres` has its module. Partly modelled are

* "Opening and closing": BuildTarget and the pool's settings are formatting of a URL and
  constants, with no state to check;
* "Dispatch": delegation is the actions' own names; the capabilities and metadata the
  factory returns are constants;
* "Column information": TableInfo is modelled as far as AlterColumn goes by it and
  callers see it, not its other fields' formatting;
* PostgreSQL, of which only what the driver's statements touch is there.

### Not modelled

The SDK's transport and JSON, TLS, `cmd/perk-postgres/main.go` (one call into the
external server), the release scripts, and the fixtures: they keep no state of the
driver's.
