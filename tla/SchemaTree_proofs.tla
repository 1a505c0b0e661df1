-------------------------- MODULE SchemaTree_proofs --------------------------
(***************************************************************************)
(* Whatever the catalogs that follow each other while ListSchema asks: the *)
(* tree shows only what was there during the call, misses nothing that was *)
(* there throughout, and has everything under the root it belongs to.      *)
(***************************************************************************)
EXTENDS SchemaTree, FiniteSetTheorems, SequenceTheorems, TLAPS

(***************************************************************************)
(* ORDER BY: what a finite set in a strict total order has a sequence of   *)
(***************************************************************************)
\* Sorting succeeds: r stands at the place that the number of those below it
\* tells, and no two share a place.
LEMMA OrderExists ==
    ASSUME NEW S, IsFiniteSet(S), NEW R,
           \A r \in S : <<r, r>> \notin R,
           \A r, s, t \in S : <<r, s>> \in R /\ <<s, t>> \in R => <<r, t>> \in R,
           \A r, s \in S : r # s => <<r, s>> \in R \/ <<s, r>> \in R
    PROVE  \E seq \in [1..Cardinality(S) -> S] :
              \A j, k \in DOMAIN seq : j < k => seq[j] # seq[k] /\ <<seq[j], seq[k]>> \in R
<1> DEFINE below(r) == {s \in S : <<s, r>> \in R}
           n == Cardinality(S)
           pos == [r \in S |-> Cardinality(below(r)) + 1]
<1>1. n \in Nat
  BY FS_CardinalityType
<1>2. ASSUME NEW r \in S PROVE IsFiniteSet(below(r)) /\ Cardinality(below(r)) \in 0..(n - 1)
  <2>1. IsFiniteSet(S \ {r}) /\ Cardinality(S \ {r}) = n - 1
    BY FS_RemoveElement
  <2>2. below(r) \in SUBSET (S \ {r})
    OBVIOUS
  <2>3. IsFiniteSet(below(r)) /\ Cardinality(below(r)) <= n - 1
    <3> HIDE DEF below, n
    <3> QED BY <2>1, <2>2, FS_Subset
  <2>4. Cardinality(below(r)) \in Nat
    BY <2>3, FS_CardinalityType
  <2> HIDE DEF below, n
  <2> QED BY <1>1, <2>3, <2>4
<1>3. ASSUME NEW r \in S, NEW s \in S, <<r, s>> \in R PROVE pos[r] < pos[s]
  <2>1. below(r) \cup {r} \in SUBSET below(s) /\ r \notin below(r)
    BY <1>3
  <2> HIDE DEF below
  <2>2. Cardinality(below(r) \cup {r}) = Cardinality(below(r)) + 1
    BY <1>2, <2>1, FS_AddElement
  <2>3. Cardinality(below(r) \cup {r}) <= Cardinality(below(s))
    BY <1>2, <2>1, FS_Subset
  <2>4. Cardinality(below(r)) \in Nat /\ Cardinality(below(s)) \in Nat
    BY <1>2
  <2> QED BY <2>2, <2>3, <2>4
<1>4. pos \in [S -> 1..n]
  <2> SUFFICES ASSUME NEW r \in S PROVE Cardinality(below(r)) + 1 \in 1..n
    OBVIOUS
  <2>1. Cardinality(below(r)) \in 0..(n - 1)
    BY <1>2
  <2> HIDE DEF below, n
  <2> QED BY <1>1, <2>1
<1> HIDE DEF pos, n
<1>5. pos \in Surjection(S, 1..n)
  <2>1. \A r, s \in S : pos[r] = pos[s] => r = s
    <3> SUFFICES ASSUME NEW r \in S, NEW s \in S, pos[r] = pos[s], r # s PROVE FALSE
      OBVIOUS
    <3>1. pos[r] < pos[s] \/ pos[s] < pos[r]
      BY <1>3
    <3>2. pos[r] \in Int /\ pos[s] \in Int
      BY <1>1, <1>4
    <3> QED BY <3>1, <3>2
  <2>2. pos \in Injection(S, 1..n)
    BY <1>4, <2>1 DEF Injection, IsInjective
  <2>3. IsFiniteSet(1..n) /\ Cardinality(1..n) = n
    <3>1. IsFiniteSet(1..n) /\ Cardinality(1..n) = IF 1 > n THEN 0 ELSE n - 1 + 1
      BY <1>1, FS_Interval
    <3> QED BY <1>1, <3>1
  <2> QED BY <2>2, <2>3, FS_Injection DEF n
<1>6. \A k \in 1..n : \E r \in S : pos[r] = k
  BY <1>5 DEF Surjection
<1> DEFINE seq == [k \in 1..n |-> CHOOSE r \in S : pos[r] = k]
<1>7. seq \in [1..n -> S] /\ \A k \in 1..n : pos[seq[k]] = k
  BY <1>6
<1> HIDE DEF seq
<1>8. ASSUME NEW j \in 1..n, NEW k \in 1..n, j < k
      PROVE  seq[j] # seq[k] /\ <<seq[j], seq[k]>> \in R
  <2>1. seq[j] \in S /\ seq[k] \in S /\ pos[seq[j]] = j /\ pos[seq[k]] = k
    BY <1>7
  <2>2. seq[j] # seq[k]
    BY <1>1, <1>8, <2>1
  <2>3. <<seq[k], seq[j]>> \notin R
    <3> SUFFICES ASSUME <<seq[k], seq[j]>> \in R PROVE FALSE
      OBVIOUS
    <3>1. pos[seq[k]] < pos[seq[j]]
      BY <1>3, <2>1
    <3> QED BY <1>1, <1>8, <2>1, <3>1
  <2> QED BY <2>1, <2>2, <2>3
<1> QED BY <1>7, <1>8 DEF n

\* All the elements of a set, each once.
Enumerates(seq, S) ==
    /\ seq \in Seq(S)
    /\ \A r \in S : \E k \in 1..Len(seq) : seq[k] = r
    /\ \A j, k \in 1..Len(seq) : seq[j] = seq[k] => j = k

\* A sequence as long as a finite set, of its elements and none twice, has all.
LEMMA OrderIsWhole ==
    ASSUME NEW S, IsFiniteSet(S), NEW seq \in [1..Cardinality(S) -> S],
           \A j, k \in DOMAIN seq : j < k => seq[j] # seq[k]
    PROVE  Enumerates(seq, S)
<1> DEFINE n == Cardinality(S)
<1>1. n \in Nat
  BY FS_CardinalityType
<1> HIDE DEF n
<1>2. seq \in [1..n -> S]
  BY DEF n
<1>3. seq \in Seq(S) /\ Len(seq) = n
  BY <1>1, <1>2
<1>4. \A j, k \in 1..n : seq[j] = seq[k] => j = k
  <2> SUFFICES ASSUME NEW j \in 1..n, NEW k \in 1..n, seq[j] = seq[k], j # k PROVE FALSE
    OBVIOUS
  <2>1. (j < k \/ k < j) /\ DOMAIN seq = 1..n
    BY <1>1, <1>2
  <2> QED BY <2>1
<1>5. seq \in Injection(1..n, S)
  BY <1>2, <1>4 DEF Injection, IsInjective
<1>6. IsFiniteSet(1..n) /\ Cardinality(1..n) = n
  <2>1. IsFiniteSet(1..n) /\ Cardinality(1..n) = IF 1 > n THEN 0 ELSE n - 1 + 1
    BY <1>1, FS_Interval
  <2> QED BY <1>1, <2>1
<1>7. seq \in Surjection(1..n, S)
  BY <1>5, <1>6, FS_Injection DEF n
<1> QED BY <1>3, <1>4, <1>7 DEF Surjection, Enumerates

(***************************************************************************)
(* The rows of the queries                                                 *)
(***************************************************************************)
TreeKinds == {"BASE TABLE", "VIEW"}
ListedIn(db) == {t \in db.tables : t.kind \in TreeKinds}
SeenIn(db) == db.schemas \ Hidden
Bare(s) == [schema |-> s, kind |-> None, name |-> None, estimate |-> None]
Childless(db) == {s \in SeenIn(db) : \A t \in ListedIn(db) : t.schema # s}
RowsOf(db) == {t \in ListedIn(db) : t.schema \in SeenIn(db)} \cup {Bare(s) : s \in Childless(db)}

\* Rows of one schema come together.
Grouped(rows) ==
    \A j, k \in 1..Len(rows) : j < k => Rank[rows[j].schema] <= Rank[rows[k].schema]

\* The two kinds that are listed have their ranks.
LEMMA KindsDiffer ==
    ASSUME NEW k \in TreeKinds, NEW l \in TreeKinds
    PROVE  /\ RankOfKind(k) \in Nat /\ RankOfKind(l) \in Nat
           /\ RankOfKind(k) = RankOfKind(l) => k = l
<1> DEFINE base == "BASE TABLE"
<1>1. RankOfKind(base) = 1
  BY Zenon DEF RankOfKind
<1>2. RankOfKind("VIEW") = 2
  BY Zenon DEF RankOfKind
<1>3. k \in {base, "VIEW"} /\ l \in {base, "VIEW"}
  BY Zenon DEF TreeKinds
<1> HIDE DEF base
<1> QED BY <1>1, <1>2, <1>3

\* Two rows of a schema are two tables, of two names.
LEMMA RowsDiffer ==
    ASSUME NEW db \in Catalogs, NEW r \in RowsOf(db), NEW s \in RowsOf(db)
    PROVE  /\ r.schema \in SeenIn(db) /\ r.schema \in Names /\ Rank[r.schema] \in Nat
           /\ r # s /\ r.schema = s.schema =>
                /\ r.kind \in TreeKinds /\ s.kind \in TreeKinds
                /\ Rank[r.name] \in Nat /\ Rank[s.name] \in Nat /\ Rank[r.name] # Rank[s.name]
<1>1. /\ db \in Catalog /\ Rank \in [Names -> Nat]
      /\ \A m, n \in Names : Rank[m] = Rank[n] => m = n
      /\ \A t, u \in db.tables : t.schema = u.schema /\ t.name = u.name => t = u
  BY SchemaTreeAssumption
<1>2. db.schemas \subseteq Names /\ db.tables \subseteq Table
  BY <1>1 DEF Catalog
<1>3. \A x \in RowsOf(db) :
         \/ x \in ListedIn(db) /\ x.schema \in SeenIn(db)
         \/ \E z \in Childless(db) : x = Bare(z)
  BY DEF RowsOf
<1>4. \A x \in RowsOf(db) : x.schema \in SeenIn(db)
  BY <1>3 DEF Bare, Childless
<1>5. r.schema \in SeenIn(db) /\ r.schema \in Names /\ Rank[r.schema] \in Nat
  BY <1>1, <1>2, <1>4 DEF SeenIn
<1>6. ASSUME r # s, r.schema = s.schema PROVE r \in ListedIn(db) /\ s \in ListedIn(db)
  <2>1. ASSUME NEW z \in Childless(db), NEW y \in Childless(db), r = Bare(z), s = Bare(y) PROVE FALSE
    BY <1>6, <2>1 DEF Bare
  <2>2. ASSUME NEW z \in Childless(db), r = Bare(z), s \in ListedIn(db) PROVE FALSE
    BY <1>6, <2>2 DEF Bare, Childless
  <2>3. ASSUME NEW z \in Childless(db), s = Bare(z), r \in ListedIn(db) PROVE FALSE
    BY <1>6, <2>3 DEF Bare, Childless
  <2> QED BY <1>3, <2>1, <2>2, <2>3
<1>7. ASSUME r # s, r.schema = s.schema
      PROVE  /\ r.kind \in TreeKinds /\ s.kind \in TreeKinds
             /\ Rank[r.name] \in Nat /\ Rank[s.name] \in Nat /\ Rank[r.name] # Rank[s.name]
  <2>1. /\ r \in db.tables /\ s \in db.tables /\ r \in Table /\ s \in Table
        /\ r.kind \in TreeKinds /\ s.kind \in TreeKinds
    BY <1>2, <1>6, <1>7 DEF ListedIn
  <2>2. r.name \in Names /\ s.name \in Names /\ r.name # s.name
    BY <1>1, <1>7, <2>1 DEF Table
  <2> QED BY <1>1, <2>1, <2>2
<1> QED BY <1>5, <1>7

\* RowBefore is a strict total order of the rows of a catalog.
LEMMA RowsAreOrdered ==
    ASSUME NEW db \in Catalogs
    PROVE  /\ \A r, s, t \in RowsOf(db) :
                 /\ r # s /\ RowBefore(r, s) /\ s # t /\ RowBefore(s, t)
                 => r # t /\ RowBefore(r, t)
           /\ \A r, s \in RowsOf(db) : r # s => RowBefore(r, s) \/ RowBefore(s, r)
           /\ \A r, s \in RowsOf(db) :
                 r # s /\ RowBefore(r, s) => Rank[r.schema] <= Rank[s.schema]
<1>1. \A m, n \in Names : Rank[m] = Rank[n] => m = n
  BY SchemaTreeAssumption
<1>2. ASSUME NEW r \in RowsOf(db), NEW s \in RowsOf(db), r # s
      PROVE  /\ Rank[r.schema] \in Nat /\ Rank[s.schema] \in Nat
             /\ r.schema # s.schema => Rank[r.schema] # Rank[s.schema]
             /\ r.schema = s.schema =>
                   /\ RankOfKind(r.kind) \in Nat /\ RankOfKind(s.kind) \in Nat
                   /\ RankOfKind(r.kind) = RankOfKind(s.kind) => r.kind = s.kind
                   /\ Rank[r.name] \in Nat /\ Rank[s.name] \in Nat /\ Rank[r.name] # Rank[s.name]
  <2>1. /\ r.schema \in Names /\ s.schema \in Names
        /\ Rank[r.schema] \in Nat /\ Rank[s.schema] \in Nat
        /\ r.schema = s.schema =>
              /\ r.kind \in TreeKinds /\ s.kind \in TreeKinds
              /\ Rank[r.name] \in Nat /\ Rank[s.name] \in Nat /\ Rank[r.name] # Rank[s.name]
    BY <1>2, RowsDiffer
  <2> QED BY <1>1, <2>1, KindsDiffer
<1>3. ASSUME NEW r \in RowsOf(db), NEW s \in RowsOf(db), NEW t \in RowsOf(db),
             r # s, RowBefore(r, s), s # t, RowBefore(s, t)
      PROVE  r # t /\ RowBefore(r, t)
  <2>1. /\ Rank[r.schema] \in Nat /\ Rank[s.schema] \in Nat
        /\ r.schema = s.schema =>
              /\ RankOfKind(r.kind) \in Nat /\ RankOfKind(s.kind) \in Nat
              /\ Rank[r.name] \in Nat /\ Rank[s.name] \in Nat
    BY <1>2, <1>3
  <2>2. /\ Rank[t.schema] \in Nat
        /\ s.schema = t.schema => RankOfKind(t.kind) \in Nat /\ Rank[t.name] \in Nat
    BY <1>2, <1>3
  <2>3. r # t
    <3> SUFFICES ASSUME RowBefore(r, s), RowBefore(s, r) PROVE FALSE
      BY <1>3
    <3> QED BY <2>1 DEF RowBefore
  <2>4. RowBefore(r, t)
    BY <1>3, <2>1, <2>2 DEF RowBefore
  <2> QED BY <2>3, <2>4
<1>4. ASSUME NEW r \in RowsOf(db), NEW s \in RowsOf(db), r # s
      PROVE  /\ RowBefore(r, s) \/ RowBefore(s, r)
             /\ RowBefore(r, s) => Rank[r.schema] <= Rank[s.schema]
  BY <1>2, <1>4 DEF RowBefore
<1> QED BY <1>3, <1>4

\* A catalog has finitely many rows to show.
LEMMA RowsAreFinite ==
    ASSUME NEW db \in Catalogs
    PROVE  IsFiniteSet(RowsOf(db))
<1> DEFINE own == {t \in ListedIn(db) : t.schema \in SeenIn(db)}
           lone == Childless(db)
           bare == {Bare(s) : s \in lone}
           f == [s \in lone |-> Bare(s)]
<1>1. IsFiniteSet(db.schemas) /\ IsFiniteSet(db.tables)
  BY SchemaTreeAssumption
<1>2. IsFiniteSet(own)
  <2>1. own \in SUBSET db.tables
    BY DEF ListedIn
  <2> QED BY <1>1, <2>1, FS_Subset
<1>3. IsFiniteSet(lone)
  <2>1. lone \in SUBSET db.schemas
    BY DEF Childless, SeenIn
  <2> QED BY <1>1, <2>1, FS_Subset
<1>4. f \in Surjection(lone, bare)
  <2> HIDE DEF lone
  <2> QED BY DEF Surjection
<1>5. IsFiniteSet(bare)
  BY <1>3, <1>4, FS_Surjection
<1>6. RowsOf(db) = own \cup bare
  BY DEF RowsOf
<1> HIDE DEF own, bare
<1> QED BY <1>2, <1>5, <1>6, FS_Union

\* The second query shows every row of the catalog of its moment once, the rows
\* of a schema together.
LEMMA ChildRowsAreRight ==
    ASSUME catalog \in Catalogs
    PROVE  Enumerates(ChildRows, RowsOf(catalog)) /\ Grouped(ChildRows)
<1> DEFINE S == RowsOf(catalog)
           R == {p \in S \X S : p[1] # p[2] /\ RowBefore(p[1], p[2])}
           Fits(seq) == \A j, k \in DOMAIN seq : j < k => seq[j] # seq[k] /\ RowBefore(seq[j], seq[k])
<1>1. IsFiniteSet(S)
  BY RowsAreFinite
<1>2. ChildRows = CHOOSE seq \in [1..Cardinality(S) -> S] : Fits(seq)
  BY DEF ChildRows, Ordered, RowsOf, Bare, Childless, ListedIn, TreeKinds, SeenIn, Listed, Seen
<1>3. /\ \A r, s, t \in S : r # s /\ RowBefore(r, s) /\ s # t /\ RowBefore(s, t)
                              => r # t /\ RowBefore(r, t)
      /\ \A r, s \in S : r # s => RowBefore(r, s) \/ RowBefore(s, r)
      /\ \A r, s \in S : r # s /\ RowBefore(r, s) => Rank[r.schema] <= Rank[s.schema]
  BY RowsAreOrdered
<1>4. \A r, s \in S : Rank[r.schema] \in Nat
  BY RowsDiffer
<1> HIDE DEF S
<1>5. \A r, s \in S : <<r, s>> \in R <=> r # s /\ RowBefore(r, s)
  OBVIOUS
<1> HIDE DEF R
<1>6. \E seq \in [1..Cardinality(S) -> S] :
         \A j, k \in DOMAIN seq : j < k => seq[j] # seq[k] /\ <<seq[j], seq[k]>> \in R
  <2>1. \A r \in S : <<r, r>> \notin R
    BY <1>5
  <2>2. \A r, s, t \in S : <<r, s>> \in R /\ <<s, t>> \in R => <<r, t>> \in R
    BY <1>3, <1>5
  <2>3. \A r, s \in S : r # s => <<r, s>> \in R \/ <<s, r>> \in R
    BY <1>3, <1>5
  <2> QED BY <1>1, <2>1, <2>2, <2>3, OrderExists
<1>7. \E seq \in [1..Cardinality(S) -> S] : Fits(seq)
  BY <1>5, <1>6
<1>8. ChildRows \in [1..Cardinality(S) -> S] /\ Fits(ChildRows)
  <2> HIDE DEF Fits
  <2> QED BY <1>2, <1>7
<1>9. Enumerates(ChildRows, S)
  <2>1. \A j, k \in DOMAIN ChildRows : j < k => ChildRows[j] # ChildRows[k]
    BY <1>8
  <2> HIDE DEF Fits
  <2>2. ChildRows \in [1..Cardinality(S) -> S]
    BY <1>8
  <2> QED BY <1>1, <2>1, <2>2, OrderIsWhole
<1>10. Grouped(ChildRows)
  <2>1. ChildRows \in Seq(S) /\ DOMAIN ChildRows = 1..Len(ChildRows)
    BY <1>9 DEF Enumerates
  <2> QED BY <1>3, <1>8, <2>1 DEF Grouped
<1> QED BY <1>9, <1>10 DEF S

\* The third query shows every database of its moment once.
LEMMA DatabaseRowsAreRight ==
    ASSUME catalog \in Catalogs
    PROVE  Enumerates(DatabaseRows, catalog.databases)
<1> DEFINE S == catalog.databases
           R == {p \in S \X S : Rank[p[1]] < Rank[p[2]]}
           Fits(seq) == \A j, k \in DOMAIN seq : j < k => seq[j] # seq[k] /\ NameBefore(seq[j], seq[k])
<1>1. IsFiniteSet(S) /\ S \subseteq Names
  BY SchemaTreeAssumption DEF Catalog
<1>2. DatabaseRows = CHOOSE seq \in [1..Cardinality(S) -> S] : Fits(seq)
  BY DEF DatabaseRows, Ordered
<1>3. /\ \A r \in S : Rank[r] \in Nat
      /\ \A r, s \in S : Rank[r] = Rank[s] => r = s
  BY <1>1, SchemaTreeAssumption
<1> HIDE DEF S
<1>4. \A r, s \in S : <<r, s>> \in R <=> NameBefore(r, s)
  BY DEF NameBefore
<1> HIDE DEF R
<1>5. \E seq \in [1..Cardinality(S) -> S] :
         \A j, k \in DOMAIN seq : j < k => seq[j] # seq[k] /\ <<seq[j], seq[k]>> \in R
  <2>1. \A r \in S : <<r, r>> \notin R
    BY <1>3, <1>4 DEF NameBefore
  <2>2. \A r, s, t \in S : <<r, s>> \in R /\ <<s, t>> \in R => <<r, t>> \in R
    BY <1>3, <1>4 DEF NameBefore
  <2>3. \A r, s \in S : r # s => <<r, s>> \in R \/ <<s, r>> \in R
    BY <1>3, <1>4 DEF NameBefore
  <2> QED BY <1>1, <2>1, <2>2, <2>3, OrderExists
<1>6. \E seq \in [1..Cardinality(S) -> S] : Fits(seq)
  BY <1>4, <1>5
<1>7. DatabaseRows \in [1..Cardinality(S) -> S] /\ Fits(DatabaseRows)
  <2> HIDE DEF Fits
  <2> QED BY <1>2, <1>6
<1>8. \A j, k \in DOMAIN DatabaseRows : j < k => DatabaseRows[j] # DatabaseRows[k]
  BY <1>7
<1> HIDE DEF Fits
<1>9. Enumerates(DatabaseRows, S)
  BY <1>1, <1>7, <1>8, OrderIsWhole
<1> QED BY <1>9 DEF S

(***************************************************************************)
(* The inductive invariant: what is listed when the rows are scanned so far *)
(***************************************************************************)
Elements(seq) == {seq[k] : k \in 1..Len(seq)}

Shown == Names \cup {Blank}
TreeObjects ==
    [database : Shown, type : {"database", "schema", "table", "view"}, name : Seq(Shown),
     rowCount : Nat \cup {None}]

AnyRow == Names \cup UNION {RowsOf(db) : db \in Catalogs}

RowLists == Seq(AnyRow)
ObjectLists == Seq(TreeObjects)
Positions == Nat \ {0}

TreeType ==
    [pc : {"idle", "current", "children", "databases", "done"}, current : Names \cup {None},
     rows : RowLists, next : Positions,
     lastSchema : Shown, children : ObjectLists, objects : ObjectLists,
     answer : {None, "ok", "failed"}]

TypeOK ==
    /\ catalog \in Catalogs /\ tree \in TreeType /\ times \subseteq Catalogs
    /\ ~ At("idle") => tree.current = Connected
    /\ tree.pc \in {"current", "children", "databases"} => catalog \in times
    /\ tree.pc \in {"idle", "current"} => tree.children = <<>> /\ tree.lastSchema = Blank
    /\ tree.pc \in {"idle", "current", "children"} => tree.objects = <<>>

RootObject(d) == Object(Displayed[d], "database", <<Displayed[d]>>, None)
SchemaObjectOf(s) == Object(Connected, "schema", <<Displayed[s]>>, None)
TableObjectOf(t) ==
    Object(Connected, Type(t), <<Displayed[t.schema], Displayed[t.name]>>, RowCount(t))

\* m is where the schema of the k-th stands.
Heads(kids, m, k) ==
    /\ kids[m].type = "schema"
    /\ \A j \in (m + 1)..k : kids[j].type # "schema"

Apart(db) == \A s, t \in db.schemas : Displayed[s] = Displayed[t] => s = t

\* The objects of the connected database are some catalog's, tables after their
\* schemas, and no schema twice.
Kids(db, kids) ==
    /\ \A k \in 1..Len(kids) : kids[k] \in Own(db)
    /\ \A k \in 1..Len(kids) : kids[k].type # "schema" /\ kids[k].name[1] # Blank =>
          \E m \in 1..(k - 1) : Heads(kids, m, k) /\ kids[m].name = <<kids[k].name[1]>>
    /\ Apart(db) =>
          \A j, k \in 1..Len(kids) :
              kids[j].type = "schema" /\ kids[k].type = "schema" /\ kids[j].name = kids[k].name
              => j = k

\* The last schema listed is the one remembered.
Latest(kids, last) ==
    last # Blank =>
        \E m \in 1..Len(kids) : Heads(kids, m, Len(kids)) /\ kids[m].name = <<last>>

\* The schemas listed are of the names that were scanned.
Named(kids, names) ==
    \A k \in 1..Len(kids) : kids[k].type = "schema" => kids[k].name[1] \in names

Lists(kids, row) ==
    /\ Displayed[row.schema] # Blank => SchemaObjectOf(row.schema) \in Elements(kids)
    /\ row.name # None => TableObjectOf(row) \in Elements(kids)

ScannedNames(rows, n) == {Displayed[rows[j].schema] : j \in 1..n}

ChildrenOf(db, t) ==
    /\ Enumerates(t.rows, RowsOf(db)) /\ Grouped(t.rows)
    /\ t.next <= Len(t.rows) + 1
    /\ Kids(db, t.children) /\ Latest(t.children, t.lastSchema)
    /\ Named(t.children, ScannedNames(t.rows, t.next - 1))
    /\ t.lastSchema = IF t.next = 1 THEN Blank ELSE Displayed[t.rows[t.next - 1].schema]
    /\ \A j \in 1..(t.next - 1) : Lists(t.children, t.rows[j])

ChildrenKnown == At("children") => \E db \in times : ChildrenOf(db, tree)

\* All of a catalog's own but what is displayed as nothing.
Whole(db, kids) == \A x \in Own(db) : x.name # <<Blank>> => x \in Elements(kids)

\* The objects that are no databases are the children, in their order, behind
\* the p-th, which is their root.
Placed(objects, kids, p) ==
    \A k \in 1..Len(objects) : objects[k].type # "database" =>
        /\ p \in 1..(k - 1) /\ objects[p] = RootObject(Connected)
        /\ k - p \in 1..Len(kids)
        /\ \A i \in 1..(k - p) : objects[p + i] = kids[i]

Gathered(all, t) ==
    /\ Enumerates(t.rows, all.databases)
    /\ t.next <= Len(t.rows) + 1
    /\ \A k \in 1..Len(t.objects) :
          t.objects[k] \in Roots(all) \/ t.objects[k] \in Elements(t.children)
    /\ \A j \in 1..(t.next - 1) :
          /\ RootObject(t.rows[j]) \in Elements(t.objects)
          /\ t.rows[j] = Connected => Elements(t.children) \subseteq Elements(t.objects)
    /\ \E p \in Nat : Placed(t.objects, t.children, p)
    /\ (\A j \in 1..(t.next - 1) : t.rows[j] # Connected) =>
          \A k \in 1..Len(t.objects) : t.objects[k].type = "database"

ObjectsKnown ==
    At("databases") \/ Answered =>
        \E own, all \in times :
            /\ Kids(own, tree.children) /\ Whole(own, tree.children)
            /\ Gathered(all, tree)
            /\ Answered => tree.next = Len(tree.rows) + 1

IInv == TypeOK /\ ChildrenKnown /\ ObjectsKnown

(***************************************************************************)
(* What there is to show of a catalog                                      *)
(***************************************************************************)
\* The kind and estimate of a table give its object a type and a count.
LEMMA TableShows ==
    ASSUME NEW t \in Table
    PROVE  Type(t) \in {"table", "view"} /\ RowCount(t) \in Nat \cup {None}
<1>1. Type(t) \in {"table", "view"}
  BY Zenon DEF Type
<1>2. t.estimate \in Nat \cup {None}
  BY DEF Table
<1>3. RowCount(t) = t.estimate \/ RowCount(t) = None
  BY Zenon DEF RowCount
<1> QED BY <1>1, <1>2, <1>3

\* The objects of schemas, tables and databases.
LEMMA ObjectFields ==
    /\ \A s \in Names : Displayed[s] \in Shown
    /\ \A s \in Names :
          /\ SchemaObjectOf(s) \in TreeObjects /\ SchemaObjectOf(s).type = "schema"
          /\ SchemaObjectOf(s).name = <<Displayed[s]>>
    /\ \A s, t \in Names : Displayed[s] = Displayed[t] => SchemaObjectOf(s) = SchemaObjectOf(t)
    /\ \A t \in Table :
          /\ TableObjectOf(t) \in TreeObjects /\ TableObjectOf(t).type \in {"table", "view"}
          /\ TableObjectOf(t).name = <<Displayed[t.schema], Displayed[t.name]>>
    /\ \A d \in Names :
          /\ RootObject(d) \in TreeObjects /\ RootObject(d).type = "database"
          /\ RootObject(d).name = <<Displayed[d]>>
<1>1. Displayed \in [Names -> Shown] /\ Connected \in Names
  BY SchemaTreeAssumption DEF Shown
<1>2. \A s \in Names : Displayed[s] \in Shown
  BY <1>1
<1>3. \A t \in Table : t.schema \in Names /\ t.name \in Names
  BY DEF Table
<1>4. ASSUME NEW t \in Table
      PROVE  /\ TableObjectOf(t) \in TreeObjects /\ TableObjectOf(t).type \in {"table", "view"}
             /\ TableObjectOf(t).name = <<Displayed[t.schema], Displayed[t.name]>>
  <2>1. Type(t) \in {"table", "view"} /\ RowCount(t) \in Nat \cup {None}
    BY TableShows
  <2>2. <<Displayed[t.schema], Displayed[t.name]>> \in Seq(Shown) /\ Connected \in Shown
    BY <1>1, <1>2, <1>3 DEF Shown
  <2> QED BY <2>1, <2>2 DEF TableObjectOf, Object, TreeObjects
<1>5. ASSUME NEW s \in Names
      PROVE  /\ SchemaObjectOf(s) \in TreeObjects /\ SchemaObjectOf(s).type = "schema"
             /\ SchemaObjectOf(s).name = <<Displayed[s]>>
             /\ RootObject(s) \in TreeObjects /\ RootObject(s).type = "database"
             /\ RootObject(s).name = <<Displayed[s]>>
  <2>1. <<Displayed[s]>> \in Seq(Shown) /\ Connected \in Shown /\ Displayed[s] \in Shown
    BY <1>1, <1>2 DEF Shown
  <2> QED BY <2>1 DEF SchemaObjectOf, RootObject, Object, TreeObjects
<1>6. \A s, t \in Names : Displayed[s] = Displayed[t] => SchemaObjectOf(s) = SchemaObjectOf(t)
  BY DEF SchemaObjectOf
<1> QED BY <1>2, <1>4, <1>5, <1>6

\* What is a catalog's own: its schemas and the tables listed.
LEMMA OwnParts ==
    ASSUME NEW db \in Catalogs
    PROVE  /\ SeenIn(db) \subseteq Names /\ ListedIn(db) \subseteq Table
           /\ SeenIn(db) \subseteq db.schemas
           /\ \A x \in Own(db) :
                \/ \E s \in SeenIn(db) : x = SchemaObjectOf(s)
                \/ \E t \in ListedIn(db) : t.schema \in SeenIn(db) /\ x = TableObjectOf(t)
           /\ \A s \in SeenIn(db) : SchemaObjectOf(s) \in Own(db)
           /\ \A t \in ListedIn(db) : t.schema \in SeenIn(db) => TableObjectOf(t) \in Own(db)
<1>1. db.schemas \subseteq Names /\ db.tables \subseteq Table
  BY SchemaTreeAssumption DEF Catalog
<1>2. \A t \in db.tables : t.schema \in db.schemas
  BY SchemaTreeAssumption
<1>3. \A t \in Table : t.kind \in Kinds
  BY DEF Table
<1>4. \A k \in Kinds : k # "FOREIGN" <=> k \in TreeKinds
  BY Zenon DEF Kinds, TreeKinds
<1>5. \A t \in db.tables : t.kind # "FOREIGN" /\ t.schema \notin Hidden
                           <=> t \in ListedIn(db) /\ t.schema \in SeenIn(db)
  BY <1>1, <1>2, <1>3, <1>4, Zenon DEF ListedIn, SeenIn
<1>6. SeenIn(db) \subseteq Names /\ ListedIn(db) \subseteq db.tables /\ SeenIn(db) \subseteq db.schemas
  BY <1>1 DEF SeenIn, ListedIn
<1>7. Own(db) = {SchemaObjectOf(s) : s \in SeenIn(db)}
                \cup {TableObjectOf(t) : t \in {t \in db.tables : t.kind # "FOREIGN" /\ t.schema \notin Hidden}}
  BY Zenon DEF Own, SchemaObjectOf, TableObjectOf, SeenIn
<1>8. ASSUME NEW x \in Own(db)
      PROVE  \/ \E s \in SeenIn(db) : x = SchemaObjectOf(s)
             \/ \E t \in ListedIn(db) : t.schema \in SeenIn(db) /\ x = TableObjectOf(t)
  BY <1>5, <1>7, Zenon
<1>9. \A s \in SeenIn(db) : SchemaObjectOf(s) \in Own(db)
  BY <1>7, Zenon
<1>10. \A t \in ListedIn(db) : t.schema \in SeenIn(db) => TableObjectOf(t) \in Own(db)
  BY <1>5, <1>6, <1>7, Zenon
<1> QED BY <1>1, <1>6, <1>8, <1>9, <1>10

\* Which of them an object is, its type tells.
LEMMA OwnTypes ==
    ASSUME NEW db \in Catalogs, NEW x \in Own(db)
    PROVE  /\ x \in TreeObjects /\ x.type \in {"schema", "table", "view"}
           /\ x.type = "schema" => \E s \in SeenIn(db) : x = SchemaObjectOf(s) /\ x.name = <<Displayed[s]>>
           /\ x.type # "schema" => \E t \in ListedIn(db) :
                 /\ t.schema \in SeenIn(db) /\ x = TableObjectOf(t)
                 /\ x.name = <<Displayed[t.schema], Displayed[t.name]>>
<1>1. CASE \E s \in SeenIn(db) : x = SchemaObjectOf(s)
  <2>1. PICK s \in SeenIn(db) : x = SchemaObjectOf(s)
    BY <1>1
  <2>2. s \in Names
    BY OwnParts
  <2> QED BY <2>1, <2>2, ObjectFields
<1>2. CASE \E t \in ListedIn(db) : t.schema \in SeenIn(db) /\ x = TableObjectOf(t)
  <2>1. PICK t \in ListedIn(db) : t.schema \in SeenIn(db) /\ x = TableObjectOf(t)
    BY <1>2
  <2>2. t \in Table
    BY OwnParts
  <2> QED BY <2>1, <2>2, ObjectFields
<1> QED BY <1>1, <1>2, OwnParts

(***************************************************************************)
(* The children: one more object                                           *)
(***************************************************************************)
\* A sequence with one more element.
LEMMA OneMore ==
    ASSUME NEW S, NEW seq \in Seq(S), NEW x \in S
    PROVE  LET new == seq \o <<x>> IN
           /\ new \in Seq(S) /\ Len(new) = Len(seq) + 1
           /\ \A k \in 1..Len(seq) : new[k] = seq[k]
           /\ new[Len(seq) + 1] = x
           /\ Elements(new) = Elements(seq) \cup {x}
<1> DEFINE new == seq \o <<x>>
           n == Len(seq)
<1>1. n \in Nat /\ <<x>> \in Seq(S) /\ Len(<<x>>) = 1 /\ <<x>>[1] = x
  OBVIOUS
<1>2. /\ new \in Seq(S) /\ Len(new) = n + 1
      /\ \A k \in 1..n : new[k] = seq[k]
      /\ new[n + 1] = x
  BY <1>1
<1> HIDE DEF new
<1>3. Elements(new) = Elements(seq) \cup {x}
  <2>1. Elements(seq) = {seq[k] : k \in 1..n} /\ Elements(new) = {new[k] : k \in 1..(n + 1)}
    BY <1>2 DEF Elements
  <2>2. 1..(n + 1) = (1..n) \cup {n + 1}
    BY <1>1
  <2> HIDE DEF n
  <2> QED BY <1>2, <2>1, <2>2
<1> QED BY <1>2, <1>3 DEF new

\* A schema that was not listed follows.
LEMMA SchemaFollows ==
    ASSUME NEW db \in Catalogs, NEW kids \in Seq(TreeObjects), Kids(db, kids),
           NEW s \in SeenIn(db), NEW names, Named(kids, names),
           Apart(db) => Displayed[s] \notin names
    PROVE  LET new == kids \o <<SchemaObjectOf(s)>> IN
           /\ Kids(db, new) /\ Latest(new, Displayed[s])
           /\ Named(new, names \cup {Displayed[s]})
<1> DEFINE x == SchemaObjectOf(s)
           new == kids \o <<x>>
           n == Len(kids)
<1>1. /\ x \in Own(db) /\ x \in TreeObjects /\ x.type = "schema" /\ x.name = <<Displayed[s]>>
  BY OwnParts, ObjectFields
<1>2. /\ n \in Nat /\ Len(new) = n + 1 /\ \A k \in 1..n : new[k] = kids[k]
      /\ new[n + 1] = x
  BY <1>1, OneMore
<1> HIDE DEF x, new, n
<1>3. \A k \in 1..n : /\ kids[k] \in Own(db)
                      /\ kids[k].type = "schema" => kids[k].name[1] \in names
                      /\ kids[k].type # "schema" /\ kids[k].name[1] # Blank =>
                           \E m \in 1..(k - 1) : Heads(kids, m, k) /\ kids[m].name = <<kids[k].name[1]>>
  BY DEF Kids, Named, n
<1>4. x.name[1] = Displayed[s]
  BY <1>1
<1>5. \A k \in 1..(n + 1) : new[k] \in Own(db)
  BY <1>1, <1>2, <1>3
<1>6. ASSUME NEW k \in 1..(n + 1), new[k].type # "schema", new[k].name[1] # Blank
      PROVE  \E m \in 1..(k - 1) : Heads(new, m, k) /\ new[m].name = <<new[k].name[1]>>
  <2>1. k \in 1..n /\ new[k] = kids[k]
    BY <1>1, <1>2, <1>6
  <2>2. PICK m \in 1..(k - 1) : Heads(kids, m, k) /\ kids[m].name = <<kids[k].name[1]>>
    BY <1>3, <1>6, <2>1
  <2>3. m \in 1..n /\ \A j \in (m + 1)..k : j \in 1..n
    BY <1>2, <2>1
  <2>4. Heads(new, m, k)
    BY <1>2, <2>2, <2>3 DEF Heads
  <2> QED BY <1>2, <2>1, <2>2, <2>3, <2>4
<1>7. ASSUME Apart(db), NEW j \in 1..(n + 1), NEW k \in 1..(n + 1),
             new[j].type = "schema", new[k].type = "schema", new[j].name = new[k].name
      PROVE  j = k
  <2>1. \A i \in 1..n : kids[i].type = "schema" => kids[i].name # x.name
    BY <1>3, <1>4, <1>7
  <2>2. \A i, l \in 1..n : kids[i].type = "schema" /\ kids[l].type = "schema" /\ kids[i].name = kids[l].name
                           => i = l
    BY <1>7 DEF Kids, n
  <2>3. CASE j \in 1..n /\ k \in 1..n
    BY <1>2, <1>7, <2>2, <2>3
  <2>4. CASE j = n + 1 /\ k \in 1..n
    BY <1>2, <1>7, <2>1, <2>4
  <2>5. CASE j \in 1..n /\ k = n + 1
    BY <1>2, <1>7, <2>1, <2>5
  <2> QED BY <1>2, <1>7, <2>3, <2>4, <2>5
<1>8. Kids(db, new)
  BY <1>2, <1>5, <1>6, <1>7 DEF Kids
<1>9. Latest(new, Displayed[s])
  <2>1. Heads(new, n + 1, n + 1)
    BY <1>1, <1>2 DEF Heads
  <2>2. n + 1 \in 1..Len(new)
    BY <1>2
  <2> QED BY <1>1, <1>2, <2>1, <2>2 DEF Latest
<1>10. Named(new, names \cup {Displayed[s]})
  BY <1>2, <1>3, <1>4 DEF Named
<1> QED BY <1>8, <1>9, <1>10 DEF new, x

\* A table follows its schema.
LEMMA TableFollows ==
    ASSUME NEW db \in Catalogs, NEW kids \in Seq(TreeObjects), Kids(db, kids),
           NEW t \in ListedIn(db), t.schema \in SeenIn(db), Latest(kids, Displayed[t.schema]),
           NEW names, Named(kids, names)
    PROVE  LET new == kids \o <<TableObjectOf(t)>> IN
           /\ Kids(db, new) /\ Latest(new, Displayed[t.schema]) /\ Named(new, names)
<1> DEFINE x == TableObjectOf(t)
           new == kids \o <<x>>
           n == Len(kids)
           last == Displayed[t.schema]
<1>1. /\ x \in Own(db) /\ x \in TreeObjects /\ x.type # "schema" /\ x.name[1] = last
  <2>1. x \in Own(db) /\ t \in Table
    BY OwnParts
  <2>2. /\ x \in TreeObjects /\ x.type \in {"table", "view"}
        /\ x.name = <<Displayed[t.schema], Displayed[t.name]>>
    BY <2>1, ObjectFields
  <2> QED BY <2>1, <2>2
<1>2. /\ n \in Nat /\ Len(new) = n + 1 /\ \A k \in 1..n : new[k] = kids[k]
      /\ new[n + 1] = x
  BY <1>1, OneMore
<1> HIDE DEF x, new, n
<1>3. \A k \in 1..n : /\ kids[k] \in Own(db)
                      /\ kids[k].type = "schema" => kids[k].name[1] \in names
                      /\ kids[k].type # "schema" /\ kids[k].name[1] # Blank =>
                           \E m \in 1..(k - 1) : Heads(kids, m, k) /\ kids[m].name = <<kids[k].name[1]>>
  BY DEF Kids, Named, n
<1>4. last # Blank => \E m \in 1..n : Heads(new, m, n + 1) /\ new[m].name = <<last>>
  <2> SUFFICES ASSUME last # Blank
               PROVE  \E m \in 1..n : Heads(new, m, n + 1) /\ new[m].name = <<last>>
    OBVIOUS
  <2>1. PICK m \in 1..n : Heads(kids, m, n) /\ kids[m].name = <<last>>
    BY DEF Latest, n
  <2>2. \A j \in (m + 1)..(n + 1) : j = n + 1 \/ (j \in 1..n /\ j \in (m + 1)..n)
    BY <1>2
  <2>3. Heads(new, m, n + 1)
    BY <1>1, <1>2, <2>1, <2>2 DEF Heads
  <2> QED BY <1>2, <2>1, <2>3
<1>5. \A k \in 1..(n + 1) : new[k] \in Own(db)
  BY <1>1, <1>2, <1>3
<1>6. ASSUME NEW k \in 1..(n + 1), new[k].type # "schema", new[k].name[1] # Blank
      PROVE  \E m \in 1..(k - 1) : Heads(new, m, k) /\ new[m].name = <<new[k].name[1]>>
  <2>1. CASE k \in 1..n
    <3>1. PICK m \in 1..(k - 1) : Heads(kids, m, k) /\ kids[m].name = <<kids[k].name[1]>>
      BY <1>2, <1>3, <1>6, <2>1
    <3>2. m \in 1..n /\ \A j \in (m + 1)..k : j \in 1..n
      BY <1>2, <2>1
    <3>3. Heads(new, m, k)
      BY <1>2, <3>1, <3>2 DEF Heads
    <3> QED BY <1>2, <2>1, <3>1, <3>2, <3>3
  <2>2. CASE k = n + 1
    <3>1. new[k] = x /\ k - 1 = n
      BY <1>2, <2>2
    <3>2. last # Blank
      BY <1>1, <1>6, <3>1
    <3> QED BY <1>1, <1>4, <2>2, <3>1, <3>2
  <2> QED BY <1>2, <1>6, <2>1, <2>2
<1>7. ASSUME Apart(db), NEW j \in 1..(n + 1), NEW k \in 1..(n + 1),
             new[j].type = "schema", new[k].type = "schema", new[j].name = new[k].name
      PROVE  j = k
  <2>1. \A i, l \in 1..n : kids[i].type = "schema" /\ kids[l].type = "schema" /\ kids[i].name = kids[l].name
                           => i = l
    BY <1>7 DEF Kids, n
  <2>2. j \in 1..n /\ k \in 1..n
    BY <1>1, <1>2, <1>7
  <2> QED BY <1>2, <1>7, <2>1, <2>2
<1>8. Kids(db, new)
  BY <1>2, <1>5, <1>6, <1>7 DEF Kids
<1>9. Latest(new, last)
  <2>1. \A m \in 1..n : m \in 1..Len(new)
    BY <1>2
  <2> QED BY <1>2, <1>4, <2>1 DEF Latest
<1>10. Named(new, names)
  BY <1>1, <1>2, <1>3 DEF Named
<1> QED BY <1>8, <1>9, <1>10 DEF new, x

(***************************************************************************)
(* ScanChild                                                               *)
(***************************************************************************)
\* A row is a table's, or of a schema without any.
LEMMA RowParts ==
    ASSUME NEW db \in Catalogs, NEW row \in RowsOf(db)
    PROVE  row.schema \in SeenIn(db) /\ (row.name # None => row \in ListedIn(db))
<1>1. CASE row \in ListedIn(db) /\ row.schema \in SeenIn(db)
  BY <1>1
<1>2. CASE \E s \in Childless(db) : row = Bare(s)
  <2>1. PICK s \in Childless(db) : row = Bare(s)
    BY <1>2
  <2>2. row.schema = s /\ row.name = None
    BY <2>1 DEF Bare
  <2> QED BY <2>2 DEF Childless
<1> QED BY <1>1, <1>2 DEF RowsOf

\* Where schemas are displayed apart, a schema is scanned anew only after all
\* the rows of those before it.
LEMMA SchemasComeOnce ==
    ASSUME NEW db \in Catalogs, NEW rows, Enumerates(rows, RowsOf(db)), Grouped(rows),
           NEW n \in 1..Len(rows), Apart(db),
           n # 1 => Displayed[rows[n - 1].schema] # Displayed[rows[n].schema]
    PROVE  Displayed[rows[n].schema] \notin ScannedNames(rows, n - 1)
<1>1. rows \in Seq(RowsOf(db)) /\ Len(rows) \in Nat
  BY DEF Enumerates
<1>2. \A k \in 1..Len(rows) : /\ rows[k].schema \in db.schemas /\ rows[k].schema \in Names
                              /\ Rank[rows[k].schema] \in Nat
  <2> SUFFICES ASSUME NEW k \in 1..Len(rows)
               PROVE  /\ rows[k].schema \in db.schemas /\ rows[k].schema \in Names
                      /\ Rank[rows[k].schema] \in Nat
    OBVIOUS
  <2>1. rows[k] \in RowsOf(db)
    BY <1>1
  <2> QED BY <2>1, RowsDiffer, OwnParts
<1> SUFFICES ASSUME NEW j \in 1..(n - 1), Displayed[rows[j].schema] = Displayed[rows[n].schema]
             PROVE  FALSE
  BY DEF ScannedNames
<1>3. j \in 1..Len(rows) /\ n - 1 \in 1..Len(rows) /\ n # 1
  BY <1>1
<1>4. rows[j].schema = rows[n].schema
  BY <1>2, <1>3 DEF Apart
<1>5. Rank[rows[j].schema] <= Rank[rows[n - 1].schema]
  <2>1. CASE j = n - 1
    BY <1>2, <1>3, <2>1
  <2>2. CASE j < n - 1
    BY <1>3, <2>2 DEF Grouped
  <2> QED BY <2>1, <2>2
<1>6. Rank[rows[n - 1].schema] <= Rank[rows[n].schema]
  BY <1>1, <1>3 DEF Grouped
<1>7. Rank[rows[n - 1].schema] = Rank[rows[n].schema]
  BY <1>2, <1>3, <1>4, <1>5, <1>6
<1>8. rows[n - 1].schema = rows[n].schema
  BY <1>2, <1>3, <1>7, SchemaTreeAssumption
<1> QED BY <1>3, <1>8

\* A turn of the loop lists the schema, if it is not the one under way, and the
\* table, if there is one.
LEMMA ScanChildAdds ==
    ASSUME TypeOK, At("children"), NEW db \in times, ChildrenOf(db, tree), HasRow
    PROVE  LET schema == Displayed[Row.schema]
               new == tree.children \o SchemaObject(schema) \o TableObject(schema, Row)
           IN  /\ schema \in Shown /\ new \in Seq(TreeObjects)
               /\ Kids(db, new) /\ Latest(new, schema)
               /\ Named(new, ScannedNames(tree.rows, tree.next))
               /\ Elements(tree.children) \subseteq Elements(new)
               /\ Lists(new, Row)
<1> DEFINE rows == tree.rows
           n == tree.next
           row == rows[n]
           schema == Displayed[row.schema]
           kids == tree.children
           mid == kids \o SchemaObject(schema)
           new == mid \o TableObject(schema, row)
           names == ScannedNames(rows, n - 1)
           now == ScannedNames(rows, n)
           s == SchemaObjectOf(row.schema)
<1>1. /\ db \in Catalogs /\ tree.current = Connected /\ kids \in Seq(TreeObjects)
      /\ n \in Nat /\ n >= 1 /\ n <= Len(rows)
  BY DEF TypeOK, TreeType, RowLists, ObjectLists, Positions, HasRow, At
<1>2. /\ Enumerates(rows, RowsOf(db)) /\ Grouped(rows)
      /\ Kids(db, kids) /\ Latest(kids, tree.lastSchema) /\ Named(kids, names)
      /\ tree.lastSchema = IF n = 1 THEN Blank ELSE Displayed[rows[n - 1].schema]
  BY DEF ChildrenOf
<1>3. rows \in Seq(RowsOf(db)) /\ Len(rows) \in Nat /\ n \in 1..Len(rows)
  BY <1>1, <1>2 DEF Enumerates
<1>4. row \in RowsOf(db)
  BY <1>3
<1>5. /\ row.schema \in SeenIn(db) /\ row.schema \in Names /\ schema \in Shown
      /\ row.name # None => row \in ListedIn(db)
  BY <1>1, <1>4, RowParts, OwnParts, ObjectFields
<1>6. now = names \cup {schema}
  <2>1. 1..n = (1..(n - 1)) \cup {n}
    BY <1>1
  <2> QED BY <2>1 DEF ScannedNames
<1>7. /\ schema # tree.lastSchema => SchemaObject(schema) = <<s>>
      /\ schema = tree.lastSchema => SchemaObject(schema) = <<>>
  BY <1>1 DEF SchemaObject, SchemaObjectOf
<1>8. s \in TreeObjects
  BY <1>5, ObjectFields
<1> HIDE DEF rows, n, row, schema, kids, names, now, s, mid
<1>9. /\ mid \in Seq(TreeObjects) /\ Kids(db, mid) /\ Latest(mid, schema) /\ Named(mid, now)
      /\ Elements(kids) \subseteq Elements(mid)
      /\ schema # Blank => s \in Elements(mid)
  <2>1. CASE schema = tree.lastSchema
    <3>1. mid = kids
      BY <1>1, <1>7, <2>1 DEF mid
    <3>2. Named(kids, now)
      BY <1>2, <1>6 DEF Named
    <3>3. ASSUME schema # Blank PROVE s \in Elements(kids)
      <4>1. PICK m \in 1..Len(kids) : Heads(kids, m, Len(kids)) /\ kids[m].name = <<schema>>
        BY <1>2, <2>1, <3>3 DEF Latest
      <4>2. kids[m] \in Own(db) /\ kids[m].type = "schema"
        BY <1>2, <4>1 DEF Kids, Heads
      <4>3. PICK z \in SeenIn(db) : kids[m] = SchemaObjectOf(z) /\ kids[m].name = <<Displayed[z]>>
        BY <1>1, <4>2, OwnTypes
      <4>4. Displayed[z] = schema /\ z \in Names
        <5>1. <<Displayed[z]>> = <<schema>>
          BY <4>1, <4>3
        <5> QED BY <1>1, <5>1, OwnParts
      <4>5. SchemaObjectOf(z) = s
        BY <1>5, <4>4, ObjectFields DEF schema, s
      <4> QED BY <4>3, <4>5 DEF Elements
    <3> QED BY <1>1, <1>2, <2>1, <3>1, <3>2, <3>3
  <2>2. CASE schema # tree.lastSchema
    <3>1. mid = kids \o <<s>>
      BY <1>7, <2>2 DEF mid
    <3>2. Apart(db) => schema \notin names
      BY <1>1, <1>2, <1>3, <2>2, SchemasComeOnce DEF schema, names, row
    <3>3. /\ Kids(db, mid) /\ Latest(mid, schema) /\ Named(mid, now)
      BY <1>1, <1>2, <1>5, <1>6, <3>1, <3>2, SchemaFollows DEF s, schema
    <3>4. mid \in Seq(TreeObjects) /\ Elements(mid) = Elements(kids) \cup {s}
      BY <1>1, <1>8, <3>1, OneMore
    <3> QED BY <3>3, <3>4
  <2> QED BY <2>1, <2>2
<1>10. /\ new \in Seq(TreeObjects) /\ Kids(db, new) /\ Latest(new, schema) /\ Named(new, now)
       /\ Elements(mid) \subseteq Elements(new)
       /\ row.name # None => TableObjectOf(row) \in Elements(new)
  <2>1. CASE row.name = None
    <3>1. TableObject(schema, row) = <<>>
      BY <2>1 DEF TableObject
    <3> HIDE DEF new
    <3>2. new = mid
      BY <1>9, <3>1 DEF new
    <3> QED BY <1>9, <2>1, <3>2
  <2>2. CASE row.name # None
    <3> DEFINE t == TableObjectOf(row)
    <3>1. TableObject(schema, row) = <<t>>
      BY <1>1, <2>2, Zenon DEF TableObject, TableObjectOf, schema
    <3>2. row \in ListedIn(db) /\ row \in Table
      BY <1>1, <1>5, <2>2, OwnParts
    <3>3. t \in TreeObjects
      BY <3>2, ObjectFields
    <3>4. /\ Kids(db, mid \o <<t>>) /\ Latest(mid \o <<t>>, schema) /\ Named(mid \o <<t>>, now)
      BY <1>1, <1>5, <1>9, <3>2, TableFollows DEF schema
    <3>5. mid \o <<t>> \in Seq(TreeObjects) /\ Elements(mid \o <<t>>) = Elements(mid) \cup {t}
      BY <1>9, <3>3, OneMore
    <3>6. new = mid \o <<t>>
      BY <3>1
    <3> HIDE DEF new, t
    <3> QED BY <3>4, <3>5, <3>6 DEF t
  <2> QED BY <2>1, <2>2
<1> HIDE DEF new
<1>11. Lists(new, row)
  BY <1>9, <1>10 DEF Lists, schema, s
<1>12. Elements(kids) \subseteq Elements(new)
  BY <1>9, <1>10
<1> QED BY <1>5, <1>10, <1>11, <1>12 DEF new, mid, kids, row, rows, n, schema, now, Row

\* All rows scanned, all of the catalog's own is listed.
LEMMA AllScanned ==
    ASSUME NEW db \in Catalogs, ChildrenOf(db, tree), tree.next = Len(tree.rows) + 1
    PROVE  Whole(db, tree.children)
<1> DEFINE kids == tree.children
<1>1. ASSUME NEW row \in RowsOf(db) PROVE Lists(kids, row)
  <2>1. PICK k \in 1..Len(tree.rows) : tree.rows[k] = row
    BY DEF ChildrenOf, Enumerates
  <2>2. Len(tree.rows) \in Nat
    BY DEF ChildrenOf, Enumerates
  <2>3. k \in 1..(tree.next - 1)
    BY <2>2
  <2> QED BY <2>1, <2>3 DEF ChildrenOf
<1> SUFFICES ASSUME NEW x \in Own(db), x.name # <<Blank>>
             PROVE  x \in Elements(kids)
  BY DEF Whole
<1>2. CASE x.type = "schema"
  <2>1. PICK s \in SeenIn(db) : x = SchemaObjectOf(s) /\ x.name = <<Displayed[s]>>
    BY <1>2, OwnTypes
  <2>2. Displayed[s] # Blank
    BY <2>1
  <2>3. \E row \in RowsOf(db) : row.schema = s
    <3>1. CASE s \in Childless(db)
      <4>1. Bare(s) \in RowsOf(db) /\ Bare(s).schema = s
        BY <3>1 DEF RowsOf, Bare
      <4> QED BY <4>1
    <3>2. CASE s \notin Childless(db)
      BY <3>2 DEF Childless, RowsOf
    <3> QED BY <3>1, <3>2
  <2> QED BY <1>1, <2>1, <2>2, <2>3 DEF Lists
<1>3. CASE x.type # "schema"
  <2>1. PICK t \in ListedIn(db) : t.schema \in SeenIn(db) /\ x = TableObjectOf(t)
    BY <1>3, OwnTypes
  <2>2. t \in RowsOf(db)
    BY <2>1 DEF RowsOf
  <2>3. t.name # None
    <3>1. t \in Table
      BY OwnParts
    <3> QED BY <3>1, SchemaTreeAssumption DEF Table
  <2> QED BY <1>1, <2>1, <2>2, <2>3 DEF Lists
<1> QED BY <1>2, <1>3

(***************************************************************************)
(* ScanDatabase                                                            *)
(***************************************************************************)
\* Two sequences, one after the other.
LEMMA TwoParts ==
    ASSUME NEW S, NEW seq \in Seq(S), NEW more \in Seq(S)
    PROVE  LET new == seq \o more IN
           /\ new \in Seq(S) /\ Len(new) = Len(seq) + Len(more)
           /\ \A k \in 1..Len(seq) : new[k] = seq[k]
           /\ \A i \in 1..Len(more) : new[Len(seq) + i] = more[i]
           /\ Elements(new) = Elements(seq) \cup Elements(more)
<1> DEFINE new == seq \o more
           n == Len(seq)
           m == Len(more)
<1>1. /\ n \in Nat /\ m \in Nat
      /\ new \in Seq(S) /\ Len(new) = n + m
      /\ \A k \in 1..n : new[k] = seq[k]
      /\ \A i \in 1..m : new[n + i] = more[i]
  OBVIOUS
<1> HIDE DEF new
<1>2. Elements(new) = Elements(seq) \cup Elements(more)
  <2>1. /\ Elements(seq) = {seq[k] : k \in 1..n} /\ Elements(more) = {more[k] : k \in 1..m}
        /\ Elements(new) = {new[k] : k \in 1..(n + m)}
    BY <1>1 DEF Elements
  <2> HIDE DEF n, m
  <2>2. \A k \in 1..(n + m) : k \in 1..n \/ (k - n \in 1..m /\ k = n + (k - n))
    BY <1>1
  <2>3. /\ \A k \in 1..n : k \in 1..(n + m)
        /\ \A i \in 1..m : n + i \in 1..(n + m)
    BY <1>1
  <2>4. ASSUME NEW x \in Elements(new)
        PROVE  x \in Elements(seq) \/ x \in Elements(more)
    <3>1. PICK k \in 1..(n + m) : x = new[k]
      BY <2>1
    <3>2. CASE k \in 1..n
      <4>1. x = seq[k]
        BY <1>1, <3>1, <3>2
      <4> QED BY <2>1, <3>2, <4>1
    <3>3. CASE k - n \in 1..m /\ k = n + (k - n)
      <4>1. x = more[k - n]
        BY <1>1, <3>1, <3>3
      <4> QED BY <2>1, <3>3, <4>1
    <3> QED BY <2>2, <3>2, <3>3
  <2>5. (\A x \in Elements(seq) : x \in Elements(new)) /\ (\A x \in Elements(more) : x \in Elements(new))
    BY <1>1, <2>1, <2>3
  <2> QED BY <2>4, <2>5
<1> QED BY <1>1, <1>2 DEF new

\* Another database leaves the children where they are.
LEMMA PlacedStay ==
    ASSUME NEW objects \in Seq(TreeObjects), NEW kids, NEW p \in Nat, Placed(objects, kids, p),
           NEW root \in TreeObjects, root.type = "database"
    PROVE  Placed(objects \o <<root>>, kids, p)
<1> DEFINE new == objects \o <<root>>
           n == Len(objects)
<1>1. n \in Nat /\ Len(new) = n + 1 /\ (\A k \in 1..n : new[k] = objects[k]) /\ new[n + 1] = root
  BY OneMore
<1> HIDE DEF new
<1> SUFFICES ASSUME NEW k \in 1..Len(new), new[k].type # "database"
             PROVE  /\ p \in 1..(k - 1) /\ new[p] = RootObject(Connected)
                    /\ k - p \in 1..Len(kids)
                    /\ \A i \in 1..(k - p) : new[p + i] = kids[i]
  BY DEF Placed, new
<1>2. k \in 1..n /\ objects[k].type # "database"
  BY <1>1
<1>3. /\ p \in 1..(k - 1) /\ objects[p] = RootObject(Connected)
      /\ k - p \in 1..Len(kids)
      /\ \A i \in 1..(k - p) : objects[p + i] = kids[i]
  BY <1>2 DEF Placed
<1> HIDE DEF n
<1>4. p \in 1..n /\ \A i \in 1..(k - p) : p + i \in 1..n
  BY <1>1, <1>2, <1>3
<1> QED BY <1>1, <1>3, <1>4

\* The children come behind their root, where only databases were before.
LEMMA PlacedNow ==
    ASSUME NEW objects \in Seq(TreeObjects), \A k \in 1..Len(objects) : objects[k].type = "database",
           NEW kids \in Seq(TreeObjects), RootObject(Connected) \in TreeObjects,
           RootObject(Connected).type = "database"
    PROVE  Placed(objects \o <<RootObject(Connected)>> \o kids, kids, Len(objects) + 1)
<1> DEFINE root == RootObject(Connected)
           n == Len(objects)
           mid == objects \o <<root>>
           new == mid \o kids
           m == Len(kids)
<1>1. /\ n \in Nat /\ mid \in Seq(TreeObjects) /\ Len(mid) = n + 1
      /\ (\A k \in 1..n : mid[k] = objects[k]) /\ mid[n + 1] = root
  BY OneMore
<1> HIDE DEF root, n, mid
<1>2. /\ m \in Nat /\ Len(new) = n + 1 + m /\ (\A k \in 1..(n + 1) : new[k] = mid[k])
      /\ \A i \in 1..m : new[n + 1 + i] = kids[i]
  <2>1. /\ Len(new) = Len(mid) + Len(kids)
        /\ \A k \in 1..Len(mid) : new[k] = mid[k]
        /\ \A i \in 1..Len(kids) : new[Len(mid) + i] = kids[i]
    <3>1. mid \in Seq(TreeObjects) /\ kids \in Seq(TreeObjects)
      BY <1>1
    <3> QED BY <3>1, TwoParts
  <2> QED BY <1>1, <2>1
<1> HIDE DEF m, new
<1>3. n + 1 \in 1..(n + 1) /\ new[n + 1] = root
  BY <1>1, <1>2
<1>4. \A k \in 1..(n + 1) : new[k].type = "database"
  <2>1. \A k \in 1..n : objects[k].type = "database"
    BY DEF n
  <2>2. root.type = "database"
    BY DEF root
  <2> QED BY <1>1, <1>2, <2>1, <2>2
<1>5. ASSUME NEW k \in 1..Len(new), new[k].type # "database"
      PROVE  /\ n + 1 \in 1..(k - 1) /\ new[n + 1] = root
             /\ k - (n + 1) \in 1..m
             /\ \A i \in 1..(k - (n + 1)) : new[n + 1 + i] = kids[i]
  <2>1. k \notin 1..(n + 1)
    BY <1>4, <1>5
  <2> QED BY <1>1, <1>2, <1>3, <2>1
<1> QED BY <1>5 DEF Placed, new, mid, root, n, m

\* A turn of the loop lists a database, and what is its own if it is the
\* connected one.
LEMMA ScanDatabaseAdds ==
    ASSUME TypeOK, At("databases"), NEW own \in times, NEW all \in times,
           Kids(own, tree.children), Gathered(all, tree), HasRow
    PROVE  LET new == tree.objects \o <<Object(Displayed[Row], "database", <<Displayed[Row]>>, None)>>
                         \o (IF Row = tree.current THEN tree.children ELSE <<>>)
           IN  /\ new \in Seq(TreeObjects)
               /\ Gathered(all, [tree EXCEPT !.next = @ + 1, !.objects = new])
<1> DEFINE rows == tree.rows
           n == tree.next
           row == rows[n]
           root == RootObject(row)
           kids == tree.children
           objects == tree.objects
           mid == objects \o <<root>>
           more == IF row = Connected THEN kids ELSE <<>>
           new == mid \o more
           t == [tree EXCEPT !.next = @ + 1, !.objects = new]
<1>1. /\ all \in Catalogs /\ tree.current = Connected /\ tree \in TreeType
      /\ kids \in Seq(TreeObjects) /\ objects \in Seq(TreeObjects)
      /\ n \in Nat /\ n >= 1 /\ n <= Len(rows)
  BY DEF TypeOK, TreeType, RowLists, ObjectLists, Positions, HasRow, At
<1>2. /\ Enumerates(rows, all.databases)
      /\ \A k \in 1..Len(objects) : objects[k] \in Roots(all) \/ objects[k] \in Elements(kids)
      /\ \A j \in 1..(n - 1) :
            /\ RootObject(rows[j]) \in Elements(objects)
            /\ rows[j] = Connected => Elements(kids) \subseteq Elements(objects)
      /\ \E p \in Nat : Placed(objects, kids, p)
      /\ (\A j \in 1..(n - 1) : rows[j] # Connected) =>
            \A k \in 1..Len(objects) : objects[k].type = "database"
  BY DEF Gathered
<1>3. /\ rows \in Seq(all.databases) /\ Len(rows) \in Nat /\ n \in 1..Len(rows)
      /\ \A j, k \in 1..Len(rows) : rows[j] = rows[k] => j = k
  BY <1>1, <1>2 DEF Enumerates
<1>4. row \in all.databases /\ row \in Names
  BY <1>1, <1>3, SchemaTreeAssumption DEF Catalog
<1>5. root \in TreeObjects /\ root.type = "database" /\ root \in Roots(all)
  BY <1>4, ObjectFields DEF Roots, RootObject
<1>6. /\ mid \in Seq(TreeObjects) /\ Len(mid) = Len(objects) + 1
      /\ \A k \in 1..Len(objects) : mid[k] = objects[k]
      /\ mid[Len(objects) + 1] = root
      /\ Elements(mid) = Elements(objects) \cup {root}
  BY <1>1, <1>5, OneMore
<1>7. more \in Seq(TreeObjects) /\ Elements(more) \subseteq Elements(kids)
  BY <1>1 DEF Elements
<1>8. /\ t.rows = rows /\ t.children = kids /\ t.next = n + 1 /\ t.objects = new
  BY <1>1 DEF TreeType
<1>9. tree.objects \o <<Object(Displayed[Row], "database", <<Displayed[Row]>>, None)>>
         \o (IF Row = tree.current THEN tree.children ELSE <<>>) = new
  BY <1>1 DEF Row, RootObject
<1> HIDE DEF t, mid, objects, root, row, rows, n, kids
<1>10. /\ new \in Seq(TreeObjects) /\ Elements(new) = Elements(objects) \cup {root} \cup Elements(more)
  <2> HIDE DEF more
  <2> QED BY <1>6, <1>7, TwoParts
<1>11. ASSUME row = Connected
       PROVE  /\ new = mid \o kids /\ Elements(more) = Elements(kids)
              /\ \A j \in 1..(n - 1) : rows[j] # Connected
  BY <1>1, <1>3, <1>11 DEF row
<1>12. row # Connected => new = mid
  <2> SUFFICES ASSUME row # Connected PROVE new = mid
    OBVIOUS
  <2>1. more = <<>>
    OBVIOUS
  <2> HIDE DEF more
  <2> QED BY <1>6, <2>1
<1>13. \A k \in 1..Len(new) : new[k] \in Roots(all) \/ new[k] \in Elements(kids)
  <2> HIDE DEF new, more
  <2>1. \A x \in Elements(objects) : x \in Roots(all) \/ x \in Elements(kids)
    BY <1>2 DEF Elements
  <2>2. \A k \in 1..Len(new) : new[k] \in Elements(new)
    BY DEF Elements
  <2> QED BY <1>5, <1>7, <1>10, <2>1, <2>2
<1>14. ASSUME NEW j \in 1..n
       PROVE  /\ RootObject(rows[j]) \in Elements(new)
              /\ rows[j] = Connected => Elements(kids) \subseteq Elements(new)
  <2> HIDE DEF new, more
  <2>1. CASE j = n
    <3>1. rows[j] = row /\ RootObject(rows[j]) = root
      BY <2>1 DEF row, root
    <3> QED BY <1>10, <1>11, <3>1
  <2>2. CASE j \in 1..(n - 1)
    BY <1>2, <1>10, <2>2
  <2> QED BY <1>1, <2>1, <2>2
<1>15. \E p \in Nat : Placed(new, kids, p)
  <2>1. CASE row # Connected
    <3>1. PICK p \in Nat : Placed(objects, kids, p)
      BY <1>2
    <3>2. Placed(mid, kids, p)
      BY <1>1, <1>5, <3>1, PlacedStay DEF mid
    <3> QED BY <1>12, <2>1, <3>2
  <2>2. CASE row = Connected
    <3>1. \A k \in 1..Len(objects) : objects[k].type = "database"
      BY <1>2, <1>11, <2>2
    <3>2. root = RootObject(Connected)
      BY <2>2 DEF root
    <3>3. Placed(mid \o kids, kids, Len(objects) + 1)
      BY <1>1, <1>5, <3>1, <3>2, PlacedNow DEF mid
    <3>4. Len(objects) + 1 \in Nat
      BY <1>1
    <3> QED BY <1>11, <2>2, <3>3, <3>4
  <2> QED BY <2>1, <2>2
<1>16. ASSUME \A j \in 1..n : rows[j] # Connected
       PROVE  \A k \in 1..Len(new) : new[k].type = "database"
  <2>1. row # Connected /\ \A j \in 1..(n - 1) : rows[j] # Connected
    BY <1>1, <1>16 DEF row
  <2>2. new = mid /\ \A k \in 1..Len(objects) : objects[k].type = "database"
    BY <1>2, <1>12, <2>1
  <2>3. Len(objects) \in Nat
    BY <1>1
  <2> HIDE DEF new
  <2> QED BY <1>5, <1>6, <2>2, <2>3
<1> HIDE DEF new
<1>17. Gathered(all, t)
  <2>1. t.next <= Len(t.rows) + 1 /\ t.next - 1 = n
    BY <1>1, <1>3, <1>8
  <2> QED BY <1>2, <1>8, <1>13, <1>14, <1>15, <1>16, <2>1 DEF Gathered
<1> QED BY <1>9, <1>10, <1>17 DEF t

(***************************************************************************)
(* The inductive invariant holds                                           *)
(***************************************************************************)
\* A call that is not there yet lists nothing.
LEMMA InitHolds == Init => IInv
<1> SUFFICES ASSUME Init PROVE IInv
  OBVIOUS
<1>1. tree \in TreeType
  <2>1. <<>> \in Seq(AnyRow) /\ <<>> \in Seq(TreeObjects)
    OBVIOUS
  <2> QED BY <2>1 DEF Init, TreeType, RowLists, ObjectLists, Positions, Shown
<1>2. TypeOK
  BY <1>1 DEF Init, TypeOK, At
<1>3. ChildrenKnown /\ ObjectsKnown
  BY DEF Init, ChildrenKnown, ObjectsKnown, Answered, At
<1> QED BY <1>2, <1>3 DEF IInv

\* Rows of any catalog are rows.
LEMMA RowsAreAnyRows ==
    ASSUME NEW db \in Catalogs, NEW seq
    PROVE  /\ seq \in Seq(RowsOf(db)) => seq \in Seq(AnyRow)
           /\ seq \in Seq(db.databases) => seq \in Seq(AnyRow)
<1>1. RowsOf(db) \subseteq AnyRow
  BY DEF AnyRow
<1>2. db.databases \subseteq AnyRow
  BY SchemaTreeAssumption DEF AnyRow, Catalog
<1> HIDE DEF AnyRow
<1>3. ASSUME NEW S, S \subseteq AnyRow, seq \in Seq(S) PROVE seq \in Seq(AnyRow)
  BY <1>3
<1> QED BY <1>1, <1>2, <1>3

\* The first query.
LEMMA AskCurrentHolds == IInv /\ AskCurrent => IInv'
<1> SUFFICES ASSUME IInv, AskCurrent PROVE IInv'
  OBVIOUS
<1>1. /\ tree \in TreeType /\ tree.pc = "idle" /\ catalog \in Catalogs
      /\ tree.children = <<>> /\ tree.lastSchema = Blank /\ tree.objects = <<>>
  BY DEF IInv, TypeOK, AskCurrent, At
<1>2. /\ tree' = [tree EXCEPT !.pc = "current", !.current = Connected]
      /\ times' = {catalog} /\ catalog' = catalog
  BY DEF AskCurrent
<1>3. tree' \in TreeType /\ tree'.pc = "current" /\ tree'.current = Connected
      /\ tree'.children = <<>> /\ tree'.lastSchema = Blank /\ tree'.objects = <<>>
  BY <1>1, <1>2, SchemaTreeAssumption DEF TreeType
<1>4. TypeOK'
  BY <1>1, <1>2, <1>3 DEF TypeOK, At
<1>5. ChildrenKnown' /\ ObjectsKnown'
  BY <1>3 DEF ChildrenKnown, ObjectsKnown, Answered, At
<1> QED BY <1>4, <1>5 DEF IInv

\* The second query has its rows, of the catalog of its moment.
LEMMA AskChildrenHolds == IInv /\ AskChildren => IInv'
<1> SUFFICES ASSUME IInv, AskChildren PROVE IInv'
  OBVIOUS
<1>1. /\ tree \in TreeType /\ tree.pc = "current" /\ catalog \in Catalogs /\ tree.current = Connected
      /\ tree.children = <<>> /\ tree.lastSchema = Blank /\ tree.objects = <<>>
      /\ catalog \in times /\ times \subseteq Catalogs
  BY DEF IInv, TypeOK, AskChildren, At
<1>2. /\ tree' = [tree EXCEPT !.pc = "children", !.rows = ChildRows, !.next = 1]
      /\ times' = times /\ catalog' = catalog
  BY DEF AskChildren, Become
<1>3. Enumerates(ChildRows, RowsOf(catalog)) /\ Grouped(ChildRows)
  BY <1>1, ChildRowsAreRight
<1>4. ChildRows \in Seq(RowsOf(catalog)) /\ ChildRows \in Seq(AnyRow) /\ Len(ChildRows) \in Nat
  <2>1. ChildRows \in Seq(RowsOf(catalog))
    BY <1>3 DEF Enumerates
  <2>2. Len(ChildRows) \in Nat
    BY <2>1
  <2> QED BY <1>1, <2>1, <2>2, RowsAreAnyRows
<1>5. /\ tree' \in TreeType /\ tree'.pc = "children" /\ tree'.current = Connected
      /\ tree'.rows = ChildRows /\ tree'.next = 1
      /\ tree'.children = <<>> /\ tree'.lastSchema = Blank /\ tree'.objects = <<>>
  <2>1. 1 \in Positions /\ ChildRows \in RowLists
    BY <1>4 DEF Positions, RowLists
  <2> QED BY <1>1, <1>2, <2>1 DEF TreeType
<1>6. TypeOK'
  BY <1>1, <1>2, <1>5 DEF TypeOK, At
<1>7. ChildrenOf(catalog, tree')
  <2>1. Kids(catalog, <<>>) /\ Latest(<<>>, Blank)
    BY DEF Kids, Latest
  <2>2. Named(<<>>, ScannedNames(ChildRows, 0))
    BY DEF Named
  <2>3. 1 - 1 = 0 /\ 1..0 = {}
    OBVIOUS
  <2> QED BY <1>3, <1>4, <1>5, <2>1, <2>2, <2>3 DEF ChildrenOf
<1>8. ChildrenKnown'
  BY <1>1, <1>2, <1>7 DEF ChildrenKnown
<1>9. ObjectsKnown'
  BY <1>5 DEF ObjectsKnown, Answered, At
<1> QED BY <1>6, <1>8, <1>9 DEF IInv

\* A row more becomes a schema and a table.
LEMMA ScanChildHolds == IInv /\ ScanChild => IInv'
<1> SUFFICES ASSUME IInv, ScanChild PROVE IInv'
  OBVIOUS
<1>1. /\ tree \in TreeType /\ tree.pc = "children" /\ catalog \in Catalogs /\ tree.current = Connected
      /\ tree.objects = <<>> /\ catalog \in times /\ times \subseteq Catalogs
      /\ TypeOK /\ At("children") /\ HasRow
  BY DEF IInv, TypeOK, ScanChild, At
<1>2. PICK db \in times : ChildrenOf(db, tree)
  BY <1>1 DEF IInv, ChildrenKnown
<1> DEFINE schema == Displayed[Row.schema]
           new == tree.children \o SchemaObject(schema) \o TableObject(schema, Row)
           rows == tree.rows
           n == tree.next
<1>3. /\ schema \in Shown /\ new \in Seq(TreeObjects)
      /\ Kids(db, new) /\ Latest(new, schema)
      /\ Named(new, ScannedNames(rows, n))
      /\ Elements(tree.children) \subseteq Elements(new)
      /\ Lists(new, Row)
  BY <1>1, <1>2, ScanChildAdds
<1>4. tree' = [tree EXCEPT !.next = @ + 1, !.lastSchema = schema, !.children = new]
      /\ times' = times /\ catalog' = catalog
  BY DEF ScanChild, Become, LastSchema
<1>5. Row = rows[n] /\ n \in Nat /\ n >= 1 /\ n <= Len(rows) /\ schema = Displayed[rows[n].schema]
  BY <1>1 DEF Row, HasRow, TreeType, Positions
<1> HIDE DEF new, schema
<1>6. /\ tree' \in TreeType /\ tree'.pc = "children" /\ tree'.current = Connected
      /\ tree'.rows = rows /\ tree'.next = n + 1
      /\ tree'.children = new /\ tree'.lastSchema = schema /\ tree'.objects = <<>>
  <2>1. n + 1 \in Positions /\ new \in ObjectLists
    BY <1>3, <1>5 DEF Positions, ObjectLists
  <2> QED BY <1>1, <1>3, <1>4, <2>1 DEF TreeType
<1>7. TypeOK'
  BY <1>1, <1>4, <1>6 DEF TypeOK, At
<1>8. Enumerates(rows, RowsOf(db)) /\ Grouped(rows) /\ Len(rows) \in Nat
      /\ \A j \in 1..(n - 1) : Lists(tree.children, rows[j])
  BY <1>2 DEF ChildrenOf, Enumerates
<1> HIDE DEF rows, n
<1>9. \A j \in 1..n : Lists(new, rows[j])
  <2> SUFFICES ASSUME NEW j \in 1..n PROVE Lists(new, rows[j])
    OBVIOUS
  <2>1. CASE j = n
    BY <1>3, <1>5, <2>1
  <2>2. CASE j \in 1..(n - 1)
    <3>1. Lists(tree.children, rows[j])
      BY <1>8, <2>2
    <3> QED BY <1>3, <3>1 DEF Lists
  <2> QED BY <1>5, <2>1, <2>2
<1>10. ChildrenOf(db, tree')
  <2>1. n + 1 - 1 = n /\ n + 1 # 1 /\ n + 1 <= Len(rows) + 1
    BY <1>5, <1>8
  <2> QED BY <1>3, <1>5, <1>6, <1>8, <1>9, <2>1 DEF ChildrenOf
<1>11. ChildrenKnown'
  BY <1>4, <1>10 DEF ChildrenKnown
<1>12. ObjectsKnown'
  BY <1>6 DEF ObjectsKnown, Answered, At
<1> QED BY <1>7, <1>11, <1>12 DEF IInv

\* All children are listed when the third query has its rows.
LEMMA AskDatabasesHolds == IInv /\ AskDatabases => IInv'
<1> SUFFICES ASSUME IInv, AskDatabases PROVE IInv'
  OBVIOUS
<1>1. /\ tree \in TreeType /\ tree.pc = "children" /\ catalog \in Catalogs /\ tree.current = Connected
      /\ tree.objects = <<>> /\ catalog \in times /\ times \subseteq Catalogs /\ ~ HasRow
  BY DEF IInv, TypeOK, AskDatabases, At
<1>2. PICK own \in times : ChildrenOf(own, tree)
  BY <1>1 DEF IInv, ChildrenKnown, At
<1>3. /\ tree' = [tree EXCEPT !.pc = "databases", !.rows = DatabaseRows, !.next = 1]
      /\ times' = times /\ catalog' = catalog
  BY DEF AskDatabases, Become
<1>4. Enumerates(DatabaseRows, catalog.databases)
  BY <1>1, DatabaseRowsAreRight
<1>5. DatabaseRows \in Seq(AnyRow) /\ Len(DatabaseRows) \in Nat
  <2>1. DatabaseRows \in Seq(catalog.databases)
    BY <1>4 DEF Enumerates
  <2>2. Len(DatabaseRows) \in Nat
    BY <2>1
  <2> QED BY <1>1, <2>1, <2>2, RowsAreAnyRows
<1>6. /\ tree' \in TreeType /\ tree'.pc = "databases" /\ tree'.current = Connected
      /\ tree'.rows = DatabaseRows /\ tree'.next = 1 /\ tree'.children = tree.children
      /\ tree'.objects = <<>>
  <2>1. 1 \in Positions /\ DatabaseRows \in RowLists
    BY <1>5 DEF Positions, RowLists
  <2> QED BY <1>1, <1>3, <2>1 DEF TreeType
<1>7. TypeOK'
  BY <1>1, <1>3, <1>6 DEF TypeOK, At
<1>8. Kids(own, tree.children) /\ Whole(own, tree.children)
  <2>1. tree.next = Len(tree.rows) + 1
    <3>1. tree.next <= Len(tree.rows) + 1 /\ tree.next \in Nat /\ Len(tree.rows) \in Nat
      BY <1>1, <1>2 DEF ChildrenOf, TreeType, Positions, RowLists
    <3> QED BY <1>1, <3>1 DEF HasRow
  <2>2. own \in Catalogs
    BY <1>1
  <2> QED BY <1>2, <2>1, <2>2, AllScanned DEF ChildrenOf
<1>9. Gathered(catalog, tree')
  <2>1. 1..Len(<<>>) = {} /\ 1..(1 - 1) = {} /\ 0 \in Nat
    OBVIOUS
  <2>2. Placed(<<>>, tree.children, 0)
    BY <2>1 DEF Placed
  <2> QED BY <1>4, <1>5, <1>6, <2>1, <2>2 DEF Gathered
<1>10. ObjectsKnown'
  BY <1>1, <1>3, <1>6, <1>8, <1>9 DEF ObjectsKnown, Answered, At
<1>11. ChildrenKnown'
  BY <1>6 DEF ChildrenKnown, At
<1> QED BY <1>7, <1>10, <1>11 DEF IInv

\* A database more, with its children where it is the connected one.
LEMMA ScanDatabaseHolds == IInv /\ ScanDatabase => IInv'
<1> SUFFICES ASSUME IInv, ScanDatabase PROVE IInv'
  OBVIOUS
<1>1. /\ tree \in TreeType /\ tree.pc = "databases" /\ catalog \in Catalogs /\ tree.current = Connected
      /\ catalog \in times /\ times \subseteq Catalogs
      /\ TypeOK /\ At("databases") /\ HasRow
  BY DEF IInv, TypeOK, ScanDatabase, At
<1>2. PICK own \in times, all \in times :
         Kids(own, tree.children) /\ Whole(own, tree.children) /\ Gathered(all, tree)
  BY <1>1 DEF IInv, ObjectsKnown
<1> DEFINE new == tree.objects \o <<Object(Displayed[Row], "database", <<Displayed[Row]>>, None)>>
                         \o (IF Row = tree.current THEN tree.children ELSE <<>>)
<1>3. /\ new \in Seq(TreeObjects)
      /\ Gathered(all, [tree EXCEPT !.next = @ + 1, !.objects = new])
  BY <1>1, <1>2, ScanDatabaseAdds
<1>4. /\ tree' = [tree EXCEPT !.next = @ + 1, !.objects = new]
      /\ times' = times /\ catalog' = catalog
  BY DEF ScanDatabase, Become
<1> HIDE DEF new
<1>5. /\ tree' \in TreeType /\ tree'.pc = "databases" /\ tree'.current = Connected
      /\ tree'.children = tree.children
  <2>1. tree.next + 1 \in Positions /\ new \in ObjectLists
    BY <1>1, <1>3 DEF Positions, ObjectLists, TreeType
  <2> QED BY <1>1, <1>3, <1>4, <2>1 DEF TreeType
<1>6. TypeOK'
  BY <1>1, <1>4, <1>5 DEF TypeOK, At
<1>7. ObjectsKnown'
  <2>1. Gathered(all, tree')
    BY <1>3, <1>4
  <2> QED BY <1>2, <1>4, <1>5, <2>1 DEF ObjectsKnown, Answered, At
<1>8. ChildrenKnown'
  BY <1>5 DEF ChildrenKnown, At
<1> QED BY <1>6, <1>7, <1>8 DEF IInv

\* The answer has all the rows.
LEMMA AnswerHolds == IInv /\ Answer => IInv'
<1> SUFFICES ASSUME IInv, Answer PROVE IInv'
  OBVIOUS
<1>1. /\ tree \in TreeType /\ tree.pc = "databases" /\ catalog \in Catalogs /\ tree.current = Connected
      /\ times \subseteq Catalogs /\ ~ HasRow
  BY DEF IInv, TypeOK, Answer, At
<1>2. PICK own \in times, all \in times :
         Kids(own, tree.children) /\ Whole(own, tree.children) /\ Gathered(all, tree)
  BY <1>1 DEF IInv, ObjectsKnown, At
<1>3. /\ tree' = [tree EXCEPT !.pc = "done", !.answer = "ok"]
      /\ times' = times /\ catalog' = catalog
  BY DEF Answer, Become
<1>4. /\ tree' \in TreeType /\ tree'.pc = "done" /\ tree'.current = Connected
      /\ tree'.children = tree.children /\ tree'.objects = tree.objects
      /\ tree'.rows = tree.rows /\ tree'.next = tree.next
  BY <1>1, <1>3 DEF TreeType
<1>5. TypeOK'
  BY <1>1, <1>3, <1>4 DEF TypeOK, At
<1>6. tree.next = Len(tree.rows) + 1
  <2>1. tree.next <= Len(tree.rows) + 1 /\ tree.next \in Nat /\ Len(tree.rows) \in Nat
    BY <1>1, <1>2 DEF Gathered, TreeType, Positions, RowLists
  <2> QED BY <1>1, <2>1 DEF HasRow
<1>7. Gathered(all, tree')
  BY <1>2, <1>4 DEF Gathered
<1>8. ObjectsKnown'
  BY <1>2, <1>3, <1>4, <1>6, <1>7 DEF ObjectsKnown
<1>9. ChildrenKnown'
  BY <1>4 DEF ChildrenKnown, At
<1> QED BY <1>5, <1>8, <1>9 DEF IInv

\* A failed call has nothing to show.
LEMMA FailHolds == IInv /\ Fail => IInv'
<1> SUFFICES ASSUME IInv, Fail PROVE IInv'
  OBVIOUS
<1>1. /\ tree \in TreeType /\ tree.pc \in {"current", "children", "databases"}
      /\ catalog \in Catalogs /\ tree.current = Connected /\ times \subseteq Catalogs
  BY DEF IInv, TypeOK, Fail, At
<1>2. /\ tree' = [tree EXCEPT !.pc = "done", !.answer = "failed", !.objects = <<>>]
      /\ times' = times /\ catalog' = catalog
  BY DEF Fail, Become
<1>3. /\ tree' \in TreeType /\ tree'.pc = "done" /\ tree'.current = Connected
      /\ tree'.answer = "failed"
  <2>1. <<>> \in Seq(TreeObjects)
    OBVIOUS
  <2> QED BY <1>1, <1>2, <2>1 DEF TreeType, ObjectLists
<1>4. TypeOK'
  BY <1>1, <1>2, <1>3 DEF TypeOK, At
<1>5. ChildrenKnown' /\ ObjectsKnown'
  BY <1>3 DEF ChildrenKnown, ObjectsKnown, Answered, At
<1> QED BY <1>4, <1>5 DEF IInv

\* What was of the time of the call stays so, whatever others do.
LEMMA ChangeHolds == IInv /\ Change => IInv'
<1> SUFFICES ASSUME IInv, Change PROVE IInv'
  OBVIOUS
<1>1. /\ tree' = tree /\ catalog' \in Catalogs /\ tree.pc # "done"
      /\ times' = IF At("idle") THEN {} ELSE times \cup {catalog'}
  BY DEF Change
<1>2. TypeOK'
  BY <1>1 DEF IInv, TypeOK, At
<1>3. CASE At("idle")
  BY <1>1, <1>2, <1>3 DEF IInv, ChildrenKnown, ObjectsKnown, Answered, At
<1>4. CASE ~ At("idle")
  <2>1. times \subseteq times'
    BY <1>1, <1>4
  <2>2. ChildrenKnown'
    BY <1>1, <2>1 DEF IInv, ChildrenKnown, At
  <2>3. ObjectsKnown'
    BY <1>1, <2>1 DEF IInv, ObjectsKnown, Answered, At
  <2> QED BY <1>2, <2>2, <2>3 DEF IInv
<1> QED BY <1>3, <1>4

\* What a call has listed is, at every moment, what the rows scanned so far are
\* to be listed as: of one catalog's rows, in order and complete.
THEOREM Invariance == Spec => []IInv
<1>1. Init => IInv
  BY InitHolds
<1>2. IInv /\ [Next]_vars => IInv'
  <2> SUFFICES ASSUME IInv, [Next]_vars PROVE IInv'
    OBVIOUS
  <2>1. CASE UNCHANGED vars
    <3>1. catalog' = catalog /\ tree' = tree /\ times' = times
      BY <2>1 DEF vars
    <3> QED BY <3>1 DEF IInv, TypeOK, ChildrenKnown, ObjectsKnown, Answered, At
  <2> QED BY <2>1, AskCurrentHolds, AskChildrenHolds, ScanChildHolds, AskDatabasesHolds,
             ScanDatabaseHolds, AnswerHolds, FailHolds, ChangeHolds DEF Next
<1> QED BY <1>1, <1>2, PTL DEF Spec

(***************************************************************************)
(* What the answered call shows                                            *)
(***************************************************************************)
\* An answered call has all the children of one moment and the databases of
\* another.
LEMMA Complete ==
    ASSUME IInv, Answered
    PROVE  \E own, all \in times :
              /\ own \in Catalogs /\ all \in Catalogs
              /\ Kids(own, tree.children) /\ Whole(own, tree.children)
              /\ Gathered(all, tree) /\ tree.next = Len(tree.rows) + 1
<1>1. times \subseteq Catalogs
  BY DEF IInv, TypeOK
<1> QED BY <1>1 DEF IInv, ObjectsKnown

\* The objects are the elements of a sequence.
LEMMA ObjectsAreListed ==
    ASSUME IInv
    PROVE  /\ tree.objects \in Seq(TreeObjects) /\ DOMAIN tree.objects = 1..Len(tree.objects)
           /\ Len(tree.objects) \in Nat /\ Objects = Elements(tree.objects)
<1>1. tree.objects \in Seq(TreeObjects)
  BY DEF IInv, TypeOK, TreeType, ObjectLists
<1> QED BY <1>1 DEF Objects, Elements

\* The tree shows what was there during the call, and misses nothing that was
\* there all the time.
LEMMA InTime == IInv => TreeIsOfItsTime
<1> SUFFICES ASSUME IInv, Answered
             PROVE  /\ Objects \subseteq UNION {Roots(db) \cup Own(db) : db \in times}
                    /\ Every(Roots) \subseteq Objects
                    /\ (\A db \in times : Connected \in db.databases) /\ Displayed[Connected] # Blank
                          => {x \in Every(Own) : x.name # <<Blank>>} \subseteq Objects
  BY DEF TreeIsOfItsTime
<1>1. PICK own \in times, all \in times :
         /\ own \in Catalogs /\ all \in Catalogs
         /\ Kids(own, tree.children) /\ Whole(own, tree.children)
         /\ Gathered(all, tree) /\ tree.next = Len(tree.rows) + 1
  BY Complete
<1>2. /\ Objects = Elements(tree.objects)
      /\ \A x \in Objects : \E k \in 1..Len(tree.objects) : x = tree.objects[k]
  BY ObjectsAreListed DEF Elements
<1>3. Objects \subseteq UNION {Roots(db) \cup Own(db) : db \in times}
  <2> SUFFICES ASSUME NEW x \in Objects PROVE x \in Roots(all) \cup Own(own)
    BY <1>1
  <2>1. x \in Roots(all) \/ x \in Elements(tree.children)
    BY <1>1, <1>2 DEF Gathered
  <2>2. x \in Elements(tree.children) => x \in Own(own)
    BY <1>1 DEF Kids, Elements
  <2> QED BY <2>1, <2>2
<1>4. ASSUME NEW d \in all.databases
      PROVE  /\ RootObject(d) \in Objects
             /\ d = Connected => Elements(tree.children) \subseteq Objects
  <2>1. PICK j \in 1..Len(tree.rows) : tree.rows[j] = d
    BY <1>1 DEF Gathered, Enumerates
  <2>2. Len(tree.rows) \in Nat
    BY <1>1 DEF Gathered, Enumerates
  <2>3. j \in 1..(tree.next - 1)
    BY <1>1, <2>2
  <2> QED BY <1>1, <1>2, <2>1, <2>3 DEF Gathered
<1>5. Every(Roots) \subseteq Objects
  <2> SUFFICES ASSUME NEW x \in Every(Roots) PROVE x \in Objects
    OBVIOUS
  <2>1. x \in Roots(all)
    BY <1>1 DEF Every
  <2>2. PICK d \in all.databases : x = RootObject(d)
    BY <2>1 DEF Roots, RootObject
  <2> QED BY <1>4, <2>2
<1>6. ASSUME \A db \in times : Connected \in db.databases
      PROVE  {x \in Every(Own) : x.name # <<Blank>>} \subseteq Objects
  <2> SUFFICES ASSUME NEW x \in Every(Own), x.name # <<Blank>> PROVE x \in Objects
    OBVIOUS
  <2>1. x \in Own(own)
    BY <1>1 DEF Every
  <2>2. x \in Elements(tree.children)
    BY <1>1, <2>1 DEF Whole
  <2>3. Connected \in all.databases
    BY <1>1, <1>6
  <2> QED BY <1>4, <2>2, <2>3
<1> QED BY <1>3, <1>5, <1>6

\* The nearest object of a type is the one with none of it in between.
LEMMA NearestIs ==
    ASSUME IInv, NEW k \in 1..Len(tree.objects), NEW type, NEW m \in 1..(k - 1),
           tree.objects[m].type = type,
           \A j \in (m + 1)..(k - 1) : tree.objects[j].type # type
    PROVE  Nearest(k, type) = tree.objects[m]
<1> DEFINE before == {j \in OfType({type}) : j < k}
<1>1. DOMAIN tree.objects = 1..Len(tree.objects) /\ Len(tree.objects) \in Nat
  BY ObjectsAreListed
<1>2. \A j \in before : j \in 1..(k - 1) /\ tree.objects[j].type = type
  BY <1>1 DEF OfType
<1>3. m \in before
  BY <1>1 DEF OfType
<1> HIDE DEF before
<1>4. \A j \in before : j <= m
  BY <1>1, <1>2
<1>5. \A j \in before : (\A i \in before : i <= j) => j = m
  BY <1>1, <1>2, <1>3, <1>4
<1>6. (CHOOSE j \in before : \A i \in before : i <= j) = m
  BY <1>3, <1>4, <1>5
<1>7. Nearest(k, type) = IF before = {} THEN None
                         ELSE tree.objects[CHOOSE j \in before : \A i \in before : i <= j]
  BY DEF Nearest, before
<1> QED BY <1>3, <1>6, <1>7

\* Schemas and tables stand under the root of the connected database, and tables
\* under their schemas.
LEMMA InOrder == IInv => TreeIsInOrder
<1> DEFINE schemas == UNION {db.schemas : db \in times}
           told == /\ \A s \in schemas : Displayed[s] # Blank
                   /\ \A s, t \in schemas : Displayed[s] = Displayed[t] => s = t
           kids == tree.children
           objects == tree.objects
<1> SUFFICES ASSUME IInv, Answered
             PROVE  /\ \A k \in OfType({"schema", "table", "view"}) :
                          Nearest(k, "database").name = <<Displayed[Connected]>>
                    /\ \A k \in OfType({"table", "view"}) :
                          told => Nearest(k, "schema").name = <<objects[k].name[1]>>
                    /\ told => \A j, k \in OfType({"schema"}) :
                          objects[j].name = objects[k].name => j = k
  BY DEF TreeIsInOrder
<1>1. PICK own \in times, all \in times :
         /\ own \in Catalogs /\ all \in Catalogs
         /\ Kids(own, kids) /\ Whole(own, kids)
         /\ Gathered(all, tree) /\ tree.next = Len(tree.rows) + 1
  BY Complete
<1>2. PICK p \in Nat : Placed(objects, kids, p)
  BY <1>1 DEF Gathered
<1>3. /\ DOMAIN objects = 1..Len(objects) /\ Len(objects) \in Nat
      /\ kids \in Seq(TreeObjects) /\ Len(kids) \in Nat
  <2>1. kids \in Seq(TreeObjects)
    BY DEF IInv, TypeOK, TreeType, ObjectLists
  <2> QED BY <2>1, ObjectsAreListed
<1>4. told => Apart(own) /\ \A s \in SeenIn(own) : Displayed[s] # Blank
  BY <1>1 DEF Apart, SeenIn
<1> HIDE DEF told, kids, objects
<1>5. ASSUME NEW k \in 1..Len(objects), objects[k].type # "database"
      PROVE  /\ p \in 1..(k - 1) /\ objects[p] = RootObject(Connected)
             /\ k - p \in 1..Len(kids) /\ objects[k] = kids[k - p]
             /\ \A i \in 1..(k - p) : /\ objects[p + i] = kids[i] /\ i \in 1..Len(kids)
                                      /\ kids[i] \in Own(own) /\ kids[i].type # "database"
  <2>1. /\ p \in 1..(k - 1) /\ objects[p] = RootObject(Connected)
        /\ k - p \in 1..Len(kids) /\ \A i \in 1..(k - p) : objects[p + i] = kids[i]
    BY <1>2, <1>5 DEF Placed
  <2>2. p + (k - p) = k /\ k - p \in 1..(k - p) /\ \A i \in 1..(k - p) : i \in 1..Len(kids)
    BY <1>2, <1>3, <2>1
  <2>3. \A i \in 1..Len(kids) : kids[i] \in Own(own)
    BY <1>1 DEF Kids
  <2>4. \A x \in Own(own) : x.type # "database"
    BY <1>1, OwnTypes
  <2> QED BY <2>1, <2>2, <2>3, <2>4
<1>6. \A types : OfType(types) = {k \in 1..Len(objects) : objects[k].type \in types}
  BY <1>3 DEF OfType, objects
<1>7. ASSUME NEW k \in OfType({"schema", "table", "view"})
      PROVE  Nearest(k, "database").name = <<Displayed[Connected]>>
  <2>1. k \in 1..Len(objects) /\ objects[k].type # "database"
    BY <1>6
  <2>2. /\ p \in 1..(k - 1) /\ objects[p] = RootObject(Connected)
        /\ \A i \in 1..(k - p) : objects[p + i].type # "database"
    BY <1>5, <2>1
  <2>3. RootObject(Connected).type = "database" /\ RootObject(Connected).name = <<Displayed[Connected]>>
    BY ObjectFields, SchemaTreeAssumption
  <2>4. \A j \in (p + 1)..(k - 1) : objects[j].type # "database"
    <3> SUFFICES ASSUME NEW j \in (p + 1)..(k - 1) PROVE objects[j].type # "database"
      OBVIOUS
    <3>1. j - p \in 1..(k - p) /\ p + (j - p) = j
      BY <1>3, <2>1, <2>2
    <3> QED BY <2>2, <3>1
  <2>5. Nearest(k, "database") = objects[p]
    BY <2>1, <2>2, <2>3, <2>4, NearestIs DEF objects
  <2> QED BY <2>2, <2>3, <2>5
<1>8. ASSUME NEW k \in OfType({"table", "view"}), told
      PROVE  Nearest(k, "schema").name = <<objects[k].name[1]>>
  <2>1. k \in 1..Len(objects) /\ objects[k].type # "database" /\ objects[k].type # "schema"
    BY <1>6
  <2>2. /\ p \in 1..(k - 1) /\ k - p \in 1..Len(kids) /\ objects[k] = kids[k - p]
        /\ \A i \in 1..(k - p) : objects[p + i] = kids[i]
        /\ kids[k - p] \in Own(own)
    <3>1. k - p \in 1..(k - p)
      BY <1>2, <1>3, <1>5, <2>1
    <3> QED BY <1>5, <2>1, <3>1
  <2>3. kids[k - p].name[1] # Blank
    <3>1. PICK t \in ListedIn(own) : /\ t.schema \in SeenIn(own)
                                     /\ kids[k - p].name = <<Displayed[t.schema], Displayed[t.name]>>
      BY <1>1, <2>1, <2>2, OwnTypes
    <3>2. kids[k - p].name[1] = Displayed[t.schema]
      BY <3>1
    <3> QED BY <1>4, <1>8, <3>1, <3>2
  <2>4. PICK m \in 1..(k - p - 1) : Heads(kids, m, k - p) /\ kids[m].name = <<kids[k - p].name[1]>>
    BY <1>1, <2>1, <2>2, <2>3 DEF Kids
  <2>5. /\ m \in Nat /\ m >= 1 /\ m < k - p /\ p + m \in 1..(k - 1) /\ m \in 1..(k - p)
        /\ \A j \in (p + m + 1)..(k - 1) : j - p \in (m + 1)..(k - p) /\ j - p \in 1..(k - p) /\ p + (j - p) = j
    <3>1. k \in Nat /\ m \in Nat /\ m >= 1 /\ m <= k - p - 1
      BY <1>2, <1>3, <2>1, <2>2
    <3>2. m < k - p /\ p + m \in 1..(k - 1) /\ m \in 1..(k - p)
      BY <1>2, <3>1
    <3>3. ASSUME NEW j \in (p + m + 1)..(k - 1)
          PROVE  j - p \in (m + 1)..(k - p) /\ j - p \in 1..(k - p) /\ p + (j - p) = j
      BY <1>2, <3>1
    <3> QED BY <3>1, <3>2, <3>3
  <2>6. objects[p + m] = kids[m] /\ objects[p + m].type = "schema"
    BY <2>2, <2>4, <2>5 DEF Heads
  <2>7. ASSUME NEW j \in (p + m + 1)..(k - 1) PROVE objects[j].type # "schema"
    <3>1. j - p \in (m + 1)..(k - p) /\ j - p \in 1..(k - p) /\ p + (j - p) = j
      BY <2>5
    <3>2. objects[j] = kids[j - p] /\ kids[j - p].type # "schema"
      BY <2>2, <2>4, <3>1 DEF Heads
    <3> QED BY <3>2
  <2>8. Nearest(k, "schema") = objects[p + m]
    BY <2>1, <2>5, <2>6, <2>7, NearestIs DEF objects
  <2> QED BY <2>2, <2>4, <2>6, <2>8
<1>9. ASSUME told, NEW j \in OfType({"schema"}), NEW k \in OfType({"schema"}),
             objects[j].name = objects[k].name
      PROVE  j = k
  <2>1. /\ j \in 1..Len(objects) /\ objects[j].type = "schema"
        /\ k \in 1..Len(objects) /\ objects[k].type = "schema"
    BY <1>6
  <2>2. /\ j - p \in 1..Len(kids) /\ objects[j] = kids[j - p]
        /\ k - p \in 1..Len(kids) /\ objects[k] = kids[k - p]
    BY <1>5, <2>1
  <2>3. j - p = k - p
    BY <1>1, <1>4, <1>9, <2>1, <2>2 DEF Kids
  <2> QED BY <1>2, <2>1, <2>3
<1> QED BY <1>7, <1>8, <1>9 DEF objects

\* ListSchema's three queries, each of its own moment: all that an answer shows
\* was there at some time of the call, and all that was there throughout it
\* shows.
THEOREM TreesAreOfTheirTime == Spec => []TreeIsOfItsTime
<1>1. Spec => []IInv
  BY Invariance
<1> QED BY <1>1, InTime, PTL

\* In the order that listCurrentDatabase makes of the rows, tables stand under
\* their schemas and both under the root of the connected database.
THEOREM TreesAreInOrder == Spec => []TreeIsInOrder
<1>1. Spec => []IInv
  BY Invariance
<1> QED BY <1>1, InOrder, PTL
=============================================================================
